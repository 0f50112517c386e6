----------------------------- MODULE MC_Automation -----------------------------
(***************************************************************************)
(* Instances of the automation without faults of its surroundings: the     *)
(* engine of SongExecutionEngine, which commands songs; the rotation of    *)
(* PlaylistRotation, which chooses them as it goes; and the log of         *)
(* RadioRundown, which chooses them ahead.  They share no state, and a     *)
(* behavior is one of the three.                                           *)
(***************************************************************************)
EXTENDS MC_SongExecutionEngine, PlaylistRotation, RadioRundown

VARIABLE part     \* the one of the three that runs

Leaf(id, ms, fav) == [id |-> id, ms |-> ms, fav |-> fav]
Playlist(list, loop) ==
    [mode |-> "autoplay", items |-> list, active |-> list[1].id, loop |-> loop, startedAt |-> 0]

Starred   == Playlist(<<Leaf("a", 0, FALSE), Leaf("f", 0, TRUE), Leaf("b", 0, FALSE), Leaf("g", 0, TRUE)>>, TRUE)
Restarred == Playlist(<<Leaf("b", 0, TRUE), Leaf("a", 0, FALSE), Leaf("g", 0, TRUE), Leaf("f", 0, FALSE)>>, TRUE)
Timed     == Playlist(<<Leaf("a", 2, FALSE), Leaf("f", 1, TRUE), Leaf("b", 1, FALSE)>>, TRUE)
Nested    == Playlist(<<Leaf("a", 0, FALSE),
                        [id |-> "n", seq |-> Playlist(<<Leaf("f", 0, TRUE), Leaf("b", 0, FALSE)>>, FALSE)],
                        Leaf("c", 0, FALSE)>>, TRUE)
Finite    == Playlist(<<Leaf("a", 0, FALSE), Leaf("b", 0, FALSE), Leaf("f", 0, TRUE)>>, FALSE)
Sparse    == Playlist(<<Leaf("a", 0, FALSE), Leaf("f", 0, TRUE)>>, TRUE)

SomePlaylists == {Starred, Restarred}
SomeCatalogue == {Leaf("x", 0, FALSE)}

Spending(f) == [k \in RotationKinds |-> IF k \in DOMAIN f THEN f[k] ELSE 0]
Station(playlist, f) == [playlist |-> playlist, budget |-> Spending(f)]

NoStation == Station(Sparse, [song |-> 0])

SomeStations == {NoStation,
    Station(Starred,   [song |-> 4, tick |-> 3, enqueue |-> 1, restart |-> 1]),
    Station(Starred,   [song |-> 4, tick |-> 4, fault |-> 1, restart |-> 1]),
    Station(Starred,   [song |-> 4, tick |-> 6, deaf |-> 1]),
    Station(Starred,   [song |-> 4, tick |-> 2, enqueue |-> 1, edit |-> 1]),
    Station(Starred,   [song |-> 4, tick |-> 2, enqueue |-> 1, fault |-> 1, restart |-> 1]),
    Station(Timed,     [song |-> 5, tick |-> 4, enqueue |-> 1]),
    Station(Timed,     [song |-> 4, tick |-> 3, similar |-> 2, refuse |-> 1]),
    Station(Nested,    [song |-> 5, tick |-> 2, enqueue |-> 1, restart |-> 1]),
    Station(Nested,    [song |-> 4, tick |-> 3, similar |-> 1, refuse |-> 1, deaf |-> 1]),
    Station(Sparse,    [song |-> 4, tick |-> 3, fault |-> 1]),
    Station(Finite,    [song |-> 5, tick |-> 3, enqueue |-> 2])}

\* Six songs of three artists, the first without a duration.
SomeArtists == <<"x", "x", "y", "y", "z", "x">>
SomeLengths == <<0, 2, 1, 3, 2, 1>>

SongCue(s, fixed)  == [kind |-> "song", song |-> s, ms |-> SomeLengths[s], fixed |-> fixed]
Clip(ms, fixed) == [kind |-> "clip", song |-> Unset, ms |-> ms, fixed |-> fixed]
Stop(fixed)     == [kind |-> "stop", song |-> Unset, ms |-> 0, fixed |-> fixed]

SomeContent ==
    {<<first, Clip(1, Unset), SongCue(4, at), Stop(at + after_)>> :
        first \in {SongCue(2, 0), Clip(1, 0), Stop(0)}, at \in {2, 3, 5, 7}, after_ \in {3, 4}}
    \cup {<<SongCue(5, 0), last, SongCue(3, 6), SongCue(2, Unset)>> :
        last \in {Stop(Unset), Clip(1, 2), Clip(2, 4), SongCue(2, 3), SongCue(1, 3)}}

Fill(content, rest, tagged, previous) ==
    [kind |-> "fill", rest |-> rest, previous |-> previous, content |-> content,
     tagged |-> tagged, slots |-> <<>>]
Generate(slots, rest, previous) ==
    [kind |-> "generate", rest |-> rest, previous |-> previous, content |-> <<>>,
     tagged |-> {}, slots |-> slots]

NoJob == Fill(<<>>, 0, {}, <<>>)
SomeSlot(pool, count, fixed) ==
    [pool |-> pool, position |-> [s \in 1..6 |-> (s * 5) % 7], count |-> count, fixed |-> fixed]

SomeJobs == {NoJob}
    \cup {Fill(content, rest, tagged, previous) :
            content \in SomeContent, rest \in 0..2, tagged \in {{2, 3, 5, 6}, 1..6},
            previous \in {<<>>, <<3, 5, 3>>}}
    \cup {Generate(<<SomeSlot(pool, 2, 0), SomeSlot(1..6, count, fixed)>>, rest, previous) :
            pool \in {{2, 3, 5}, {1, 2, 6}}, count \in 1..3, fixed \in {Unset, 4},
            rest \in 0..2, previous \in {<<>>, <<2, 3>>}}

AutomationInit ==
    /\ Init /\ RotationInit /\ RundownInit
    /\ part \in {"engine", "rotation", "rundown"}
    /\ part = "rotation" <=> rotationBudget # NoStation.budget
    /\ part = "rundown" <=> job # NoJob

AutomationNext ==
    /\ UNCHANGED part
    /\ \/ part = "engine" /\ Next /\ UNCHANGED <<rotationVars, rundownVars>>
       \/ part = "rotation" /\ RotationNext /\ UNCHANGED <<vars, rundownVars>>
       \/ part = "rundown" /\ RundownNext /\ UNCHANGED <<vars, rotationVars>>

AutomationSpec == AutomationInit /\ [][AutomationNext]_<<part, vars, rotationVars, rundownVars>>

\* Type correctness of the rotation and of the log, each in its own module.
ChoicesTypeOK == RotationTypeOK /\ RundownTypeOK
================================================================================
