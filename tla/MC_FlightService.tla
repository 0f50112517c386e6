---------------------------- MODULE MC_FlightService ----------------------------
(***************************************************************************)
(* Instances of FlightService for TLC.                                     *)
(***************************************************************************)
EXTENDS FlightService

CONSTANTS L1, L2, a, b, x

Song(id, at)   == [id |-> id, kind |-> "song", at |-> at, ms |-> 0]
Clip(id, at)   == [id |-> id, kind |-> "clip", at |-> at, ms |-> 1]
Plain(id, kind) == [id |-> id, kind |-> kind, at |-> Unset, ms |-> 1]

Log(items, sched, published) ==
    [NoSnap EXCEPT !.exists = TRUE, !.items = items, !.sched = sched, !.published = published,
                   !.rev = 1]
NoLog == NoSnap
Two(p, q) == [l \in Logs |-> IF l = L1 THEN p ELSE q]

\* A published log: a song at the start, then another.
Songs == Log(<<Song(a, 0), Song(b, Unset)>>, 1, TRUE)
FixedSongs == Log(<<Song(a, 0), Song(b, 1)>>, 1, TRUE)
Held == Log(<<Clip(a, 0), Song(b, 2)>>, 0, TRUE)
FixedClip == Log(<<Song(a, 0), Clip(b, 1), Song(x, Unset)>>, 1, TRUE)
Clips == Log(<<Clip(a, 0), Song(b, Unset), Plain(x, "stop")>>, 1, TRUE)

Allow(f) == [k \in Steps |-> IF k \in DOMAIN f THEN f[k] ELSE 0]
Setup(ls, p, auto, f) == [logs |-> ls, pointer |-> p, auto |-> auto, budget |-> Allow(f)]

\* Blocks that the scheduler runs by itself, over failures and a restart.
F1 == [rotation |-> 2, song |-> 9, fail |-> 1, crash |-> 1]
F2 == [rotation |-> 1, song |-> 9, fail |-> 1, disable |-> 1]
MCBlocks == {Setup([l \in Logs |-> log], None, TRUE, f) :
                log \in {Songs, FixedSongs, Clips, FixedClip, Held}, f \in {F1, F2}}
MCNoEdits == {}

\* Requests and saves of operators: a sequence of their own beside a clocked log, a
\* save beside one request, a restart, and a loop beside a log to publish.
Sequence(items, loop) == [Log(items, Unclocked, FALSE) EXCEPT !.loop = loop]
Cued == Sequence(<<Song(a, Unset), Plain(x, "songEnd"), Song(b, Unset)>>, FALSE)
Jingles == Sequence(<<Plain(a, "wait"), Plain(b, "stop"), Plain(x, "plain")>>, TRUE)
Draft == [Songs EXCEPT !.published = FALSE, !.sched = 2]
MCOperators ==
    {Setup(Two(Cued, Songs), L1, TRUE, [operate |-> 1, song |-> 1]),
     Setup(Two(Songs, NoLog), L1, TRUE, [operate |-> 1, edit |-> 1]),
     Setup(Two(Songs, NoLog), L1, TRUE, [operate |-> 1, song |-> 2, crash |-> 1]),
     Setup(Two(Clips, NoLog), None, TRUE, [edit |-> 1, song |-> 1]),
     Setup(Two(Draft, Jingles), L2, TRUE, [operate |-> 2])}
MCEdits == {<<Song(a, 0)>>, <<Song(b, 0)>>,
            <<Clip(a, 0), Song(b, Unset), Song(x, 2)>>}

\* A log that was aired, and a sequence that an operator starts.
Aired == [Songs EXCEPT !.started = TRUE]
MCAired == {Setup(Two(Aired, Cued), L2, TRUE, [operate |-> 1, edit |-> 1])}
================================================================================
