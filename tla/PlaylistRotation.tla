---------------------------- MODULE PlaylistRotation ----------------------------
(***************************************************************************)
(* Which song plays next: the playlist cursor, the High Rotation quota,    *)
(* the Play Next queue and the similarity picker of one automatic radio    *)
(* program, over time (song-execution.engine.ts, song-rotation.utils.ts).  *)
(*                                                                         *)
(* SongExecutionEngine models the races of commands, telemetry and claims; *)
(* here a command is answered and its track starts and ends in order, and  *)
(* what is modelled is what those steps do to the playlist and to the      *)
(* favorites' history: in the engine's memory, in the row, and across      *)
(* failed writes, unheard starts and restarts.                             *)
(***************************************************************************)
EXTENDS PlaylistClock

CONSTANTS
    Playlists,       \* the sequences the program may be edited to
    Catalogue,       \* leaves the similarity picker takes from outside
    Interval,        \* HIGH_ROTATION_INTERVAL_MS
    MaxFavorites,    \* MAX_HIGH_ROTATION_SONGS
    Retention,       \* HIGH_ROTATION_HISTORY_RETENTION_MS
    Stations         \* the instances explored: a playlist and a budget for each

\* Bounds: songs commanded, ticks of the clock, and what else may happen.
RotationKinds == {"song", "tick", "enqueue", "edit", "similar", "refuse", "deaf", "fault", "restart"}

ASSUME RotationAssumption ==
    /\ {Interval, MaxFavorites, Retention} \subseteq Nat \ {0}
    /\ \A s \in Stations : s.budget \in [RotationKinds -> Nat]

VARIABLES
    seq,         \* SongEngineState.sequence
    row,         \* ProgramState.songSequence
    queue,       \* the Play Next queue, [entry, leaf], head first
    rotation,    \* SongEngineState.rotation.history
    saved,       \* ProgramState.songRotation
    writes,      \* writes of the history waiting for the rotation lock
    healthy,     \* rotationHistoryHealthy
    air,         \* the active song, or Nothing
    inherited,   \* what the appliance plays for an engine that restarted
    after,       \* what continueAfterAuthoritativeEnd carries over the bumper
    now,
    requests,    \* playback requests made so far
    rotationBudget,
    \* history variables
    aired,       \* the plays of favorites that really started
    forgotten,   \* requests among them whose record was lost
    place        \* where the playlist stands, or Null when nothing tells

stationVars == <<seq, row, queue, rotation, saved, writes, healthy, air, inherited, after>>
rotationVars == <<stationVars, now, requests, rotationBudget, aired, forgotten, place>>

Nothing == [request |-> 0]
Play == [song : STRING, at : Nat, request : Nat]
Sources == {"queue", "quota", "cursor", "similar", "catalogue", "adopted"}

SpentAll(kinds) ==
    /\ \A kind \in kinds : rotationBudget[kind] > 0
    /\ rotationBudget' = [k \in RotationKinds |-> rotationBudget[k] - (IF k \in kinds THEN 1 ELSE 0)]

Spent(kind) == SpentAll({kind})

Unspent == UNCHANGED rotationBudget

--------------------------------------------------------------------------------
(* High Rotation                                                           *)

\* collectHighRotationProgramSongLeaves
Favorites(s) == SelectSeq(Leaves(s), LAMBDA leaf : leaf.fav)
FavoriteIds(s) == {Favorites(s)[i].id : i \in DOMAIN Favorites(s)}

\* normalizeProgramSongRotation: what is older than a day is dropped.
Retained(history) == {p \in history : p.at >= now - Retention}

\* Mutant of Recorded: only automatic plays count.
RecordedIfAutomatic(history, song) ==
    Retained(history) \cup
        (IF song.leaf.fav /\ song.by = "quota"
         THEN {[song |-> song.leaf.id, at |-> song.at, request |-> song.request]} ELSE {})

\* recordHighRotationPlay: a favorite's start is kept once per request.
Recorded(history, song) ==
    IF ~song.leaf.fav \/ song.by = "catalogue" THEN history
    ELSE IF \E p \in Retained(history) : p.request = song.request THEN Retained(history)
    ELSE Retained(Retained(history) \cup
             {[song |-> song.leaf.id, at |-> song.at, request |-> song.request]})

\* highRotationRepeatIntervalMs: one opportunity for each favorite.
RepeatInterval(s) ==
    LET n == Len(Favorites(s)) IN Interval * (IF n > MaxFavorites THEN MaxFavorites ELSE n)

PlaysOf(id) == {p \in rotation : p.song = id}
LastPlay(id) == IF PlaysOf(id) = {} THEN -1
                ELSE CHOOSE t \in {p.at : p \in PlaysOf(id)} : \A p \in PlaysOf(id) : p.at <= t

\* selectHighRotationCandidate: when no favorite played within the interval, the
\* least recently played one that has rested, the first of equals.
QuotaPick(s) ==
    LET favorites == Favorites(s)
        due       == \A id \in FavoriteIds(s) : \A p \in PlaysOf(id) : now - p.at >= Interval
        eligible  == {i \in DOMAIN favorites :
                        \A p \in PlaysOf(favorites[i].id) : now - p.at >= RepeatInterval(s)}
        Before(i, j) == \/ LastPlay(favorites[i].id) < LastPlay(favorites[j].id)
                        \/ LastPlay(favorites[i].id) = LastPlay(favorites[j].id) /\ i <= j
    IN  IF ~due \/ eligible = {} THEN Null
        ELSE favorites[CHOOSE i \in eligible : \A j \in eligible : Before(i, j)]

--------------------------------------------------------------------------------
(* The next playlist song                                                  *)

\* resolveCursorPlaylistSong: favorites are passed over, one song an attempt.
RECURSIVE PassFavorites(_, _)
PassFavorites(s, attempts) ==
    LET leaf == Resolve(s, now)
        past == Advance(s, leaf.id, now)
    IN  IF attempts = 0 \/ leaf = Null THEN [leaf |-> Null, by |-> "cursor", seq |-> s]
        ELSE IF ~leaf.fav THEN [leaf |-> leaf, by |-> "cursor", seq |-> s]
        ELSE IF past.more THEN PassFavorites(past.seq, attempts - 1)
        ELSE [leaf |-> Null, by |-> "cursor", seq |-> past.seq]

\* Mutant of CursorPick: one attempt short.
CursorPickShort(s) == PassFavorites(s, Len(Leaves(s)) - 1)

CursorPick(s) == PassFavorites(s, Len(Leaves(s)))

\* activateProgramSongLeaf for a song picked past the cursor.
Activated(s, leaf, by) == [leaf |-> leaf, by |-> by, seq |-> Activate(s, leaf.id, now)]

\* resolveWithSimilarity, mode "on": any leaf that is not a favorite, moving the
\* cursor to it, or a catalogue song, which leaves the cursor alone.
SimilarPicks(s) ==
    {Activated(s, Leaves(s)[i], "similar") : i \in {j \in DOMAIN Leaves(s) : ~Leaves(s)[j].fav}}
    \cup {[leaf |-> leaf, by |-> "catalogue", seq |-> s] : leaf \in Catalogue}

\* resolveNextPlaylistSong: the quota while the history is healthy, else the
\* picker when it is on, else the cursor.
NextPicks(s) ==
    IF healthy /\ QuotaPick(s) # Null THEN {Activated(s, QuotaPick(s), "quota")}
    ELSE {CursorPick(s)} \cup (IF rotationBudget["similar"] > 0 THEN SimilarPicks(s) ELSE {})

SpentOn(pick) ==
    SpentAll((IF pick.by \in {"similar", "catalogue"} THEN {"similar"} ELSE {})
             \cup (IF pick.leaf = Null THEN {} ELSE {"song"}))

--------------------------------------------------------------------------------
(* Where the playlist stands, for the properties                           *)

At(leaf, since) ==
    [leaf |-> leaf.id, ended |-> FALSE, apart |-> FALSE, kept |-> FALSE, since |-> since]

\* The playlist leaf a pick puts the playlist at; a catalogue song does not.
PlaceOf(pick) ==
    IF pick.by = "catalogue" THEN place
    ELSE IF pick.by = "cursor" /\ place # Null /\ place.leaf = pick.leaf.id /\ ~place.ended
         THEN place
    ELSE At(pick.leaf, IF pick.by = "cursor" /\ place # Null THEN place.since ELSE pick.seq.startedAt)

\* An edit or a restart may leave an outer cursor apart from the song playing.
IsFlat(s) == \A i \in DOMAIN s.items : ~IsNested(s.items[i])

KeptPlace == IF place = Null THEN Null ELSE [place EXCEPT !.kept = TRUE]

--------------------------------------------------------------------------------
RotationInit ==
    /\ \E s \in Stations : seq = s.playlist /\ rotationBudget = s.budget
    /\ row = seq
    /\ queue = <<>>
    /\ rotation = {} /\ saved = {} /\ writes = 0 /\ healthy = TRUE
    /\ air = Nothing /\ inherited = Nothing /\ after = Nothing
    /\ now = 0
    /\ requests = 0
    /\ aired = {} /\ forgotten = {} /\ place = Null

\* The active song as playNext sets it; entry 0 is a song not from the queue.
Commanded(leaf, by, entry) ==
    /\ requests' = requests + 1
    /\ air' = [leaf |-> leaf, by |-> by, entry |-> entry,
               request |-> requests + 1, at |-> now, begun |-> FALSE]

\* playNext with a queued song: the playlist is not consulted.
PlayHead == Spent("song") /\ Commanded(Head(queue).leaf, "queue", Head(queue).entry)

\* playNext without one.  A pick that finds nothing still moves the cursor.
PlayPick(pick) ==
    /\ seq' = pick.seq
    /\ SpentOn(pick)
    /\ IF pick.leaf = Null THEN place' = Null /\ UNCHANGED <<air, requests>>
       ELSE place' = PlaceOf(pick) /\ Commanded(pick.leaf, pick.by, 0)

\* maybeStartSequence, from an idle snapshot or an edit, with nothing on air.
Start ==
    /\ air = Nothing /\ inherited = Nothing /\ after = Nothing
    /\ \/ queue # <<>> /\ PlayHead /\ UNCHANGED <<seq, place>>
       \/ queue = <<>> /\ \E pick \in NextPicks(seq) : PlayPick(pick)
    /\ UNCHANGED <<row, queue, rotation, saved, writes, healthy, inherited, after,
                   now, aired, forgotten>>

\* handleCommandFailure: the cursor and a queued song keep their place.
CommandRefused ==
    /\ air # Nothing /\ ~air.begun
    /\ Spent("refuse")
    /\ air' = Nothing
    /\ place' = IF place # Null /\ place.apart THEN Null ELSE place
    /\ UNCHANGED <<seq, row, queue, rotation, saved, writes, healthy, inherited, after,
                   now, requests, aired, forgotten>>

\* recordHighRotationStarted: in memory at once, in the row by a later write.
Record(song) ==
    /\ rotation' = Recorded(rotation, song)
    /\ writes' = IF song.leaf.fav /\ song.by # "catalogue"
                    /\ \A p \in Retained(rotation) : p.request # song.request
                 THEN writes + 1 ELSE writes

Airs(song) ==
    aired' = IF song.leaf.fav THEN aired \cup {[song |-> song.leaf.id, at |-> song.at, request |-> song.request]}
             ELSE aired

\* track.started of the active song.
TrackStarts ==
    /\ air # Nothing /\ ~air.begun
    /\ air' = [air EXCEPT !.begun = TRUE, !.at = now]
    /\ Record(air')
    /\ Airs(air')
    /\ Unspent
    /\ UNCHANGED <<seq, row, queue, saved, healthy, inherited, after, now, requests,
                   forgotten, place>>

\* The same start, whose event is lost with a connection.  The snapshot after it
\* finds the request active and records nothing.
TrackStartsUnheard ==
    /\ air # Nothing /\ ~air.begun
    /\ Spent("deaf")
    /\ air' = [air EXCEPT !.begun = TRUE, !.at = now]
    /\ Airs(air')
    /\ forgotten' = forgotten \cup {air.request}
    /\ UNCHANGED <<seq, row, queue, rotation, saved, writes, healthy, inherited, after,
                   now, requests, place>>

\* The write under withRotationMutationLock saves the history of its moment.
WriteRotation ==
    /\ writes > 0
    /\ writes' = writes - 1
    /\ \/ saved' = rotation /\ healthy' = TRUE /\ Unspent
       \/ Spent("fault") /\ healthy' = FALSE /\ UNCHANGED saved
    /\ UNCHANGED <<seq, row, queue, rotation, air, inherited, after, now, requests,
                   aired, forgotten, place>>

\* handleAuthoritativeTrackEnded: only a song of the playlist moved the cursor.
CursorAfter(song) ==
    IF song.by \in {"queue", "catalogue"} THEN [more |-> Resolve(seq, now) # Null, seq |-> seq]
    ELSE Advance(seq, song.leaf.id, now)

\* The end of the active song and continueAfterAuthoritativeEnd up to the
\* bumper: its entry leaves the queue, or the cursor moves and is persisted
\* before a queued song.
SongOver ==
    LET queued == air.by = "queue"
        next   == CursorAfter(air)
        saves  == ~queued /\ queue # <<>>
    IN  /\ air # Nothing /\ air.begun
        /\ seq' = next.seq
        /\ row' = IF saves THEN next.seq ELSE row
        /\ queue' = SelectSeq(queue, LAMBDA q : q.entry # air.entry)
        /\ air' = Nothing
        /\ after' = [request |-> air.request, seq |-> next.seq, more |-> next.more,
                     queued |-> queued, saved |-> saves]
        /\ place' = IF air.by \in {"queue", "catalogue"} THEN IF saves THEN KeptPlace ELSE place
                    ELSE IF place = Null THEN Null
                    ELSE IF place.leaf \in LeafIds(seq) /\ (place.apart => IsFlat(seq))
                         THEN [place EXCEPT !.ended = TRUE, !.apart = FALSE, !.since = now, !.kept = saves]
                         ELSE Null
        /\ Unspent
        /\ UNCHANGED <<rotation, saved, writes, healthy, inherited, now, requests, aired, forgotten>>

\* Mutant of BeforeQueued: the cursor is left in memory.
BeforeQueuedUnsaved == UNCHANGED <<seq, row>>

\* persistPlaylistCursorForQueue for a song queued while the bumper played; the
\* cursor written is the one of the end, over any edit since.
BeforeQueued ==
    IF after.queued \/ after.saved THEN UNCHANGED <<seq, row>>
    ELSE seq' = after.seq /\ row' = after.seq

\* continueAfterAuthoritativeEnd after the bumper: the queue first, then the
\* playlist when it has a successor, else silence.
Continue ==
    /\ after # Nothing /\ air = Nothing
    /\ after' = Nothing
    /\ \/ /\ queue # <<>> /\ BeforeQueued /\ PlayHead
          /\ place' = IF after.queued THEN place ELSE KeptPlace
       \/ queue = <<>> /\ after.more /\ UNCHANGED row /\ \E pick \in NextPicks(seq) : PlayPick(pick)
       \/ queue = <<>> /\ ~after.more /\ Unspent /\ UNCHANGED <<seq, row, air, requests, place>>
    /\ UNCHANGED <<queue, rotation, saved, writes, healthy, inherited, now, aired, forgotten>>

\* enqueueSong for any leaf of the playlist; the budget left numbers the entry.
EnqueueSong ==
    /\ Spent("enqueue")
    /\ \E i \in DOMAIN Leaves(row) :
        queue' = Append(queue, [entry |-> rotationBudget["enqueue"], leaf |-> Leaves(row)[i]])
    /\ UNCHANGED <<seq, row, rotation, saved, writes, healthy, air, inherited, after,
                   now, requests, aired, forgotten, place>>

\* updateProgramAudioBus and handleSequenceUpdated: the console sends the whole
\* playlist with a cursor of its own; a song on air keeps the clock running.
Edit ==
    /\ Spent("edit")
    /\ \E p \in Playlists : \E i \in DOMAIN p.items :
        LET sent == CursorAt(p, i, now)
        IN  /\ Leaves(p) # Leaves(seq)
            /\ row' = sent
            /\ seq' = IF air # Nothing THEN [sent EXCEPT !.startedAt = seq.startedAt] ELSE sent
            /\ queue' = SelectSeq(queue, LAMBDA q : q.leaf.id \in LeafIds(p))
    /\ place' = IF air # Nothing /\ place # Null /\ air.by \notin {"queue", "catalogue"}
                THEN [place EXCEPT !.apart = TRUE, !.kept = FALSE] ELSE Null
    /\ UNCHANGED <<rotation, saved, writes, healthy, air, inherited, after, now, requests,
                   aired, forgotten>>

\* Mutant of OnAir: a song that was only commanded.
OnAirAnyway == IF air # Nothing THEN air ELSE inherited

\* What the appliance plays whether or not the backend is there.
OnAir == IF air # Nothing /\ air.begun THEN air ELSE inherited

\* onModuleInit from the row.  What the appliance plays goes on.
StartUp ==
    LET playing == OnAir
        dropped == {p.request : p \in rotation \ saved} \ {playing.request}
    IN  /\ Spent("restart")
        /\ seq' = [row EXCEPT !.startedAt = now]
        /\ rotation' = Retained(saved)
        /\ writes' = 0
        /\ healthy' = TRUE
        /\ air' = Nothing
        /\ after' = Nothing
        /\ inherited' = playing
        /\ forgotten' = forgotten \cup dropped
        /\ place' = IF place # Null /\ place.kept THEN [place EXCEPT !.since = now] ELSE Null
        /\ UNCHANGED <<row, queue, saved, now, requests, aired>>

\* reconcilePlayingSnapshot after a restart: a song of the playlist is taken
\* over, as the queue's head when it was, and recorded from its real start.
Adopt ==
    /\ inherited # Nothing
    /\ inherited.leaf.id \in LeafIds(seq)
    /\ air' = IF inherited.by = "queue" THEN inherited ELSE [inherited EXCEPT !.by = "adopted"]
    /\ inherited' = Nothing
    /\ Record(air')
    /\ place' = IF inherited.by = "queue" THEN place ELSE [At(inherited.leaf, seq.startedAt) EXCEPT !.apart = TRUE]
    /\ Unspent
    /\ UNCHANGED <<seq, row, queue, saved, healthy, after, now, requests, aired, forgotten>>

\* Or it ends before any snapshot shows it.
InheritedEnds ==
    /\ inherited # Nothing
    /\ inherited' = Nothing
    /\ forgotten' = IF \E p \in rotation : p.request = inherited.request THEN forgotten
                    ELSE forgotten \cup {inherited.request}
    /\ Unspent
    /\ UNCHANGED <<seq, row, queue, rotation, saved, writes, healthy, air, after, now,
                   requests, aired, place>>

Tick ==
    /\ Spent("tick")
    /\ now' = now + 1
    /\ UNCHANGED <<stationVars, requests, aired, forgotten, place>>

RotationNext ==
    \/ Start \/ CommandRefused \/ TrackStarts \/ TrackStartsUnheard \/ WriteRotation
    \/ SongOver \/ Continue \/ EnqueueSong \/ Edit \/ StartUp \/ Adopt \/ InheritedEnds \/ Tick

--------------------------------------------------------------------------------
(* Properties                                                              *)

\* Type correctness of the station, its history and its budget.
RotationTypeOK ==
    /\ seq.items # <<>> /\ row.items # <<>>
    /\ rotation \subseteq Play /\ saved \subseteq Play /\ aired \subseteq Play
    /\ writes \in 0..requests /\ healthy \in BOOLEAN
    /\ air # Nothing => air.by \in Sources /\ air.request \in 1..requests
    /\ inherited # Nothing => inherited.begun /\ air = Nothing
    /\ after # Nothing => air = Nothing /\ inherited = Nothing
    /\ now \in Nat /\ requests \in Nat
    /\ rotationBudget \in [RotationKinds -> Nat]
    /\ forgotten \subseteq 1..requests

\* The leaf the playlist owes next: the first that is not a favorite from the
\* place on, or after it once it ended, around a loop; Null past the end.
Owed(s) ==
    LET leaves == Leaves(s)
        n      == Len(leaves)
        here   == CHOOSE i \in 1..n : leaves[i].id = place.leaf
        first  == IF place.ended THEN here + 1 ELSE here
        order  == [k \in 1..(IF s.loop THEN n ELSE n - first + 1) |->
                      leaves[((first + k - 2) % n) + 1]]
        plain  == {k \in DOMAIN order : ~order[k].fav}
    IN  IF plain = {} THEN Null ELSE order[CHOOSE k \in plain : \A j \in plain : k <= j]

\* The item the cursor stands on has a declared duration, and that long has
\* passed since the cursor was set.
Overdue(s) ==
    LET leaves == Leaves(s)
        n      == Len(leaves)
        here   == CHOOSE i \in 1..n : leaves[i].id = place.leaf
        item   == leaves[IF place.ended THEN (here % n) + 1 ELSE here]
    IN  item.ms > 0 /\ now - place.since >= item.ms

\* README.md:150-158: the cursor plays the playlist in order, around favorites,
\* queued and catalogue songs, refused commands, edits, and restarts with a song
\* of the playlist or a queued one on air, unless the clock has passed the
\* pending song (resolveCursorPlaylistSong, handleAuthoritativeTrackEnded).
FollowsThePlaylist ==
    [][ (/\ air = Nothing /\ air' # Nothing
         /\ air'.by = "cursor"
         /\ place # Null /\ place.leaf \in LeafIds(seq) /\ ~Overdue(seq))
            => air'.leaf = Owed(seq) ]_rotationVars

Newest(plays) == CHOOSE p \in plays : \A q \in plays : q.request <= p.request

\* README.md:160-167: the quota takes an opportunity only when no favorite has
\* aired within the interval, and repeats one only after every other favorite
\* has had its turn, across restarts, failed writes and queued plays; a play
\* whose record was lost does not count, nor one older than the retention.
QuotaIsKept ==
    [][ (air = Nothing /\ air' # Nothing /\ air'.by = "quota") =>
        LET favorites == FavoriteIds(seq)
            known     == {p \in aired : p.song \in favorites /\ p.request \notin forgotten
                                        /\ now - p.at <= Retention}
            mine      == {p \in aired : p.song = air'.leaf.id}
        IN  /\ \A p \in known : now - p.at >= Interval
            /\ (mine # {} /\ Newest(mine) \in known) =>
                   \A g \in favorites \ {air'.leaf.id} :
                       \E p \in aired : p.song = g /\ p.at >= Newest(mine).at ]_rotationVars

\* A looped playlist with a song that is not a favorite always has a next one:
\* the automation does not fall silent (resolveCursorPlaylistSong, 1497).
AlwaysPlayable ==
    (seq.loop /\ \E i \in DOMAIN Leaves(seq) : ~Leaves(seq)[i].fav) => CursorPick(seq).leaf # Null
================================================================================
