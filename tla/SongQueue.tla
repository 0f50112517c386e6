------------------------------- MODULE SongQueue -------------------------------
(***************************************************************************)
(* The Play Next queue of one program: the rows of ProgramState.songQueue  *)
(* and the pure operations the engine applies to them                      *)
(* (backend/src/radio/song-queue.utils.ts, song-execution.engine.ts).      *)
(*                                                                         *)
(* An entry is [id, item, claim].  claim = 0 stands for an entry without   *)
(* the `active` marker; claim > 0 is the playbackRequestId stored beside   *)
(* active: true.  enqueuedAt is left out: nothing reads it after           *)
(* validation.  Rows are the ones this program wrote, so the branches of   *)
(* the normalizer that drop malformed or repeated rows have no input.      *)
(***************************************************************************)
EXTENDS SongSequence

CONSTANTS Entries,          \* queue entry IDs (randomUUID)
          MaxQueueLength    \* MAX_PROGRAM_SONG_QUEUE_LENGTH

ASSUME QueueAssumption == /\ None \notin Entries
                          /\ MaxQueueLength \in Nat \ {0}

Entry == [id : Entries, item : Items, claim : Nat]
Queue == Seq(Entry)

\* The positions holding entry e, and the entry IDs present in q.
PositionsOf(q, e) == {i \in 1..Len(q) : q[i].id = e}
IdsIn(q) == {q[i].id : i \in 1..Len(q)}

\* normalizeProgramSongQueue: only the head may carry the active marker.
NormalizeQueue(q) ==
    [i \in 1..Len(q) |-> IF i = 1 THEN q[i] ELSE [q[i] EXCEPT !.claim = 0]]

\* enqueueSong appends an unclaimed entry.
Enqueued(q, e, item) == Append(q, [id |-> e, item |-> item, claim |-> 0])

\* Mutant of Without: the removed entry is kept.
WithoutOffByOne(q, e) ==
    IF PositionsOf(q, e) = {} THEN q
    ELSE LET i == CHOOSE j \in PositionsOf(q, e) : TRUE
         IN  SubSeq(q, 1, i - 1) \o SubSeq(q, i, Len(q))

\* queue.filter((entry) => entry.id !== e): IDs are unique.
Without(q, e) ==
    IF PositionsOf(q, e) = {} THEN q
    ELSE LET i == CHOOSE j \in PositionsOf(q, e) : TRUE
         IN  SubSeq(q, 1, i - 1) \o SubSeq(q, i + 1, Len(q))

\* The head marked active with the request that is about to be commanded.
HeadClaimed(q, req) == [q EXCEPT ![1].claim = req]

\* Mutant of Released: the entry is consumed.
ReleasedAway(q, e) == Without(q, e)

\* The active marker of entry e dropped, its place in the queue kept.
Released(q, e) ==
    [i \in 1..Len(q) |-> IF q[i].id = e THEN [q[i] EXCEPT !.claim = 0] ELSE q[i]]

\* filterProgramSongQueueForSequence: entries whose item the playlist still has.
\* Stated as membership so that the result is visibly made of entries of q.
FilterForSequence(q, items) ==
    {r \in UNION {[1..n -> {q[i] : i \in 1..Len(q)}] : n \in 0..Len(q)} :
        r = SelectSeq(q, LAMBDA entry : entry.item \in items)}

\* The reorderings reorderSongQueue accepts: every entry exactly once, and the
\* playing entry (None when there is none) first.
Reorderings(q, playing) ==
    {r \in [1..Len(q) -> {q[i] : i \in 1..Len(q)}] :
        /\ IdsIn(r) = IdsIn(q)
        /\ playing = None \/ (q # <<>> /\ r[1].id = playing)}
================================================================================
