---------------------- MODULE SongExecutionEngineProofs ----------------------
(***************************************************************************)
(* Theorems about SongExecutionEngine for every playlist, set of entries,  *)
(* queue limit, set of edits and budget: its types, the persistence of     *)
(* every claim before its command, the silence of a frozen engine, and     *)
(* what holds of the Play Next queue while operators use nothing else and, *)
(* when commands are answered too, of the songs Palazzo is told to play.   *)
(***************************************************************************)
EXTENDS SongExecutionEngine, SequenceTheorems, FiniteSetTheorems, TLAPS

\* The queue entries whose claim, if they carry one, is among the claims cl.
\* A queue of persisted claims is a sequence of these, so what an operation does
\* to the claims of a queue is a matter of its type.
Backed(cl) == {e \in Entry : e.claim # 0 => <<e.id, e.claim>> \in cl}

\* A function on 1..n is a sequence.
LEMMA FunctionIsSeq ==
    ASSUME NEW S, NEW n \in Nat, NEW f \in [1..n -> S]
    PROVE  f \in Seq(S) /\ Len(f) = n
  <1>1. f \in Seq(S)
    BY SeqDef, Zenon
  <1> QED BY <1>1

--------------------------------------------------------------------------------
\* The playlist

\* A playlist item or none is all the cursor can move to.
LEMMA FirstItemType ==
    ASSUME NEW seq \in Sequence
    PROVE  FirstItem(seq) \in Items \cup {None}
  BY DEF FirstItem, Sequence

\* normalizeProgramSongSequence returns a playlist.
LEMMA NormalizeSequenceType ==
    ASSUME NEW seq \in Sequence
    PROVE  NormalizeSequence(seq) \in Sequence
  BY FirstItemType DEF NormalizeSequence, Sequence

\* advanceProgramSongSequence returns a playlist.
LEMMA AdvanceSequenceType ==
    ASSUME NEW seq \in Sequence, NEW ended
    PROVE  AdvanceSequence(seq, ended) \in Sequence
  <1> DEFINE from == IF ended \in ItemsOf(seq) THEN ended ELSE seq.cursor
             at   == {i \in 1..Len(seq.items) : seq.items[i] = from}
             succ == IF at # {} THEN SuccessorAt(seq, CHOOSE i \in at : TRUE)
                     ELSE IF Loop THEN FirstItem(seq) ELSE None
  <1>1. ASSUME NEW i \in 1..Len(seq.items)
        PROVE  SuccessorAt(seq, i) \in Items \cup {None}
    BY FirstItemType DEF SuccessorAt, Sequence
  <1>2. at # {} => (CHOOSE i \in at : TRUE) \in 1..Len(seq.items)
    OBVIOUS
  <1>3. succ \in Items \cup {None}
    BY <1>1, <1>2, FirstItemType
  <1>4. AdvanceSequence(seq, ended) = [seq EXCEPT !.cursor = succ]
    BY DEF AdvanceSequence
  <1> QED BY <1>3, <1>4 DEF Sequence

\* What the cursor or a lookup selects is an item or nothing.
LEMMA LeafType ==
    ASSUME NEW seq \in Sequence, NEW item
    PROVE  /\ ResolveLeaf(seq) \in Items \cup {None}
           /\ FindLeaf(seq, item) \in Items \cup {None}
  BY NormalizeSequenceType DEF ResolveLeaf, FindLeaf, ItemsOf, Sequence

--------------------------------------------------------------------------------
\* The queue

\* More claims back more entries.
LEMMA BackedGrows ==
    ASSUME NEW cl, NEW more, NEW q \in Seq(Backed(cl))
    PROVE  q \in Seq(Backed(cl \cup more))
  <1>1. Backed(cl) \subseteq Backed(cl \cup more)
    BY DEF Backed
  <1> QED BY <1>1, SeqMonotonic

\* A queue of backed entries is a queue.
LEMMA BackedIsQueue ==
    ASSUME NEW cl, NEW q \in Seq(Backed(cl))
    PROVE  q \in Queue
  <1>1. Backed(cl) \subseteq Entry
    BY DEF Backed
  <1> QED BY <1>1, SeqMonotonic DEF Queue

\* An entry without its claim needs no claim.
LEMMA UnclaimedBacked ==
    ASSUME NEW cl, NEW e \in Backed(cl)
    PROVE  [e EXCEPT !.claim = 0] \in Backed(cl)
  BY DEF Backed, Entry

\* normalizeProgramSongQueue drops claims and adds none.
LEMMA NormalizeQueueBacked ==
    ASSUME NEW cl, NEW q \in Seq(Backed(cl))
    PROVE  NormalizeQueue(q) \in Seq(Backed(cl))
  <1>1. Len(q) \in Nat /\ \A i \in 1..Len(q) : q[i] \in Backed(cl)
    BY ElementOfSeq, LenProperties
  <1>2. NormalizeQueue(q) \in [1..Len(q) -> Backed(cl)]
    BY <1>1, UnclaimedBacked DEF NormalizeQueue
  <1> QED BY <1>1, <1>2, FunctionIsSeq

\* enqueueSong appends an unclaimed entry.
LEMMA EnqueuedBacked ==
    ASSUME NEW cl, NEW q \in Seq(Backed(cl)), NEW e \in Entries, NEW item \in Items
    PROVE  Enqueued(q, e, item) \in Seq(Backed(cl))
  <1>1. [id |-> e, item |-> item, claim |-> 0] \in Backed(cl)
    BY DEF Backed, Entry
  <1> QED BY <1>1, AppendProperties DEF Enqueued

\* Removing an entry keeps the others.
LEMMA WithoutBacked ==
    ASSUME NEW cl, NEW q \in Seq(Backed(cl)), NEW e
    PROVE  Without(q, e) \in Seq(Backed(cl))
  <1>1. CASE PositionsOf(q, e) = {}
    BY <1>1 DEF Without
  <1>2. CASE PositionsOf(q, e) # {}
    <2> DEFINE i == CHOOSE j \in PositionsOf(q, e) : TRUE
    <2>1. i \in 1..Len(q) /\ Len(q) \in Nat
      BY <1>2, LenProperties DEF PositionsOf
    <2>2. \A k \in 1..Len(q) : q[k] \in Backed(cl)
      BY ElementOfSeq
    <2> HIDE DEF i
    <2>3. SubSeq(q, 1, i - 1) \in Seq(Backed(cl))
      BY <2>1, <2>2, SubSeqProperties
    <2>4. SubSeq(q, i + 1, Len(q)) \in Seq(Backed(cl))
      BY <2>1, <2>2, SubSeqProperties
    <2>5. Without(q, e) = SubSeq(q, 1, i - 1) \o SubSeq(q, i + 1, Len(q))
      BY <1>2 DEF Without, i
    <2> QED BY <2>3, <2>4, <2>5, ConcatProperties
  <1> QED BY <1>1, <1>2

\* Claiming the head adds exactly one claim.
LEMMA HeadClaimedBacked ==
    ASSUME NEW cl, NEW q \in Seq(Backed(cl)), q # <<>>, NEW req \in Nat
    PROVE  HeadClaimed(q, req) \in Seq(Backed(cl \cup {<<q[1].id, req>>}))
  <1> DEFINE more == cl \cup {<<q[1].id, req>>}
             head == [q[1] EXCEPT !.claim = req]
  <1>1. q \in Seq(Backed(more))
    BY BackedGrows
  <1>0. 1 \in 1..Len(q)
    BY EmptySeq
  <1>2. q[1] \in Entry
    BY <1>1, <1>0, ElementOfSeq DEF Backed
  <1>3. head \in Backed(more)
    BY <1>2 DEF Backed, Entry
  <1>4. HeadClaimed(q, req) = [q EXCEPT ![1] = head]
    BY DEF HeadClaimed
  <1> QED BY <1>1, <1>0, <1>3, <1>4, ExceptSeq

\* Releasing an entry drops its claim.
LEMMA ReleasedBacked ==
    ASSUME NEW cl, NEW q \in Seq(Backed(cl)), NEW e
    PROVE  Released(q, e) \in Seq(Backed(cl))
  <1>1. Len(q) \in Nat /\ \A i \in 1..Len(q) : q[i] \in Backed(cl)
    BY ElementOfSeq, LenProperties
  <1>2. Released(q, e) \in [1..Len(q) -> Backed(cl)]
    BY <1>1, UnclaimedBacked DEF Released
  <1> QED BY <1>1, <1>2, FunctionIsSeq

\* The filter and the reorderings are made of entries of the queue.
LEMMA RearrangedBacked ==
    ASSUME NEW cl, NEW q \in Seq(Backed(cl)), NEW n \in Nat,
           NEW r \in [1..n -> {q[i] : i \in 1..Len(q)}]
    PROVE  r \in Seq(Backed(cl))
  <1>1. r \in [1..n -> Backed(cl)]
    BY ElementOfSeq
  <1> QED BY <1>1, FunctionIsSeq

\* filterProgramSongQueueForSequence adds no claim.
LEMMA FilterBacked ==
    ASSUME NEW cl, NEW q \in Seq(Backed(cl)), NEW items,
           NEW r \in FilterForSequence(q, items)
    PROVE  r \in Seq(Backed(cl))
  <1>1. Len(q) \in Nat
    BY LenProperties
  <1>2. PICK n \in 0..Len(q) : r \in [1..n -> {q[i] : i \in 1..Len(q)}]
    BY Zenon DEF FilterForSequence
  <1> QED BY <1>1, <1>2, RearrangedBacked

\* reorderSongQueue adds no claim.
LEMMA ReorderingBacked ==
    ASSUME NEW cl, NEW q \in Seq(Backed(cl)), NEW playing,
           NEW r \in Reorderings(q, playing)
    PROVE  r \in Seq(Backed(cl))
  <1>1. r \in [1..Len(q) -> {q[i] : i \in 1..Len(q)}] /\ Len(q) \in Nat
    BY LenProperties DEF Reorderings
  <1> QED BY <1>1, RearrangedBacked

--------------------------------------------------------------------------------
\* The engine

\* The songs whose queue entry, if they have one, was claimed in cl for them.
Claimed(cl) == {song \in Song : song.entry # None => <<song.entry, song.req>> \in cl}

\* The engine states whose queue and whose active song rest on claims in cl.
Engine(cl) ==
    [seq : Sequence, queue : Seq(Backed(cl)), active : Claimed(cl), pending : SUBSET Nat,
     ended : Seq(Nat), frozen : BOOLEAN, reconciled : BOOLEAN, foreign : BOOLEAN,
     transitioning : BOOLEAN, blocked : BOOLEAN, status : Statuses, snapped : BOOLEAN,
     tasks : Seq(Task), bumpers : SUBSET Continuation, sends : SUBSET Send, issued : Nat]

LEMMA EngineGrows ==
    ASSUME NEW cl, NEW more, NEW s \in Engine(cl)
    PROVE  s \in Engine(cl \cup more)
  <1>1. s.queue \in Seq(Backed(cl \cup more))
    BY BackedGrows DEF Engine
  <1>2. s.active \in Claimed(cl \cup more)
    BY DEF Engine, Claimed
  <1> QED BY <1>1, <1>2 DEF Engine

LEMMA EngineIsEngineState ==
    ASSUME NEW cl, NEW s \in Engine(cl)
    PROVE  s \in EngineState
  <1>1. s.queue \in Queue
    BY BackedIsQueue DEF Engine
  <1>2. s.active \in Song
    BY DEF Engine, Claimed
  <1> QED BY <1>1, <1>2 DEF Engine, EngineState

\* No song is active: no claim is needed.
LEMMA NoSongClaimed ==
    ASSUME NEW cl
    PROVE  NoSong \in Claimed(cl)
  BY DEF NoSong, Claimed, Song

\* The head of a queue of backed entries.
LEMMA HeadBacked ==
    ASSUME NEW cl, NEW q \in Seq(Backed(cl)), q # <<>>
    PROVE  /\ q[1] \in Backed(cl)
           /\ q[1].id \in Entries /\ q[1].item \in Items /\ q[1].claim \in Nat
  <1>1. q[1] \in Backed(cl)
    BY EmptySeq, ElementOfSeq
  <1> QED BY <1>1 DEF Backed, Entry

LEMMA BootedType ==
    ASSUME NEW cl, NEW seq \in Sequence, NEW q \in Seq(Backed(cl)), NEW n \in Nat
    PROVE  Booted(seq, q, n) \in Engine(cl)
  <1>1. /\ NormalizeSequence(seq) \in Sequence
        /\ NormalizeQueue(q) \in Seq(Backed(cl))
        /\ NoSong \in Claimed(cl)
    BY NormalizeSequenceType, NormalizeQueueBacked, NoSongClaimed
  <1>2. <<>> \in Seq(Nat) /\ <<>> \in Seq(Task)
    BY EmptySeq
  <1> QED BY <1>1, <1>2 DEF Booted, Engine, Statuses

\* The song playNext would command is an item or nothing.
LEMMA NextItemType ==
    ASSUME NEW cl, NEW s \in Engine(cl)
    PROVE  NextItem(s) \in Items \cup {None}
  <1>1. s.seq \in Sequence
    BY DEF Engine
  <1> QED BY <1>1, LeafType DEF NextItem

LEMMA CommandType ==
    ASSUME NEW cl, NEW s \in Engine(cl), NEW song \in Claimed(cl), NEW manual \in BOOLEAN
    PROVE  Command(s, song, manual) \in Engine(cl)
  <1> DEFINE send == [req |-> song.req, item |-> song.item, manual |-> manual,
                      stage |-> "lookup"]
  <1>1. song.req \in Nat /\ send \in Send
    BY DEF Claimed, Song, Send
  <1> HIDE DEF send
  <1>2. Command(s, song, manual) =
          [s EXCEPT !.active = song, !.pending = @ \cup {song.req}, !.sends = @ \cup {send}]
    BY DEF Command, send
  <1>3. s.pending \cup {song.req} \in SUBSET Nat /\ s.sends \cup {send} \in SUBSET Send
    BY <1>1 DEF Engine
  <1> QED BY <1>2, <1>3 DEF Engine

\* A task asked for takes its place in the lock's line.
LEMMA QueuedTask ==
    ASSUME NEW cl, NEW s \in Engine(cl), NEW task \in Task
    PROVE  Append(s.tasks, task) \in Seq(Task)
  BY AppendProperties DEF Engine

LEMMA BeginClaimType ==
    ASSUME NEW cl, NEW s \in Engine(cl), s.queue # <<>>
    PROVE  BeginClaim(s) \in Engine(cl)
  <1> DEFINE task == [op |-> "claim", entry |-> s.queue[1].id, req |-> s.issued + 1]
  <1>1. s.queue[1].id \in Entries
    BY HeadBacked DEF Engine
  <1>2. task \in Task
    BY <1>1 DEF Engine, Task
  <1> HIDE DEF task
  <1>3. BeginClaim(s) = [s EXCEPT !.transitioning = TRUE, !.issued = @ + 1,
                                  !.tasks = Append(@, task)]
    BY DEF BeginClaim, task
  <1>4. Append(s.tasks, task) \in Seq(Task)
    BY <1>2, QueuedTask
  <1>5. s.issued + 1 \in Nat
    BY DEF Engine
  <1> QED BY <1>3, <1>4, <1>5 DEF Engine

\* The claimed head is commanded with its own claim: the song is claimed.
LEMMA CommandHeadType ==
    ASSUME NEW cl, NEW s \in Engine(cl), s.queue # <<>>, s.queue[1].claim # 0
    PROVE  CommandHead(s) \in Engine(cl)
  <1> DEFINE song == [req |-> s.queue[1].claim, item |-> NextItem(s),
                      entry |-> s.queue[1].id]
  <1>1. /\ s.queue[1] \in Backed(cl)
        /\ s.queue[1].id \in Entries /\ s.queue[1].claim \in Nat
    BY HeadBacked DEF Engine
  <1>2. song \in Claimed(cl)
    BY <1>1, NextItemType DEF Backed, Claimed, Song
  <1> HIDE DEF song
  <1>3. CommandHead(s) = Command(s, song, FALSE)
    BY DEF CommandHead, song
  <1> QED BY <1>2, <1>3, CommandType

LEMMA CommandFreshType ==
    ASSUME NEW cl, NEW s \in Engine(cl), NEW item \in Items \cup {None},
           NEW manual \in BOOLEAN
    PROVE  Command([s EXCEPT !.issued = @ + 1],
                   [req |-> s.issued + 1, item |-> item, entry |-> None], manual)
             \in Engine(cl)
  <1>0. s.issued + 1 \in Nat
    BY DEF Engine
  <1>1. [s EXCEPT !.issued = @ + 1] \in Engine(cl)
    BY <1>0 DEF Engine
  <1>2. [req |-> s.issued + 1, item |-> item, entry |-> None] \in Claimed(cl)
    BY <1>0 DEF Claimed, Song
  <1> QED BY <1>1, <1>2, CommandType

LEMMA PlayNextType ==
    ASSUME NEW cl, NEW s \in Engine(cl)
    PROVE  PlayNext(s) \in Engine(cl)
  <1>1. CASE ~CanPlayNext(s)
    BY <1>1 DEF PlayNext
  <1>2. CASE CanPlayNext(s) /\ HeadWaiting(s)
    BY <1>2, BeginClaimType DEF PlayNext, HeadWaiting
  <1>3. CASE CanPlayNext(s) /\ ~HeadWaiting(s) /\ s.queue # <<>>
    BY <1>3, CommandHeadType DEF PlayNext, HeadWaiting
  <1>4. CASE CanPlayNext(s) /\ ~HeadWaiting(s) /\ s.queue = <<>>
    BY <1>4, CommandFreshType, NextItemType DEF PlayNext, CommandPlaylist
  <1> QED BY <1>1, <1>2, <1>3, <1>4

LEMMA MaybeStartType ==
    ASSUME NEW cl, NEW s \in Engine(cl)
    PROVE  MaybeStart(s) \in Engine(cl)
  BY PlayNextType DEF MaybeStart

LEMMA ApplyQueueType ==
    ASSUME NEW cl, NEW s \in Engine(cl), NEW q \in Seq(Backed(cl))
    PROVE  ApplyQueue(s, q) \in Engine(cl)
  <1> DEFINE t == [s EXCEPT !.queue = q, !.blocked = FALSE]
  <1>1. t \in Engine(cl)
    BY DEF Engine
  <1> QED BY <1>1, MaybeStartType DEF ApplyQueue

LEMMA ApplySequenceType ==
    ASSUME NEW cl, NEW s \in Engine(cl), NEW seq \in Sequence
    PROVE  ApplySequence(s, seq) \in Engine(cl)
  <1> DEFINE t == [s EXCEPT !.seq = NormalizeSequence(seq)]
  <1>1. t \in Engine(cl)
    BY NormalizeSequenceType DEF Engine
  <1> QED BY <1>1, MaybeStartType DEF ApplySequence

LEMMA ReleaseClaimType ==
    ASSUME NEW cl, NEW s \in Engine(cl), NEW entry \in Entries, NEW block \in BOOLEAN
    PROVE  ReleaseClaim(s, entry, block) \in Engine(cl)
  <1> DEFINE task == [op |-> "release", entry |-> entry, block |-> block]
  <1>1. task \in Task
    BY DEF Task
  <1> HIDE DEF task
  <1>2. Append(s.tasks, task) \in Seq(Task)
    BY <1>1, QueuedTask
  <1>3. ReleaseClaim(s, entry, block) =
          [s EXCEPT !.transitioning = TRUE, !.tasks = Append(@, task)]
    BY DEF ReleaseClaim, task
  <1> QED BY <1>2, <1>3 DEF Engine

LEMMA BlockQueueType ==
    ASSUME NEW cl, NEW s \in Engine(cl)
    PROVE  BlockQueue(s) \in Engine(cl)
  BY DEF BlockQueue, Engine

\* The end of a transition.
LEMMA RestedType ==
    ASSUME NEW cl, NEW s \in Engine(cl)
    PROVE  [s EXCEPT !.transitioning = FALSE] \in Engine(cl)
  BY DEF Engine

LEMMA ClaimLostType ==
    ASSUME NEW cl, NEW s \in Engine(cl), NEW q \in Seq(Backed(cl))
    PROVE  ClaimLost(s, q) \in Engine(cl)
  BY ApplyQueueType, RestedType, MaybeStartType DEF ClaimLost

LEMMA ClaimWonType ==
    ASSUME NEW cl, NEW s \in Engine(cl), NEW q \in Seq(Backed(cl)), q # <<>>
    PROVE  ClaimWon(s, q) \in Engine(cl)
  <1> DEFINE t == [ApplyQueue(s, q) EXCEPT !.transitioning = FALSE]
  <1>1. t \in Engine(cl)
    BY ApplyQueueType, RestedType
  <1> HIDE DEF t
  <1>2. PlayNext(t) \in Engine(cl)
    BY <1>1, PlayNextType
  <1>3. ReleaseClaim(t, q[1].id, TRUE) \in Engine(cl)
    BY <1>1, HeadBacked, ReleaseClaimType
  <1> QED BY <1>2, <1>3 DEF ClaimWon, t

LEMMA ClaimReleasedType ==
    ASSUME NEW cl, NEW s \in Engine(cl), NEW q \in Seq(Backed(cl)), NEW block \in BOOLEAN
    PROVE  ClaimReleased(s, q, block) \in Engine(cl)
  <1> DEFINE t == ApplyQueue(s, q)
  <1>1. t \in Engine(cl)
    BY ApplyQueueType
  <1> HIDE DEF t
  <1>2. [t EXCEPT !.transitioning = FALSE, !.blocked = block] \in Engine(cl)
    BY <1>1 DEF Engine
  <1> QED BY <1>2 DEF ClaimReleased, t

--------------------------------------------------------------------------------
\* The end of a track

\* endedRequestIds stays a list of requests.
LEMMA RememberType ==
    ASSUME NEW ended \in Seq(Nat), NEW req \in Nat
    PROVE  Remember(ended, req) \in Seq(Nat)
  <1>1. Append(ended, req) \in Seq(Nat) /\ Append(ended, req) # <<>>
    BY AppendProperties
  <1>2. Tail(Append(ended, req)) \in Seq(Nat)
    BY <1>1, HeadTailProperties
  <1> QED BY <1>1, <1>2 DEF Remember

LEMMA SequenceAfterType ==
    ASSUME NEW cl, NEW s \in Engine(cl), NEW song
    PROVE  SequenceAfter(s, song) \in Sequence
  <1>1. NormalizeSequence(s.seq) \in Sequence
    BY NormalizeSequenceType DEF Engine
  <1> QED BY <1>1, AdvanceSequenceType DEF SequenceAfter

\* A task that carries a continuation.
LEMMA ContinuationTask ==
    ASSUME NEW cont \in Continuation, NEW op \in {"consume", "save", "saveThenPlay"}
    PROVE  [op |-> op, cont |-> cont] \in Task
  BY DEF Task

LEMMA QueuedContinuation ==
    ASSUME NEW cl, NEW s \in Engine(cl), NEW cont \in Continuation,
           NEW op \in {"consume", "save", "saveThenPlay"}
    PROVE  [s EXCEPT !.tasks = Append(@, [op |-> op, cont |-> cont])] \in Engine(cl)
  <1> DEFINE task == [op |-> op, cont |-> cont]
  <1>1. task \in Task
    BY ContinuationTask
  <1> HIDE DEF task
  <1>2. Append(s.tasks, task) \in Seq(Task)
    BY <1>1, QueuedTask
  <1>3. [s EXCEPT !.tasks = Append(@, task)] \in Engine(cl)
    BY <1>2 DEF Engine
  <1> QED BY <1>3 DEF task

LEMMA WithBumper ==
    ASSUME NEW cl, NEW s \in Engine(cl), NEW cont \in Continuation
    PROVE  [s EXCEPT !.bumpers = @ \cup {cont}] \in Engine(cl)
  <1>1. s.bumpers \cup {cont} \in SUBSET Continuation
    BY DEF Engine
  <1> QED BY <1>1 DEF Engine

\* Taking the playlist position of an ended song into memory.
LEMMA WithSequence ==
    ASSUME NEW cl, NEW s \in Engine(cl), NEW seq \in Sequence
    PROVE  [s EXCEPT !.seq = seq] \in Engine(cl)
  BY DEF Engine

LEMMA BeginContinuationType ==
    ASSUME NEW cl, NEW s \in Engine(cl), NEW cont \in Continuation
    PROVE  BeginContinuation(s, cont) \in Engine(cl)
  <1> DEFINE t == [s EXCEPT !.seq = cont.next]
  <1>1. cont.next \in Sequence
    BY DEF Continuation
  <1>2. t \in Engine(cl)
    BY <1>1, WithSequence
  <1> HIDE DEF t
  <1>3. [s EXCEPT !.tasks = Append(@, [op |-> "consume", cont |-> cont])] \in Engine(cl)
    BY QueuedContinuation
  <1>4. [t EXCEPT !.tasks = Append(@, [op |-> "save", cont |-> cont])] \in Engine(cl)
    BY <1>2, QueuedContinuation
  <1>5. [t EXCEPT !.bumpers = @ \cup {cont}] \in Engine(cl)
    BY <1>2, WithBumper
  <1> QED BY <1>3, <1>4, <1>5 DEF BeginContinuation, t

LEMMA AdvancePastType ==
    ASSUME NEW cl, NEW s \in Engine(cl), NEW song \in Song
    PROVE  AdvancePast(s, song) \in Engine(cl)
  <1> DEFINE next == SequenceAfter(s, song)
             cont == [req |-> song.req, entry |-> song.entry, next |-> next,
                      successor |-> next.mode = "auto" /\ next.cursor # None,
                      saved |-> FALSE]
             t == [s EXCEPT !.active = NoSong, !.pending = {}, !.foreign = FALSE,
                            !.transitioning = TRUE]
  <1>1. next \in Sequence
    BY SequenceAfterType
  <1> HIDE DEF next
  <1>2. cont \in Continuation
    BY <1>1 DEF Continuation, Song
  <1>3. t \in Engine(cl)
    BY NoSongClaimed DEF Engine
  <1> HIDE DEF cont, t
  <1>4. BeginContinuation(t, cont) \in Engine(cl)
    BY <1>2, <1>3, BeginContinuationType
  <1> QED BY <1>4 DEF AdvancePast, cont, t, next

LEMMA TrackEndedType ==
    ASSUME NEW cl, NEW s \in Engine(cl), NEW req \in Nat
    PROVE  TrackEnded(s, req) \in Engine(cl)
  <1> DEFINE t == [s EXCEPT !.ended = Remember(@, req)]
  <1>1. Remember(s.ended, req) \in Seq(Nat)
    BY RememberType DEF Engine
  <1>2. t \in Engine(cl)
    BY <1>1 DEF Engine
  <1>3. s.active \in Song
    BY DEF Engine, Claimed
  <1> HIDE DEF t
  <1>4. AdvancePast(t, s.active) \in Engine(cl)
    BY <1>2, <1>3, AdvancePastType
  <1>5. t.pending \ {req} \in SUBSET Nat /\ (t.foreign /\ s.active # NoSong) \in BOOLEAN
    BY <1>2 DEF Engine
  <1>6. [t EXCEPT !.pending = @ \ {req}, !.foreign = @ /\ s.active # NoSong]
          \in Engine(cl)
    BY <1>2, <1>5 DEF Engine
  <1> QED BY <1>2, <1>4, <1>6 DEF TrackEnded, t

LEMMA ResumeQueueType ==
    ASSUME NEW cl, NEW s \in Engine(cl)
    PROVE  ResumeQueue(s) \in Engine(cl)
  <1> DEFINE t == [s EXCEPT !.transitioning = FALSE]
  <1>1. t \in Engine(cl)
    BY RestedType
  <1> HIDE DEF t
  <1>2. PlayNext(t) \in Engine(cl) /\ [t EXCEPT !.blocked = TRUE] \in Engine(cl)
    BY <1>1, PlayNextType DEF Engine
  <1> QED BY <1>2 DEF ResumeQueue, t

LEMMA AfterBumperType ==
    ASSUME NEW cl, NEW s \in Engine(cl), NEW cont \in Continuation
    PROVE  AfterBumper(s, cont) \in Engine(cl)
  <1>1. ResumeRotation(s, cont) \in Engine(cl)
    BY RestedType, PlayNextType DEF ResumeRotation
  <1>2. [s EXCEPT !.tasks = Append(@, [op |-> "saveThenPlay", cont |-> cont])]
          \in Engine(cl)
    BY QueuedContinuation
  <1> QED BY <1>1, <1>2, ResumeQueueType DEF AfterBumper

LEMMA CursorSavedType ==
    ASSUME NEW cl, NEW s \in Engine(cl), NEW seq \in Sequence
    PROVE  CursorSaved(s, seq) \in Engine(cl)
  <1> DEFINE t == [s EXCEPT !.seq = seq]
  <1>1. t \in Engine(cl)
    BY WithSequence
  <1>2. s.queue \in Seq(Backed(cl))
    BY DEF Engine
  <1> QED BY <1>1, <1>2, ApplyQueueType DEF CursorSaved

--------------------------------------------------------------------------------
\* Telemetry and command replies

LEMMA StatusChangedType ==
    ASSUME NEW cl, NEW s \in Engine(cl), NEW status \in Statuses, NEW snapped \in BOOLEAN
    PROVE  StatusChanged(s, status, snapped) \in Engine(cl)
  <1>1. (s.reconciled /\ ~s.frozen) \in BOOLEAN
    OBVIOUS
  <1> QED BY <1>1 DEF StatusChanged, Engine

LEMMA TrackStartedType ==
    ASSUME NEW cl, NEW s \in Engine(cl), NEW req
    PROVE  TrackStarted(s, req) \in Engine(cl)
  <1>1. s.pending \ {req} \in SUBSET Nat
    BY DEF Engine
  <1> QED BY <1>1 DEF TrackStarted, Engine

\* An adopted queue entry is the claimed head under its own claim.
LEMMA AdoptedType ==
    ASSUME NEW cl, NEW s \in Engine(cl), NEW track \in Track, track.req # 0
    PROVE  Adopted(s, track) \in Claimed(cl)
  <1>1. CASE s.queue # <<>> /\ s.queue[1].claim = track.req
                            /\ s.queue[1].item = track.item
    <2>1. s.queue[1] \in Backed(cl) /\ s.queue[1].id \in Entries
      BY <1>1, HeadBacked DEF Engine
    <2> QED BY <1>1, <2>1 DEF Adopted, Backed, Claimed, Song, Track
  <1>2. CASE ~(s.queue # <<>> /\ s.queue[1].claim = track.req
                              /\ s.queue[1].item = track.item)
    BY <1>2 DEF Adopted, Claimed, Song, Track
  <1> QED BY <1>1, <1>2

LEMMA ReconcilePlayingType ==
    ASSUME NEW cl, NEW s \in Engine(cl), NEW track \in Track, track.req # 0
    PROVE  ReconcilePlaying(s, track) \in Engine(cl)
  <1>1. \A f \in BOOLEAN : [s EXCEPT !.foreign = f] \in Engine(cl)
    BY DEF Engine
  <1>2. s.pending \ {track.req} \in SUBSET Nat
    BY DEF Engine
  <1>3. [s EXCEPT !.pending = @ \ {track.req}, !.foreign = FALSE] \in Engine(cl)
    BY <1>2 DEF Engine
  <1>4. [s EXCEPT !.active = Adopted(s, track), !.foreign = FALSE] \in Engine(cl)
    BY AdoptedType DEF Engine
  <1> QED BY <1>1, <1>3, <1>4 DEF ReconcilePlaying

LEMMA ReconcileIdleType ==
    ASSUME NEW cl, NEW s \in Engine(cl)
    PROVE  ReconcileIdle(s) \in Engine(cl)
  <1>1. s.active.req \in Nat
    BY DEF Engine, Claimed, Song
  <1>2. TrackEnded(s, s.active.req) \in Engine(cl)
    BY <1>1, TrackEndedType
  <1>3. [s EXCEPT !.pending = {}, !.foreign = FALSE] \in Engine(cl)
    BY DEF Engine
  <1> QED BY <1>2, <1>3, MaybeStartType DEF ReconcileIdle

LEMMA SnapshotType ==
    ASSUME NEW cl, NEW s \in Engine(cl), NEW track \in Track
    PROVE  Snapshot(s, track) \in Engine(cl)
  <1>1. [s EXCEPT !.reconciled = TRUE, !.frozen = FALSE] \in Engine(cl)
    BY DEF Engine
  <1> QED BY <1>1, ReconcilePlayingType, ReconcileIdleType DEF Snapshot

LEMMA CommandFailedType ==
    ASSUME NEW cl, NEW s \in Engine(cl), NEW req
    PROVE  CommandFailed(s, req) \in Engine(cl)
  <1> DEFINE t == [s EXCEPT !.pending = @ \ {req}]
             u == [t EXCEPT !.active = NoSong]
  <1>1. s.pending \ {req} \in SUBSET Nat
    BY DEF Engine
  <1>2. t \in Engine(cl)
    BY <1>1 DEF Engine
  <1> HIDE DEF t
  <1>3. u \in Engine(cl)
    BY <1>2, NoSongClaimed DEF Engine
  <1> HIDE DEF u
  <1>4. s.active.entry \in Entries \cup {None}
    BY DEF Engine, Claimed, Song
  <1>5. s.active.entry # None => ReleaseClaim(u, s.active.entry, FALSE) \in Engine(cl)
    BY <1>3, <1>4, ReleaseClaimType
  <1> QED BY <1>2, <1>3, <1>5 DEF CommandFailed, t, u

LEMMA ManualSongType ==
    ASSUME NEW cl, NEW s \in Engine(cl), NEW item \in Items \cup {None}
    PROVE  ManualSong(s, item) \in Engine(cl)
  BY CommandFreshType DEF ManualSong

LEMMA StopSongType ==
    ASSUME NEW cl, NEW s \in Engine(cl)
    PROVE  StopSong(s) \in Engine(cl)
  <1> DEFINE t == [s EXCEPT !.active = NoSong, !.pending = {}, !.foreign = FALSE,
                            !.transitioning = FALSE]
  <1>1. t \in Engine(cl)
    BY NoSongClaimed DEF Engine
  <1> HIDE DEF t
  <1>2. s.active.entry \in Entries \cup {None}
    BY DEF Engine, Claimed, Song
  <1>3. s.active.entry # None => ReleaseClaim(t, s.active.entry, FALSE) \in Engine(cl)
    BY <1>1, <1>2, ReleaseClaimType
  <1> QED BY <1>1, <1>3 DEF StopSong, t

--------------------------------------------------------------------------------
\* The inductive invariant

\* A row whose claims are all in cl, and the edits that read such rows.
BackedRow(cl) == [seq : Sequence, queue : Seq(Backed(cl))]
BackedEdit(cl) == [saves : Edits \cup {None}, row : BackedRow(cl)]

Appliance == [onAir : Track, seen : SUBSET Nat, seq : Nat]
Link == [sse : BOOLEAN, wire : Seq(Frame), last : Nat, snapped : BOOLEAN,
         polling : BOOLEAN, poll : SUBSET Frame]
StopRequest == [stage : {"none", "read", "posted", "taken", "done"}, full : BOOLEAN,
                read : SUBSET Sequence]

\* What the engine remembers, what the row stores and what an unfinished edit
\* has read carry only persisted claims.  Each of them reaches the active song:
\* memory through playNext and adoption, the row through a restart or a locked
\* read, a read row through the write that puts its filtered queue back.
IInv ==
    /\ eng \in Engine(claims)
    /\ db \in BackedRow(claims)
    /\ edit \subseteq BackedEdit(claims)
    /\ palazzo \in Appliance
    /\ tel \in Link
    /\ stop \in StopRequest
    /\ claims \subseteq Entries \X Nat
    /\ minted \subseteq Entries
    /\ left \in [Kinds -> Nat]

LEMMA IInvImpliesTypeOK == IInv => TypeOK
  <1> SUFFICES ASSUME IInv PROVE TypeOK
    OBVIOUS
  <1>1. eng \in EngineState
    BY EngineIsEngineState DEF IInv
  <1>2. BackedRow(claims) \subseteq Row
    BY BackedIsQueue DEF BackedRow, Row
  <1>3. db \in Row /\ edit \subseteq [saves : Edits \cup {None}, row : Row]
    BY <1>2 DEF IInv, BackedEdit
  <1> QED BY <1>1, <1>3 DEF IInv, TypeOK, Appliance, Link, StopRequest

LEMMA IInvImpliesClaimed == IInv => ClaimedBeforeCommanded
  BY DEF IInv, Engine, Claimed, ClaimedBeforeCommanded

LEMMA InitIInv == Init => IInv
  <1> SUFFICES ASSUME Init PROVE IInv
    OBVIOUS
  <1> USE EngineAssumption DEF Init
  <1>1. <<>> \in Seq(Backed(claims)) /\ <<>> \in Seq(Frame)
    BY EmptySeq
  <1>2. eng \in Engine(claims)
    BY <1>1, BootedType
  <1>3. db \in BackedRow(claims)
    BY <1>1 DEF BackedRow
  <1>4. palazzo \in Appliance
    BY DEF Appliance, Idle, Track
  <1>5. tel \in Link
    BY <1>1 DEF Link, Offline
  <1>6. stop \in StopRequest
    BY DEF StopRequest, NoStop
  <1> QED BY <1>2, <1>3, <1>4, <1>5, <1>6 DEF IInv

--------------------------------------------------------------------------------
\* Steps of Palazzo and of the commands

\* Spending a budget leaves a budget.
LEMMA SpendType ==
    ASSUME left \in [Kinds -> Nat], NEW kind \in Kinds, Spend(kind)
    PROVE  left' \in [Kinds -> Nat]
  BY DEF Spend

\* Palazzo moves to another track or to none and announces it on the stream.
LEMMA SwitchType ==
    ASSUME palazzo \in Appliance, tel \in Link, NEW track \in Track, Switch(track)
    PROVE  palazzo' \in Appliance /\ tel' \in Link
  <1> DEFINE ended  == [kind |-> "ended", track |-> palazzo.onAir, seq |-> palazzo.seq + 1]
             begun  == [kind |-> "started", track |-> track, seq |-> palazzo.seq + 1]
             frames == IF palazzo.onAir = Idle THEN <<begun>>
                       ELSE IF track = Idle THEN <<ended>>
                       ELSE <<ended, [begun EXCEPT !.seq = @ + 1]>>
  <1>1. ended \in Frame /\ begun \in Frame /\ [begun EXCEPT !.seq = @ + 1] \in Frame
    BY DEF Appliance, Frame
  <1> HIDE DEF ended, begun
  <1>2. frames \in Seq(Frame) /\ Len(frames) \in Nat
    BY <1>1
  <1> HIDE DEF frames
  <1>3. /\ palazzo' = [onAir |-> track, seen |-> palazzo.seen \cup ({track.req} \ {0}),
                       seq |-> palazzo.seq + Len(frames)]
        /\ tel' = [tel EXCEPT !.wire = IF tel.sse THEN @ \o frames ELSE @]
    BY DEF Switch, frames, ended, begun
  <1>4. palazzo.seen \cup ({track.req} \ {0}) \in SUBSET Nat
    BY DEF Appliance, Track
  <1>5. palazzo.seq + Len(frames) \in Nat
    BY <1>2 DEF Appliance
  <1>6. tel.wire \o frames \in Seq(Frame)
    BY <1>2, ConcatProperties DEF Link
  <1> QED BY <1>3, <1>4, <1>5, <1>6 DEF Appliance, Link

\* Idle is a track.
LEMMA IdleType == Idle \in Track
  BY DEF Idle, Track

LEMMA SongEndsStep == IInv /\ SongEnds => IInv'
  <1> SUFFICES ASSUME IInv, SongEnds PROVE IInv'
    OBVIOUS
  <1>1. left' \in [Kinds -> Nat]
    BY SpendType DEF IInv, SongEnds, Kinds
  <1>2. palazzo' \in Appliance /\ tel' \in Link
    BY SwitchType, IdleType DEF IInv, SongEnds
  <1> QED BY <1>1, <1>2 DEF IInv, SongEnds

\* A set of commands in flight is all these steps change in the engine.
LEMMA WithSends ==
    ASSUME NEW cl, NEW s \in Engine(cl), NEW sends \in SUBSET Send
    PROVE  [s EXCEPT !.sends = sends] \in Engine(cl)
  BY DEF Engine

\* A command moved to its next stage.
LEMMA Restaged ==
    ASSUME NEW c \in Send, NEW stage \in {"lookup", "posted", "accepted"}
    PROVE  [c EXCEPT !.stage = stage] \in Send
  BY DEF Send

LEMMA CommandArrivesStep ==
    ASSUME IInv, NEW c, CommandArrives(c)
    PROVE  IInv'
  <1> DEFINE sends == (eng.sends \ {c}) \cup {[c EXCEPT !.stage = "accepted"]}
  <1>1. c \in Send /\ eng.sends \in SUBSET Send
    BY DEF IInv, CommandArrives, Engine
  <1>2. sends \in SUBSET Send
    BY <1>1, Restaged
  <1>3. eng' = [eng EXCEPT !.sends = sends]
    BY DEF CommandArrives
  <1> HIDE DEF sends
  <1>4. eng' \in Engine(claims)
    BY <1>2, <1>3, WithSends DEF IInv
  <1>5. [req |-> c.req, item |-> c.item] \in Track
    BY <1>1 DEF Send, Track
  <1>6. palazzo' \in Appliance /\ tel' \in Link
    BY <1>5, SwitchType DEF IInv, CommandArrives
  <1> QED BY <1>4, <1>6 DEF IInv, CommandArrives

LEMMA PostCommandStep ==
    ASSUME IInv, NEW c, PostCommand(c)
    PROVE  IInv'
  <1> DEFINE sends == IF eng.active.req = c.req
                      THEN (eng.sends \ {c}) \cup {[c EXCEPT !.stage = "posted"]}
                      ELSE eng.sends \ {c}
  <1>1. c \in Send /\ eng.sends \in SUBSET Send
    BY DEF IInv, PostCommand, Engine
  <1>2. sends \in SUBSET Send
    BY <1>1, Restaged
  <1>3. eng' = [eng EXCEPT !.sends = sends]
    BY DEF PostCommand
  <1> HIDE DEF sends
  <1>4. eng' \in Engine(claims)
    BY <1>2, <1>3, WithSends DEF IInv
  <1> QED BY <1>4 DEF IInv, PostCommand

\* A command that is no longer in flight.
LEMMA WithoutSend ==
    ASSUME NEW cl, NEW s \in Engine(cl), NEW c
    PROVE  [s EXCEPT !.sends = @ \ {c}] \in Engine(cl)
  <1>1. s.sends \ {c} \in SUBSET Send
    BY DEF Engine
  <1> QED BY <1>1, WithSends

LEMMA CommandSucceedsStep ==
    ASSUME IInv, NEW c, CommandSucceeds(c)
    PROVE  IInv'
  <1>1. eng' \in Engine(claims)
    BY WithoutSend DEF IInv, CommandSucceeds
  <1> QED BY <1>1 DEF IInv, CommandSucceeds

LEMMA CommandFailsStep ==
    ASSUME IInv, NEW c, CommandFails(c)
    PROVE  IInv'
  <1>1. eng' \in Engine(claims)
    BY WithoutSend, CommandFailedType DEF IInv, CommandFails
  <1>2. left' \in [Kinds -> Nat]
    BY SpendType DEF IInv, CommandFails, Kinds
  <1> QED BY <1>1, <1>2 DEF IInv, CommandFails

--------------------------------------------------------------------------------
\* Steps of the tasks

\* A row stays backed when claims are added, and so do the edits.
LEMMA RowGrows ==
    ASSUME NEW cl, NEW more, NEW row \in BackedRow(cl)
    PROVE  row \in BackedRow(cl \cup more)
  BY BackedGrows DEF BackedRow

LEMMA EditsGrow ==
    ASSUME NEW cl, NEW more, NEW edits \in SUBSET BackedEdit(cl)
    PROVE  edits \in SUBSET BackedEdit(cl \cup more)
  BY RowGrows DEF BackedEdit

\* What a task finds: a backed row, and itself at the head of the line.
LEMMA TaskReads ==
    ASSUME IInv, eng.tasks # <<>>
    PROVE  /\ NextTask \in Task
           /\ Unlocked \in Engine(claims)
           /\ Stored \in Seq(Backed(claims))
  <1>1. NextTask \in Task /\ Tail(eng.tasks) \in Seq(Task)
    BY HeadTailProperties DEF IInv, Engine, NextTask
  <1>2. Unlocked \in Engine(claims)
    BY <1>1 DEF IInv, Engine, Unlocked
  <1>3. Stored \in Seq(Backed(claims))
    BY NormalizeQueueBacked DEF IInv, BackedRow, Stored
  <1> QED BY <1>1, <1>2, <1>3

\* Writing a backed queue, or a playlist, into the row.
LEMMA RowWrites ==
    ASSUME NEW cl, NEW row \in BackedRow(cl)
    PROVE  /\ \A q \in Seq(Backed(cl)) : [row EXCEPT !.queue = q] \in BackedRow(cl)
           /\ \A seq \in Sequence : [row EXCEPT !.seq = seq] \in BackedRow(cl)
  BY DEF BackedRow

LEMMA RunClaimStep ==
    ASSUME IInv, eng.tasks # <<>>, RunClaim
    PROVE  /\ eng' \in Engine(claims') /\ db' \in BackedRow(claims')
           /\ edit \subseteq BackedEdit(claims') /\ claims' \subseteq Entries \X Nat
  <1>1. /\ NextTask.op = "claim" /\ NextTask \in Task
        /\ Unlocked \in Engine(claims) /\ Stored \in Seq(Backed(claims))
    BY TaskReads DEF RunClaim
  <1>2. NextTask.entry \in Entries /\ NextTask.req \in Nat
    BY <1>1 DEF Task
  <1>3. CASE Stored # <<>> /\ Stored[1].id = NextTask.entry /\ Stored[1].claim = 0
    <2> DEFINE more == {<<NextTask.entry, NextTask.req>>}
               q == HeadClaimed(Stored, NextTask.req)
    <2>1. q \in Seq(Backed(claims \cup more))
      BY <1>1, <1>2, <1>3, HeadClaimedBacked
    <2>2. q # <<>>
      BY <1>1, <1>3 DEF HeadClaimed
    <2>3. claims' = claims \cup more
      BY <1>3 DEF RunClaim
    <2>4. Unlocked \in Engine(claims \cup more)
      BY <1>1, EngineGrows
    <2>5. eng' \in Engine(claims')
      BY <1>3, <2>1, <2>2, <2>3, <2>4, ClaimWonType DEF RunClaim
    <2>9. db \in BackedRow(claims \cup more) /\ db' = [db EXCEPT !.queue = q]
      BY <1>3, RowGrows DEF IInv, RunClaim
    <2>6. db' \in BackedRow(claims')
      BY <2>9, <2>1, <2>3, RowWrites
    <2>7. edit \subseteq BackedEdit(claims')
      BY <2>3, EditsGrow DEF IInv
    <2>8. claims' \subseteq Entries \X Nat
      BY <1>2, <2>3 DEF IInv
    <2> QED BY <2>5, <2>6, <2>7, <2>8
  <1>4. CASE ~(Stored # <<>> /\ Stored[1].id = NextTask.entry /\ Stored[1].claim = 0)
    <2>1. eng' \in Engine(claims)
      BY <1>1, <1>4, ClaimLostType DEF RunClaim
    <2> QED BY <1>4, <2>1 DEF IInv, RunClaim
  <1> QED BY <1>3, <1>4

LEMMA RunReleaseStep ==
    ASSUME IInv, eng.tasks # <<>>, RunRelease
    PROVE  eng' \in Engine(claims) /\ db' \in BackedRow(claims)
  <1> DEFINE q == Released(Stored, NextTask.entry)
  <1>1. /\ NextTask.op = "release" /\ NextTask \in Task
        /\ Unlocked \in Engine(claims) /\ Stored \in Seq(Backed(claims))
    BY TaskReads DEF RunRelease
  <1>2. NextTask.block \in BOOLEAN
    BY <1>1 DEF Task
  <1>3. q \in Seq(Backed(claims))
    BY <1>1, ReleasedBacked
  <1> QED BY <1>1, <1>2, <1>3, ClaimReleasedType, RowWrites DEF IInv, RunRelease

LEMMA RunConsumeStep ==
    ASSUME IInv, eng.tasks # <<>>, RunConsume
    PROVE  eng' \in Engine(claims) /\ db' \in BackedRow(claims)
  <1> DEFINE q == Without(Stored, NextTask.cont.entry)
             t == ApplyQueue(Unlocked, q)
  <1>1. /\ NextTask.op = "consume" /\ NextTask \in Task
        /\ Unlocked \in Engine(claims) /\ Stored \in Seq(Backed(claims))
    BY TaskReads DEF RunConsume
  <1>2. NextTask.cont \in Continuation
    BY <1>1 DEF Task
  <1>3. q \in Seq(Backed(claims))
    BY <1>1, WithoutBacked
  <1>4. t \in Engine(claims)
    BY <1>1, <1>3, ApplyQueueType
  <1> HIDE DEF q, t
  <1>5. db' = [db EXCEPT !.queue = q] /\ eng' = [t EXCEPT !.bumpers = @ \cup {NextTask.cont}]
    BY DEF RunConsume, q, t
  <1> QED BY <1>2, <1>3, <1>4, <1>5, WithBumper, RowWrites DEF IInv

LEMMA RunSaveStep ==
    ASSUME IInv, eng.tasks # <<>>, RunSave
    PROVE  eng' \in Engine(claims) /\ db' \in BackedRow(claims)
  <1> DEFINE t == CursorSaved(Unlocked, NextTask.cont.next)
             c == [NextTask.cont EXCEPT !.saved = TRUE]
  <1>1. /\ NextTask.op \in {"save", "saveThenPlay"} /\ NextTask \in Task
        /\ Unlocked \in Engine(claims)
    BY TaskReads DEF RunSave
  <1>2. NextTask.cont \in Continuation
    BY <1>1 DEF Task
  <1>3. NextTask.cont.next \in Sequence /\ c \in Continuation
    BY <1>2 DEF Continuation
  <1>4. t \in Engine(claims)
    BY <1>1, <1>3, CursorSavedType
  <1> HIDE DEF c, t
  <1>5. [t EXCEPT !.bumpers = @ \cup {c}] \in Engine(claims) /\ ResumeQueue(t) \in Engine(claims)
    BY <1>3, <1>4, WithBumper, ResumeQueueType
  <1>6. eng' \in Engine(claims)
    BY <1>5 DEF RunSave, c, t
  <1> QED BY <1>3, <1>6, RowWrites DEF IInv, RunSave

LEMMA RunTaskStep == IInv /\ RunTask => IInv'
  <1> SUFFICES ASSUME IInv, RunTask PROVE IInv'
    OBVIOUS
  <1>1. eng.tasks # <<>>
    BY DEF RunTask
  <1>2. CASE RunClaim
    BY <1>1, <1>2, RunClaimStep DEF IInv, RunTask
  <1>3. CASE RunRelease
    BY <1>1, <1>3, RunReleaseStep DEF IInv, RunTask, RunRelease
  <1>4. CASE RunConsume
    BY <1>1, <1>4, RunConsumeStep DEF IInv, RunTask, RunConsume
  <1>5. CASE RunSave
    BY <1>1, <1>5, RunSaveStep DEF IInv, RunTask, RunSave
  <1> QED BY <1>2, <1>3, <1>4, <1>5 DEF RunTask

LEMMA TaskFailsStep == IInv /\ TaskFails => IInv'
  <1> SUFFICES ASSUME IInv, TaskFails PROVE IInv'
    OBVIOUS
  <1>1. eng' \in Engine(claims)
    BY TaskReads, BlockQueueType DEF TaskFails
  <1>2. left' \in [Kinds -> Nat]
    BY SpendType DEF IInv, TaskFails, Kinds
  <1> QED BY <1>1, <1>2 DEF IInv, TaskFails

LEMMA BumperEndsStep ==
    ASSUME IInv, NEW cont, BumperEnds(cont)
    PROVE  IInv'
  <1> DEFINE t == [eng EXCEPT !.bumpers = @ \ {cont}]
  <1>1. cont \in Continuation /\ eng.bumpers \ {cont} \in SUBSET Continuation
    BY DEF IInv, Engine, BumperEnds
  <1>2. t \in Engine(claims)
    BY <1>1 DEF IInv, Engine
  <1> HIDE DEF t
  <1>3. AfterBumper(t, cont) \in Engine(claims)
    BY <1>1, <1>2, AfterBumperType
  <1> QED BY <1>3 DEF IInv, BumperEnds, t

--------------------------------------------------------------------------------
\* Steps of the telemetry client

\* What Palazzo tells of itself is a frame.
LEMMA PalazzoNowType ==
    ASSUME palazzo \in Appliance
    PROVE  PalazzoNow \in Frame /\ PalazzoNow.track \in Track /\ PalazzoNow.seq \in Nat
  BY DEF PalazzoNow, Appliance, Frame

LEMMA StreamOpensStep == IInv /\ StreamOpens => IInv'
  <1> SUFFICES ASSUME IInv, StreamOpens PROVE IInv'
    OBVIOUS
  <1>1. <<PalazzoNow>> \in Seq(Frame)
    BY PalazzoNowType DEF IInv
  <1>2. tel' \in Link
    BY <1>1 DEF IInv, Link, StreamOpens
  <1> QED BY <1>2 DEF IInv, StreamOpens

LEMMA StreamFailsStep == IInv /\ StreamFails => IInv'
  <1> SUFFICES ASSUME IInv, StreamFails PROVE IInv'
    OBVIOUS
  <1>1. <<>> \in Seq(Frame)
    BY EmptySeq
  <1>2. tel' \in Link /\ tel.snapped \in BOOLEAN
    BY <1>1 DEF IInv, Link, StreamFails
  <1>3. eng' \in Engine(claims)
    BY <1>2, StatusChangedType DEF IInv, StreamFails, Statuses
  <1>4. left' \in [Kinds -> Nat]
    BY SpendType DEF IInv, StreamFails, Kinds
  <1> QED BY <1>2, <1>3, <1>4 DEF IInv, StreamFails

LEMMA StreamClosesStep == IInv /\ StreamCloses => IInv'
  <1> SUFFICES ASSUME IInv, StreamCloses PROVE IInv'
    OBVIOUS
  <1>1. <<>> \in Seq(Frame)
    BY EmptySeq
  <1>2. tel' \in Link /\ tel.snapped \in BOOLEAN
    BY <1>1 DEF IInv, Link, StreamCloses
  <1>3. eng' \in Engine(claims)
    BY <1>2, StatusChangedType DEF IInv, StreamCloses, Statuses
  <1>4. left' \in [Kinds -> Nat]
    BY SpendType DEF IInv, StreamCloses, Kinds
  <1> QED BY <1>2, <1>3, <1>4 DEF IInv, StreamCloses

LEMMA ReadFrameStep == IInv /\ ReadFrame => IInv'
  <1> SUFFICES ASSUME IInv, ReadFrame PROVE IInv'
    OBVIOUS
  <1> DEFINE frame == Head(tel.wire)
  <1>1. frame \in Frame /\ Tail(tel.wire) \in Seq(Frame)
    BY HeadTailProperties DEF IInv, Link, ReadFrame
  <1>2. frame.track \in Track /\ frame.seq \in Nat /\ frame.track.req \in Nat
    BY <1>1 DEF Frame, Track
  <1>3. /\ PalazzoNow.track \in Track /\ PalazzoNow.seq \in Nat
        /\ palazzo.onAir \in Track /\ palazzo.seq \in Nat
    BY PalazzoNowType DEF IInv, Appliance
  <1> HIDE DEF frame
  <1>4. SnapshotFrame(frame) \/ StaleFrame(frame) \/ LifecycleFrame(frame) \/ GapFrame(frame)
    BY DEF ReadFrame, frame
  <1>5. CASE SnapshotFrame(frame)
    <2> DEFINE state == IF frame.track = Idle THEN frame ELSE PalazzoNow
    <2>1. state.track \in Track /\ state.seq \in Nat
      BY <1>2, <1>3
    <2> HIDE DEF state
    <2>2. /\ tel' = [tel EXCEPT !.wire = Tail(@), !.last = state.seq, !.snapped = TRUE]
          /\ eng' = Snapshot(StatusChanged(eng, "connected", TRUE), state.track)
      BY <1>5 DEF SnapshotFrame, state
    <2>3. tel' \in Link
      BY <1>1, <2>1, <2>2 DEF IInv, Link, frame
    <2>4. StatusChanged(eng, "connected", TRUE) \in Engine(claims)
      BY StatusChangedType DEF IInv, Statuses
    <2>5. eng' \in Engine(claims)
      BY <2>1, <2>2, <2>4, SnapshotType
    <2> QED BY <2>3, <2>5 DEF IInv, ReadFrame
  <1>6. CASE StaleFrame(frame)
    <2>1. tel' \in Link
      BY <1>1, <1>6 DEF IInv, Link, StaleFrame
    <2> QED BY <1>6, <2>1 DEF IInv, ReadFrame, StaleFrame
  <1>7. CASE LifecycleFrame(frame)
    <2>1. tel' \in Link
      BY <1>1, <1>2, <1>7 DEF IInv, Link, LifecycleFrame
    <2>2. eng' \in Engine(claims)
      BY <1>2, <1>7, TrackStartedType, TrackEndedType DEF IInv, LifecycleFrame
    <2> QED BY <2>1, <2>2 DEF IInv, ReadFrame
  <1>8. CASE GapFrame(frame)
    <2>1. tel' \in Link
      BY <1>1, <1>3, <1>8 DEF IInv, Link, GapFrame
    <2>2. eng' \in Engine(claims)
      BY <1>3, <1>8, SnapshotType DEF IInv, GapFrame
    <2> QED BY <2>1, <2>2 DEF IInv, ReadFrame
  <1> QED BY <1>4, <1>5, <1>6, <1>7, <1>8

LEMMA PollReadsStep == IInv /\ PollReads => IInv'
  <1> SUFFICES ASSUME IInv, PollReads PROVE IInv'
    OBVIOUS
  <1>1. tel' \in Link
    BY PalazzoNowType DEF IInv, Link, PollReads
  <1>2. left' \in [Kinds -> Nat]
    BY SpendType DEF IInv, PollReads, Kinds
  <1> QED BY <1>1, <1>2 DEF IInv, PollReads

LEMMA PollRepliesStep == IInv /\ PollReplies => IInv'
  <1> SUFFICES ASSUME IInv, PollReplies PROVE IInv'
    OBVIOUS
  <1>1. PICK reply \in tel.poll :
          /\ tel' = [tel EXCEPT !.poll = {}, !.last = reply.seq, !.snapped = TRUE]
          /\ eng' = Snapshot(IF eng.status \in {"connecting", "unavailable"}
                             THEN StatusChanged(eng, "polling", TRUE) ELSE eng, reply.track)
          /\ UNCHANGED <<db, palazzo, stop, edit, claims, minted, left>>
    BY DEF PollReplies
  <1>2. reply.track \in Track /\ reply.seq \in Nat
    BY DEF IInv, Link, Frame
  <1>3. tel' \in Link
    BY <1>1, <1>2 DEF IInv, Link
  <1>4. StatusChanged(eng, "polling", TRUE) \in Engine(claims) /\ eng \in Engine(claims)
    BY StatusChangedType DEF IInv, Statuses
  <1>5. eng' \in Engine(claims)
    BY <1>1, <1>2, <1>4, SnapshotType
  <1> QED BY <1>1, <1>3, <1>5 DEF IInv

LEMMA PollFailsStep == IInv /\ PollFails => IInv'
  <1> SUFFICES ASSUME IInv, PollFails PROVE IInv'
    OBVIOUS
  <1>1. tel' \in Link /\ tel.snapped \in BOOLEAN
    BY DEF IInv, Link, PollFails
  <1>2. eng' \in Engine(claims)
    BY <1>1, StatusChangedType DEF IInv, PollFails, Statuses
  <1>3. left' \in [Kinds -> Nat]
    BY SpendType DEF IInv, PollFails, Kinds
  <1> QED BY <1>1, <1>2, <1>3 DEF IInv, PollFails

--------------------------------------------------------------------------------
\* Steps of the operators, and the restart

\* The stored queue, normalized, is backed.
LEMMA StoredBacked == IInv => Stored \in Seq(Backed(claims))
  BY NormalizeQueueBacked DEF IInv, BackedRow, Stored

\* A queue mutation writes one queue into the row and into the engine.
LEMMA QueueWritten ==
    ASSUME IInv, NEW q \in Seq(Backed(claims)),
           db' = [db EXCEPT !.queue = q], eng' = ApplyQueue(eng, q)
    PROVE  eng' \in Engine(claims) /\ db' \in BackedRow(claims)
  BY ApplyQueueType, RowWrites DEF IInv

LEMMA EnqueueStep ==
    ASSUME IInv, NEW item \in Items, Enqueue(item)
    PROVE  IInv'
  <1> DEFINE e == CHOOSE x \in Entries : x \notin minted
             q == Enqueued(Stored, e, item)
  <1>1. e \in Entries
    BY DEF IInv, Enqueue
  <1> HIDE DEF e
  <1>2. q \in Seq(Backed(claims))
    BY <1>1, StoredBacked, EnqueuedBacked
  <1> HIDE DEF q
  <1>3. /\ minted' = minted \cup {e} /\ db' = [db EXCEPT !.queue = q]
        /\ eng' = ApplyQueue(eng, q)
    BY DEF Enqueue, e, q
  <1>4. eng' \in Engine(claims) /\ db' \in BackedRow(claims)
    BY <1>2, <1>3, QueueWritten
  <1>5. left' \in [Kinds -> Nat]
    BY SpendType DEF IInv, Enqueue, Kinds
  <1> QED BY <1>1, <1>3, <1>4, <1>5 DEF IInv, Enqueue

LEMMA RemoveEntryStep ==
    ASSUME IInv, NEW e, RemoveEntry(e)
    PROVE  IInv'
  <1>1. Without(Stored, e) \in Seq(Backed(claims))
    BY StoredBacked, WithoutBacked
  <1>2. eng' \in Engine(claims) /\ db' \in BackedRow(claims)
    BY <1>1, QueueWritten DEF RemoveEntry
  <1>3. left' \in [Kinds -> Nat]
    BY SpendType DEF IInv, RemoveEntry, Kinds
  <1> QED BY <1>2, <1>3 DEF IInv, RemoveEntry

LEMMA ReorderStep == IInv /\ Reorder => IInv'
  <1> SUFFICES ASSUME IInv, Reorder PROVE IInv'
    OBVIOUS
  <1>1. PICK q \in Reorderings(Stored, Playing) :
          db' = [db EXCEPT !.queue = q] /\ eng' = ApplyQueue(eng, q)
    BY DEF Reorder
  <1>2. q \in Seq(Backed(claims))
    BY StoredBacked, ReorderingBacked
  <1>3. eng' \in Engine(claims) /\ db' \in BackedRow(claims)
    BY <1>1, <1>2, QueueWritten
  <1>4. left' \in [Kinds -> Nat]
    BY SpendType DEF IInv, Reorder, Kinds
  <1> QED BY <1>3, <1>4 DEF IInv, Reorder

\* A superseded Stop is still a Stop request.
LEMMA ResumedType ==
    ASSUME stop \in StopRequest
    PROVE  Resumed \in StopRequest
  BY DEF Resumed, NoStop, StopRequest

LEMMA PlayManuallyStep ==
    ASSUME IInv, NEW item \in Items \cup {None}, PlayManually(item)
    PROVE  IInv'
  <1>1. eng' \in Engine(claims)
    BY ManualSongType DEF IInv, PlayManually
  <1>2. stop' \in StopRequest
    BY ResumedType DEF IInv, PlayManually
  <1>3. left' \in [Kinds -> Nat]
    BY SpendType DEF IInv, PlayManually, Kinds
  <1> QED BY <1>1, <1>2, <1>3 DEF IInv, PlayManually

LEMMA StopReadsStep ==
    ASSUME IInv, NEW full, StopReads(full)
    PROVE  IInv'
  <1>1. db.seq \in Sequence
    BY DEF IInv, BackedRow
  <1>2. stop' \in StopRequest
    BY <1>1 DEF StopReads, StopRequest
  <1>3. left' \in [Kinds -> Nat]
    BY SpendType DEF IInv, StopReads, Kinds
  <1> QED BY <1>2, <1>3 DEF IInv, StopReads

LEMMA StopWritesStep == IInv /\ StopWrites => IInv'
  <1> SUFFICES ASSUME IInv, StopWrites PROVE IInv'
    OBVIOUS
  <1>1. PICK read \in stop.read :
          LET seq == [read EXCEPT !.mode = "manual", !.cursor = None]
          IN  db' = [db EXCEPT !.seq = seq] /\ eng' = ApplySequence(eng, seq)
    BY DEF StopWrites
  <1>2. read \in Sequence
    BY DEF IInv, StopRequest
  <1> DEFINE seq == [read EXCEPT !.mode = "manual", !.cursor = None]
  <1>3. seq \in Sequence
    BY <1>2 DEF Sequence
  <1>4. eng' \in Engine(claims)
    BY <1>1, <1>3, ApplySequenceType DEF IInv
  <1>5. db' \in BackedRow(claims)
    BY <1>1, <1>3, RowWrites DEF IInv
  <1>6. stop' \in StopRequest
    BY DEF IInv, StopRequest, StopWrites
  <1> QED BY <1>4, <1>5, <1>6 DEF IInv, StopWrites

LEMMA StopArrivesStep == IInv /\ StopArrives => IInv'
  <1> SUFFICES ASSUME IInv, StopArrives PROVE IInv'
    OBVIOUS
  <1>1. palazzo' \in Appliance /\ tel' \in Link
    BY SwitchType, IdleType DEF IInv, StopArrives
  <1>2. stop' \in StopRequest
    BY DEF IInv, StopRequest, StopArrives
  <1> QED BY <1>1, <1>2 DEF IInv, StopArrives

LEMMA StopSucceedsStep == IInv /\ StopSucceeds => IInv'
  <1> SUFFICES ASSUME IInv, StopSucceeds PROVE IInv'
    OBVIOUS
  <1>1. eng' \in Engine(claims)
    BY StopSongType DEF IInv, StopSucceeds
  <1>2. stop' \in StopRequest
    BY DEF IInv, StopRequest, StopSucceeds, NoStop
  <1> QED BY <1>1, <1>2 DEF IInv, StopSucceeds

LEMMA StopFailsStep == IInv /\ StopFails => IInv'
  <1> SUFFICES ASSUME IInv, StopFails PROVE IInv'
    OBVIOUS
  <1>1. stop' \in StopRequest
    BY DEF StopRequest, StopFails, NoStop
  <1>2. left' \in [Kinds -> Nat]
    BY SpendType DEF IInv, StopFails, Kinds
  <1> QED BY <1>1, <1>2 DEF IInv, StopFails

LEMMA EditReadsStep ==
    ASSUME IInv, NEW saves \in Edits \cup {None}, EditReads(saves)
    PROVE  IInv'
  <1>1. edit' \subseteq BackedEdit(claims)
    BY DEF IInv, EditReads, BackedEdit
  <1>2. left' \in [Kinds -> Nat]
    BY SpendType DEF IInv, EditReads, Kinds
  <1> QED BY <1>1, <1>2 DEF IInv, EditReads

LEMMA EditWritesStep ==
    ASSUME IInv, NEW e, EditWrites(e)
    PROVE  IInv'
  <1>1. /\ e \in BackedEdit(claims) /\ edit' \subseteq BackedEdit(claims)
        /\ e.row \in BackedRow(claims) /\ e.row.seq \in Sequence
        /\ e.row.queue \in Seq(Backed(claims))
    BY DEF IInv, EditWrites, BackedEdit, BackedRow
  <1>2. CASE e.saves = None
    <2>1. db' \in BackedRow(claims)
      BY <1>1, <1>2, RowWrites DEF IInv, EditWrites
    <2> QED BY <1>1, <1>2, <2>1 DEF IInv, EditWrites
  <1>3. CASE e.saves # None
    <2>1. PICK q \in FilterForSequence(NormalizeQueue(e.row.queue), ItemsOf(e.saves)) :
            /\ db' = [seq |-> e.saves, queue |-> q]
            /\ eng' = ApplyQueue(ApplySequence(eng, e.saves), NormalizeQueue(q))
            /\ stop' = Resumed
      BY <1>3 DEF EditWrites
    <2>2. e.saves \in Sequence
      BY <1>1, <1>3, EngineAssumption DEF BackedEdit
    <2>3. q \in Seq(Backed(claims)) /\ NormalizeQueue(q) \in Seq(Backed(claims))
      BY <1>1, NormalizeQueueBacked, FilterBacked
    <2>4. db' \in BackedRow(claims)
      BY <2>1, <2>2, <2>3 DEF BackedRow
    <2>5. eng' \in Engine(claims)
      BY <2>1, <2>2, <2>3, ApplySequenceType, ApplyQueueType DEF IInv
    <2>6. stop' \in StopRequest
      BY <2>1, ResumedType DEF IInv
    <2> QED BY <1>1, <2>4, <2>5, <2>6 DEF IInv, EditWrites
  <1> QED BY <1>2, <1>3

LEMMA RestartStep == IInv /\ Restart => IInv'
  <1> SUFFICES ASSUME IInv, Restart PROVE IInv'
    OBVIOUS
  <1>1. db.seq \in Sequence /\ db.queue \in Seq(Backed(claims)) /\ eng.issued \in Nat
    BY DEF IInv, BackedRow, Engine
  <1>2. eng' \in Engine(claims)
    BY <1>1, BootedType DEF Restart
  <1>3. <<>> \in Seq(Frame)
    BY EmptySeq
  <1>4. tel' \in Link
    BY <1>3 DEF Restart, Offline, Link
  <1>5. stop' \in StopRequest
    BY DEF Restart, NoStop, StopRequest
  <1>6. left' \in [Kinds -> Nat]
    BY SpendType DEF IInv, Restart, Kinds
  <1> QED BY <1>2, <1>4, <1>5, <1>6 DEF IInv, Restart

--------------------------------------------------------------------------------
\* The theorems

\* Every step of the system keeps the inductive invariant.
LEMMA NextIInv == IInv /\ [Next]_vars => IInv'
  <1> SUFFICES ASSUME IInv, [Next]_vars PROVE IInv'
    OBVIOUS
  <1>1. CASE Internal
    BY <1>1, PostCommandStep, CommandArrivesStep, CommandSucceedsStep, RunTaskStep,
       BumperEndsStep DEF Internal
  <1>2. CASE Telemetry
    BY <1>2, StreamOpensStep, ReadFrameStep, PollRepliesStep DEF Telemetry
  <1>3. CASE SongEnds
    BY <1>3, SongEndsStep
  <1>4. CASE Operator
    BY <1>4, EnqueueStep, RemoveEntryStep, ReorderStep, PlayManuallyStep, StopReadsStep,
       StopWritesStep, StopArrivesStep, StopSucceedsStep, EditReadsStep, EditWritesStep
       DEF Operator
  <1>5. CASE Failure
    BY <1>5, CommandFailsStep, TaskFailsStep, StreamFailsStep, StreamClosesStep,
       PollReadsStep, PollFailsStep, StopFailsStep, RestartStep DEF Failure
  <1>6. CASE UNCHANGED vars
    BY <1>6 DEF vars, IInv
  <1> QED BY <1>1, <1>2, <1>3, <1>4, <1>5, <1>6 DEF Next

\* The engine, its row, Palazzo and the telemetry link only ever hold values the
\* code can hold: a release is asked for a real entry, a cursor names an item, no
\* handler leaves a half-built song or task.
THEOREM TypeCorrect == Spec => []TypeOK
  BY InitIInv, NextIInv, IInvImpliesTypeOK, PTL DEF Spec

\* Whatever the interleaving of operators, edits, commands, telemetry, failures
\* and restarts, a song on air for a queue entry carries a request that was
\* persisted for that entry before it was commanded (claimQueueHead, playNext,
\* reconcilePlayingSnapshot).
THEOREM ClaimedFirst == Spec => []ClaimedBeforeCommanded
  BY InitIInv, NextIInv, IInvImpliesClaimed, PTL DEF Spec

--------------------------------------------------------------------------------
\* A frozen engine

\* The commands of a step are old, an operator's, or past their lookup, and no turn is new.
NothingNew ==
    /\ \A c \in eng'.sends : c \in eng.sends \/ c.manual \/ c.stage # "lookup"
    /\ Turns(eng') \subseteq Turns(eng)

\* A task that took its turn or failed leaves the turns behind it.
LEMMA TurnsBehind ==
    ASSUME NEW T, NEW s, NEW t, s.tasks \in Seq(T), s.tasks # <<>>, t.tasks = Tail(s.tasks)
    PROVE  Turns(t) \subseteq Turns(s)
  <1> SUFFICES ASSUME NEW i \in 1..Len(t.tasks)
               PROVE  \E j \in 1..Len(s.tasks) : s.tasks[j] = t.tasks[i]
    BY DEF Turns
  <1>1. Len(t.tasks) = Len(s.tasks) - 1 /\ t.tasks[i] = s.tasks[i + 1]
    BY HeadTailProperties
  <1>2. Len(s.tasks) \in Nat
    BY LenProperties
  <1>3. i + 1 \in 1..Len(s.tasks)
    BY <1>1, <1>2
  <1> QED BY <1>1, <1>3

\* A task that does not play is no turn.
LEMMA NoTurnAdded ==
    ASSUME NEW T, NEW s, NEW t, NEW task \in T, s.tasks \in Seq(T), ~PlaysOn(task),
           t.tasks = Append(s.tasks, task)
    PROVE  Turns(t) \subseteq Turns(s)
  <1> SUFFICES ASSUME NEW i \in 1..Len(t.tasks), PlaysOn(t.tasks[i])
               PROVE  \E j \in 1..Len(s.tasks) : s.tasks[j] = t.tasks[i]
    BY DEF Turns
  <1>1. /\ Len(t.tasks) = Len(s.tasks) + 1 /\ t.tasks[Len(s.tasks) + 1] = task
        /\ \A j \in 1..Len(s.tasks) : t.tasks[j] = s.tasks[j]
    BY AppendProperties
  <1>2. Len(s.tasks) \in Nat
    BY LenProperties
  <1>3. i # Len(s.tasks) + 1
    BY <1>1
  <1>4. i \in 1..Len(s.tasks)
    BY <1>1, <1>2, <1>3
  <1> QED BY <1>1, <1>4

\* A claim given back is no turn.
LEMMA ReleaseTakesNoTurn ==
    ASSUME NEW cl, NEW s \in Engine(cl), NEW entry \in Entries, NEW block \in BOOLEAN
    PROVE  ReleaseClaim(s, entry, block).sends = s.sends /\ Turns(ReleaseClaim(s, entry, block)) \subseteq Turns(s)
  <1> DEFINE task == [op |-> "release", entry |-> entry, block |-> block]
             t == ReleaseClaim(s, entry, block)
  <1>1. s.tasks \in Seq(Task) /\ t.tasks = Append(s.tasks, task) /\ t.sends = s.sends
    BY DEF ReleaseClaim, Engine
  <1>2. task \in Task /\ ~PlaysOn(task)
    BY DEF Task, PlaysOn
  <1> HIDE DEF task, t
  <1>3. Turns(t) \subseteq Turns(s)
    BY <1>1, <1>2, NoTurnAdded
  <1> QED BY <1>1, <1>3 DEF t

\* While frozen, a queue or sequence write starts nothing.
LEMMA FrozenWrites ==
    ASSUME NEW cl, NEW s \in Engine(cl), s.frozen, NEW q \in Seq(Backed(cl)), NEW seq \in Sequence
    PROVE  /\ ApplyQueue(s, q).sends = s.sends
           /\ ApplyQueue(s, q).tasks = s.tasks
           /\ ApplySequence(s, seq).sends = s.sends
           /\ ApplySequence(s, seq).tasks = s.tasks
           /\ ApplySequence(s, seq).frozen
  <1>1. [s EXCEPT !.queue = q, !.blocked = FALSE] \in Engine(cl)
    BY DEF Engine
  <1>2. [s EXCEPT !.seq = NormalizeSequence(seq)] \in Engine(cl)
    BY NormalizeSequenceType DEF Engine
  <1> QED BY <1>1, <1>2 DEF ApplyQueue, ApplySequence, MaybeStart, MayStart, Engine

\* While frozen, the end of a track is only remembered.
LEMMA FrozenEnds ==
    ASSUME NEW cl, NEW s \in Engine(cl), s.frozen, NEW req \in Nat
    PROVE  TrackEnded(s, req).sends = s.sends /\ TrackEnded(s, req).tasks = s.tasks
  BY RememberType DEF TrackEnded, Engine

\* A frozen engine thaws on a status or a snapshot.
LEMMA Thawing ==
    ASSUME NEW cl, NEW s \in Engine(cl), NEW status \in Statuses, NEW b \in BOOLEAN
    PROVE  /\ StatusChanged(s, status, b).sends = s.sends
           /\ StatusChanged(s, status, b).tasks = s.tasks
           /\ status # "unavailable" => ~StatusChanged(s, status, b).frozen
  BY DEF StatusChanged, Engine

--------------------------------------------------------------------------------
\* What the handlers that start something leave alone

\* The queue, the telemetry's flags, the bumpers and the ended requests.
Kept(s, t) ==
    /\ t.queue = s.queue /\ t.frozen = s.frozen /\ t.reconciled = s.reconciled
    /\ t.bumpers = s.bumpers /\ t.ended = s.ended /\ t.foreign = s.foreign

\* One command more, for the request req.
Adds(s, t, req, manual) ==
    \E send : /\ t.sends = s.sends \cup {send}
              /\ send.req = req /\ send.manual = manual /\ send.stage = "lookup"

\* The song becomes active and is commanded, whatever else goes on.
Commanded(s, t, req, entry, manual) ==
    /\ Kept(s, t) /\ t.transitioning = s.transitioning /\ t.tasks = s.tasks
    /\ t.active.req = req /\ t.active.entry = entry
    /\ Adds(s, t, req, manual)

LEMMA CommandKeeps ==
    ASSUME NEW cl, NEW s \in Engine(cl), NEW song \in Claimed(cl), NEW manual \in BOOLEAN
    PROVE  /\ Commanded(s, Command(s, song, manual), song.req, song.entry, manual)
           /\ Command(s, song, manual).issued = s.issued
  <1>1. PICK send : send = [req |-> song.req, item |-> song.item, manual |-> manual, stage |-> "lookup"]
    OBVIOUS
  <1>2. send.req = song.req /\ send.manual = manual /\ send.stage = "lookup"
    BY <1>1
  <1>3. PICK t : t = [s EXCEPT !.active = song, !.pending = @ \cup {song.req},
                               !.sends = @ \cup {send}]
    OBVIOUS
  <1>4. /\ Kept(s, t) /\ t.transitioning = s.transitioning /\ t.tasks = s.tasks
        /\ t.issued = s.issued /\ t.active = song /\ t.sends = s.sends \cup {send}
    BY <1>3 DEF Engine, Kept
  <1>5. Adds(s, t, song.req, manual)
    BY <1>2, <1>4 DEF Adds
  <1>6. t = Command(s, song, manual)
    BY <1>1, <1>3 DEF Command
  <1> QED BY <1>4, <1>5, <1>6 DEF Commanded

\* The claimed head is commanded with the request of its claim.
LEMMA CommandHeadKeeps ==
    ASSUME NEW cl, NEW s \in Engine(cl), s.queue # <<>>, s.queue[1].claim # 0
    PROVE  /\ Commanded(s, CommandHead(s), s.queue[1].claim, s.queue[1].id, FALSE)
           /\ CommandHead(s).issued = s.issued
  <1>1. PICK song : song = [req |-> s.queue[1].claim, item |-> NextItem(s), entry |-> s.queue[1].id]
    OBVIOUS
  <1>2. song \in Claimed(cl)
    BY <1>1, HeadBacked, NextItemType DEF Engine, Backed, Claimed, Song
  <1>3. CommandHead(s) = Command(s, song, FALSE)
    BY <1>1 DEF CommandHead
  <1>4. song.req = s.queue[1].claim /\ song.entry = s.queue[1].id
    BY <1>1
  <1>5. /\ Commanded(s, Command(s, song, FALSE), song.req, song.entry, FALSE)
        /\ Command(s, song, FALSE).issued = s.issued
    BY <1>2, CommandKeeps
  <1> QED BY <1>3, <1>4, <1>5, Zenon

\* A song of the playlist, or of an operator, is commanded with a new request.
LEMMA CommandFreshKeeps ==
    ASSUME NEW cl, NEW s \in Engine(cl), NEW item \in Items \cup {None}, NEW manual \in BOOLEAN,
           NEW t, t = Command([s EXCEPT !.issued = @ + 1],
                              [req |-> s.issued + 1, item |-> item, entry |-> None], manual)
    PROVE  Commanded(s, t, s.issued + 1, None, manual) /\ t.issued = s.issued + 1
  <1>1. PICK n : n = s.issued + 1
    OBVIOUS
  <1>2. n \in Nat
    BY <1>1 DEF Engine
  <1>3. PICK u : u = [s EXCEPT !.issued = n]
    OBVIOUS
  <1>4. /\ u \in Engine(cl) /\ u.issued = n /\ u.sends = s.sends
        /\ Kept(s, u) /\ u.transitioning = s.transitioning /\ u.tasks = s.tasks
    BY <1>2, <1>3 DEF Engine, Kept
  <1>5. PICK song : song = [req |-> n, item |-> item, entry |-> None]
    OBVIOUS
  <1>6. song \in Claimed(cl) /\ song.req = n /\ song.entry = None
    BY <1>2, <1>5 DEF Claimed, Song
  <1>7. t = Command(u, song, manual)
    BY <1>1, <1>3, <1>5
  <1>8. Commanded(u, t, n, None, manual) /\ t.issued = u.issued
    BY <1>4, <1>6, <1>7, CommandKeeps
  <1>9. Adds(s, t, n, manual)
    BY <1>4, <1>8 DEF Adds, Commanded
  <1>10. Commanded(s, t, n, None, manual) /\ t.issued = n
    BY <1>4, <1>8, <1>9 DEF Commanded, Kept
  <1> QED BY <1>1, <1>10

LEMMA CommandPlaylistKeeps ==
    ASSUME NEW cl, NEW s \in Engine(cl)
    PROVE  /\ Commanded(s, CommandPlaylist(s), s.issued + 1, None, FALSE)
           /\ CommandPlaylist(s).issued = s.issued + 1
  <1>1. PICK item \in Items \cup {None} : item = NextItem(s)
    BY NextItemType
  <1> QED BY <1>1, CommandFreshKeeps DEF CommandPlaylist

\* Asking for the claim of a waiting head, or for the release of an entry, starts a transition and
\* no song.
Asks(s, t, task) ==
    /\ Kept(s, t) /\ t.active = s.active /\ t.sends = s.sends
    /\ t.transitioning /\ t.tasks = Append(s.tasks, task)

LEMMA BeginClaimKeeps ==
    ASSUME NEW cl, NEW s \in Engine(cl)
    PROVE  /\ Asks(s, BeginClaim(s), [op |-> "claim", entry |-> s.queue[1].id, req |-> s.issued + 1])
           /\ BeginClaim(s).issued = s.issued + 1
  <1>1. PICK task : task = [op |-> "claim", entry |-> s.queue[1].id, req |-> s.issued + 1]
    OBVIOUS
  <1>2. BeginClaim(s) = [s EXCEPT !.transitioning = TRUE, !.issued = @ + 1,
                                  !.tasks = Append(@, task)]
    BY <1>1 DEF BeginClaim
  <1>3. Asks(s, BeginClaim(s), task) /\ BeginClaim(s).issued = s.issued + 1
    BY <1>2 DEF Asks, Kept, Engine
  <1> QED BY <1>1, <1>3

LEMMA ReleaseClaimKeeps ==
    ASSUME NEW cl, NEW s \in Engine(cl), NEW entry, NEW block
    PROVE  /\ Asks(s, ReleaseClaim(s, entry, block), [op |-> "release", entry |-> entry, block |-> block])
           /\ ReleaseClaim(s, entry, block).issued = s.issued
  <1>1. PICK task : task = [op |-> "release", entry |-> entry, block |-> block]
    OBVIOUS
  <1>2. ReleaseClaim(s, entry, block) = [s EXCEPT !.transitioning = TRUE, !.tasks = Append(@, task)]
    BY <1>1 DEF ReleaseClaim
  <1>3. Asks(s, ReleaseClaim(s, entry, block), task) /\ ReleaseClaim(s, entry, block).issued = s.issued
    BY <1>2 DEF Asks, Kept, Engine
  <1> QED BY <1>1, <1>3

\* The four things playNext does.
LEMMA PlayNextCases ==
    ASSUME NEW s
    PROVE  \/ PlayNext(s) = s
           \/ s.queue # <<>> /\ s.queue[1].claim = 0 /\ PlayNext(s) = BeginClaim(s)
           \/ s.queue # <<>> /\ s.queue[1].claim # 0 /\ PlayNext(s) = CommandHead(s)
           \/ s.queue = <<>> /\ PlayNext(s) = CommandPlaylist(s)
  BY DEF PlayNext, HeadWaiting

\* What all four leave alone.
LEMMA PlayNextKeeps ==
    ASSUME NEW cl, NEW s \in Engine(cl)
    PROVE  Kept(s, PlayNext(s))
  <1>1. CASE PlayNext(s) = s
    BY <1>1 DEF Kept
  <1>2. CASE s.queue # <<>> /\ s.queue[1].claim = 0 /\ PlayNext(s) = BeginClaim(s)
    BY <1>2, BeginClaimKeeps DEF Asks
  <1>3. CASE s.queue # <<>> /\ s.queue[1].claim # 0 /\ PlayNext(s) = CommandHead(s)
    BY <1>3, CommandHeadKeeps DEF Commanded
  <1>4. CASE PlayNext(s) = CommandPlaylist(s)
    BY <1>4, CommandPlaylistKeeps DEF Commanded
  <1> QED BY <1>1, <1>2, <1>3, <1>4, PlayNextCases

\* The end of the active song: nothing is active, and its continuation waits for the lock, with the
\* entry it consumes if it has one, or for the bumper.
Ends(s, t, song) ==
    /\ t.queue = s.queue /\ t.frozen = s.frozen /\ t.reconciled = s.reconciled /\ t.ended = s.ended
    /\ t.sends = s.sends /\ t.issued = s.issued
    /\ t.active = NoSong /\ t.transitioning
    /\ \/ \E task : /\ t.tasks = Append(s.tasks, task) /\ t.bumpers = s.bumpers
                    /\ task.op \in {"consume", "save"}
                    /\ task.op = "consume" <=> song.entry # None
                    /\ task.cont.entry = song.entry /\ task.cont.req = song.req
       \/ /\ song.entry = None /\ t.tasks = s.tasks
          /\ \E c : t.bumpers = s.bumpers \cup {c}

LEMMA AdvancePastKeeps ==
    ASSUME NEW cl, NEW s \in Engine(cl), NEW song \in Song
    PROVE  Ends(s, AdvancePast(s, song), song)
  <1> DEFINE next == SequenceAfter(s, song)
  <1>1. PICK cont : cont = [req |-> song.req, entry |-> song.entry, next |-> next,
                            successor |-> next.mode = "auto" /\ next.cursor # None, saved |-> FALSE]
    OBVIOUS
  <1>2. cont.req = song.req /\ cont.entry = song.entry
    BY <1>1
  <1>3. PICK u : u = [s EXCEPT !.active = NoSong, !.pending = {}, !.foreign = FALSE,
                               !.transitioning = TRUE]
    OBVIOUS
  <1>4. /\ u \in Engine(cl) /\ u.active = NoSong /\ u.transitioning
        /\ u.queue = s.queue /\ u.frozen = s.frozen /\ u.reconciled = s.reconciled
        /\ u.ended = s.ended /\ u.sends = s.sends /\ u.issued = s.issued
        /\ u.tasks = s.tasks /\ u.bumpers = s.bumpers
    BY <1>3, NoSongClaimed DEF Engine
  <1>5. AdvancePast(s, song) = BeginContinuation(u, cont)
    BY <1>1, <1>3 DEF AdvancePast
  <1>6. ASSUME NEW op \in {"consume", "save"}, op = "consume" <=> song.entry # None,
               NEW v \in Engine(cl), v = u \/ v = [u EXCEPT !.seq = cont.next],
               AdvancePast(s, song) = [v EXCEPT !.tasks = Append(@, [op |-> op, cont |-> cont])]
        PROVE  Ends(s, AdvancePast(s, song), song)
    <2>1. PICK task : task = [op |-> op, cont |-> cont]
      OBVIOUS
    <2>2. task.op = op /\ task.cont = cont
      BY <2>1
    <2>3. PICK t : t = [v EXCEPT !.tasks = Append(@, task)]
      OBVIOUS
    <2>4. /\ t.queue = v.queue /\ t.frozen = v.frozen /\ t.reconciled = v.reconciled
          /\ t.ended = v.ended /\ t.sends = v.sends /\ t.issued = v.issued
          /\ t.active = v.active /\ t.transitioning = v.transitioning
          /\ t.tasks = Append(v.tasks, task) /\ t.bumpers = v.bumpers
      BY <2>3, <1>6 DEF Engine
    <2>5. /\ v.queue = u.queue /\ v.frozen = u.frozen /\ v.reconciled = u.reconciled
          /\ v.ended = u.ended /\ v.sends = u.sends /\ v.issued = u.issued
          /\ v.active = u.active /\ v.transitioning = u.transitioning
          /\ v.tasks = u.tasks /\ v.bumpers = u.bumpers
      BY <1>4, <1>6, ZenonT(60) DEF Engine
    <2>6. task.cont.entry = song.entry /\ task.cont.req = song.req
      BY <1>2, <2>2
    <2>7. AdvancePast(s, song) = t
      BY <1>6, <2>1, <2>3
    <2>8. /\ t.tasks = Append(s.tasks, task) /\ t.bumpers = s.bumpers
          /\ task.op \in {"consume", "save"}
          /\ task.op = "consume" <=> song.entry # None
      BY <1>4, <1>6, <2>2, <2>4, <2>5
    <2>9. /\ t.queue = s.queue /\ t.frozen = s.frozen /\ t.reconciled = s.reconciled /\ t.ended = s.ended
          /\ t.sends = s.sends /\ t.issued = s.issued /\ t.active = NoSong /\ t.transitioning
      BY <1>4, <2>4, <2>5
    <2>10. Ends(s, t, song)
      BY <2>6, <2>8, <2>9 DEF Ends
    <2> QED BY <2>7, <2>10
  <1>7. CASE cont.entry # None
    <2>1. AdvancePast(s, song) = [u EXCEPT !.tasks = Append(@, [op |-> "consume", cont |-> cont])]
      BY <1>5, <1>7 DEF BeginContinuation
    <2> QED BY <1>2, <1>4, <1>6, <1>7, <2>1
  <1>8. CASE cont.entry = None
    <2>1. PICK v : v = [u EXCEPT !.seq = cont.next]
      OBVIOUS
    <2>2. cont.next \in Sequence
      BY <1>1, SequenceAfterType
    <2>3. /\ v \in Engine(cl) /\ v.active = NoSong /\ v.transitioning
          /\ v.queue = s.queue /\ v.frozen = s.frozen /\ v.reconciled = s.reconciled
          /\ v.ended = s.ended /\ v.sends = s.sends /\ v.issued = s.issued
          /\ v.tasks = s.tasks /\ v.bumpers = s.bumpers
      BY <1>4, <2>1, <2>2 DEF Engine
    <2>4. \/ AdvancePast(s, song) = [v EXCEPT !.tasks = Append(@, [op |-> "save", cont |-> cont])]
          \/ AdvancePast(s, song) = [v EXCEPT !.bumpers = @ \cup {cont}]
      BY <1>5, <1>8, <2>1 DEF BeginContinuation
    <2>5. CASE AdvancePast(s, song) = [v EXCEPT !.bumpers = @ \cup {cont}]
      <3>1. PICK t : t = [v EXCEPT !.bumpers = @ \cup {cont}]
        OBVIOUS
      <3>2. /\ t.queue = v.queue /\ t.frozen = v.frozen /\ t.reconciled = v.reconciled
            /\ t.ended = v.ended /\ t.sends = v.sends /\ t.issued = v.issued
            /\ t.active = v.active /\ t.transitioning = v.transitioning
            /\ t.tasks = v.tasks /\ t.bumpers = v.bumpers \cup {cont}
        BY <3>1, <2>3 DEF Engine
      <3> QED BY <1>2, <1>8, <2>3, <2>5, <3>1, <3>2 DEF Ends
    <2> QED BY <1>2, <1>6, <1>8, <2>1, <2>3, <2>4, <2>5
  <1> QED BY <1>7, <1>8

\* The end of a track is ignored, remembered, or it ends the active song.
LEMMA TrackEndedCases ==
    ASSUME NEW cl, NEW s \in Engine(cl), NEW req \in Nat, NEW t, t = TrackEnded(s, req)
    PROVE  \/ (req = 0 \/ Remembers(s, req)) /\ t = s
           \/ /\ s.active.req # req \/ s.frozen
              /\ t.queue = s.queue /\ t.frozen = s.frozen /\ t.reconciled = s.reconciled
              /\ t.sends = s.sends /\ t.issued = s.issued /\ t.active = s.active
              /\ t.transitioning = s.transitioning /\ t.tasks = s.tasks /\ t.bumpers = s.bumpers
              /\ t.ended = Remember(s.ended, req)
           \/ /\ s.active.req = req /\ req # 0 /\ ~Remembers(s, req) /\ ~s.frozen
              /\ \E u \in Engine(cl) :
                    /\ Ends(u, t, s.active)
                    /\ u.queue = s.queue /\ u.frozen = s.frozen /\ u.reconciled = s.reconciled
                    /\ u.sends = s.sends /\ u.issued = s.issued
                    /\ u.tasks = s.tasks /\ u.bumpers = s.bumpers
                    /\ u.ended = Remember(s.ended, req)
  <1>1. PICK u : u = [s EXCEPT !.ended = Remember(@, req)]
    OBVIOUS
  <1>2. /\ u \in Engine(cl) /\ u.ended = Remember(s.ended, req)
        /\ u.queue = s.queue /\ u.frozen = s.frozen /\ u.reconciled = s.reconciled
        /\ u.sends = s.sends /\ u.issued = s.issued /\ u.active = s.active
        /\ u.transitioning = s.transitioning /\ u.tasks = s.tasks /\ u.bumpers = s.bumpers
    BY <1>1, RememberType DEF Engine
  <1>3. CASE req = 0 \/ Remembers(s, req)
    BY <1>3 DEF TrackEnded
  <1>4. CASE ~(req = 0 \/ Remembers(s, req)) /\ s.frozen
    BY <1>1, <1>2, <1>4 DEF TrackEnded
  <1>5. CASE ~(req = 0 \/ Remembers(s, req)) /\ ~s.frozen /\ s.active.req = req
    <2>1. t = AdvancePast(u, s.active)
      BY <1>1, <1>5 DEF TrackEnded
    <2>2. s.active \in Song
      BY DEF Engine, Claimed
    <2>3. Ends(u, t, s.active)
      BY <1>2, <2>1, <2>2, AdvancePastKeeps
    <2> QED BY <1>2, <1>5, <2>3
  <1>6. CASE ~(req = 0 \/ Remembers(s, req)) /\ ~s.frozen /\ s.active.req # req
    <2>1. t = [u EXCEPT !.pending = @ \ {req}, !.foreign = @ /\ s.active # NoSong]
      BY <1>1, <1>6 DEF TrackEnded
    <2>2. /\ t.queue = u.queue /\ t.frozen = u.frozen /\ t.reconciled = u.reconciled
          /\ t.sends = u.sends /\ t.issued = u.issued /\ t.active = u.active
          /\ t.transitioning = u.transitioning /\ t.tasks = u.tasks /\ t.bumpers = u.bumpers
          /\ t.ended = u.ended
      BY <1>2, <2>1 DEF Engine
    <2> QED BY <1>2, <1>6, <2>2
  <1> QED BY <1>3, <1>4, <1>5, <1>6

\* A snapshot of the telemetry thaws the engine.
LEMMA SnapshotThaws ==
    ASSUME NEW cl, NEW s \in Engine(cl), NEW track \in Track
    PROVE  ~Snapshot(s, track).frozen
  <1>1. PICK u : u = [s EXCEPT !.reconciled = TRUE, !.frozen = FALSE]
    OBVIOUS
  <1>2. u \in Engine(cl) /\ ~u.frozen
    BY <1>1 DEF Engine
  <1>3. CASE track.req # 0
    <2>1. Snapshot(s, track) = ReconcilePlaying(u, track)
      BY <1>1, <1>3 DEF Snapshot
    <2>2. ~ReconcilePlaying(u, track).frozen
      BY <1>2 DEF ReconcilePlaying, Engine
    <2> QED BY <2>1, <2>2
  <1>4. CASE track.req = 0 /\ u.active # NoSong
    <2>1. Snapshot(s, track) = TrackEnded(u, u.active.req)
      BY <1>1, <1>4 DEF Snapshot, ReconcileIdle
    <2>2. u.active.req \in Nat
      BY <1>2 DEF Engine, Claimed, Song
    <2> QED BY <1>2, <2>1, <2>2, TrackEndedCases DEF Ends
  <1>5. CASE track.req = 0 /\ u.active = NoSong
    <2>1. PICK v : v = [u EXCEPT !.pending = {}, !.foreign = FALSE]
      OBVIOUS
    <2>2. v \in Engine(cl) /\ ~v.frozen
      BY <1>2, <2>1 DEF Engine
    <2>3. Snapshot(s, track) = MaybeStart(v)
      BY <1>1, <1>5, <2>1 DEF Snapshot, ReconcileIdle
    <2> QED BY <2>2, <2>3, PlayNextKeeps DEF MaybeStart, Kept
  <1> QED BY <1>3, <1>4, <1>5

\* The tasks that do not play start nothing while frozen and ask for no turn.
LEMMA FrozenTask ==
    ASSUME IInv, RunTask, ~PlaysOn(NextTask), eng.frozen
    PROVE  eng'.sends = eng.sends /\ Turns(eng') \subseteq Turns(eng)
  <1>1. /\ NextTask \in Task /\ Unlocked \in Engine(claims) /\ Stored \in Seq(Backed(claims))
        /\ eng \in Engine(claims)
    BY TaskReads DEF RunTask, IInv
  <1>2. Unlocked.frozen /\ Unlocked.sends = eng.sends /\ Unlocked.tasks = Tail(eng.tasks)
    BY <1>1 DEF Unlocked, Engine
  <1>3. Unlocked.seq \in Sequence
    BY <1>1 DEF Engine
  <1>4. ASSUME eng'.sends = eng.sends, eng'.tasks = Unlocked.tasks
        PROVE  eng'.sends = eng.sends /\ Turns(eng') \subseteq Turns(eng)
    <2>1. eng.tasks \in Seq(Task) /\ eng.tasks # <<>>
      BY <1>1 DEF RunTask, Engine
    <2> QED BY <1>2, <1>4, <2>1, TurnsBehind
  <1>5. CASE RunRelease
    <2>1. PICK q, t : /\ q = Released(Stored, NextTask.entry) /\ t = ApplyQueue(Unlocked, q)
      OBVIOUS
    <2>2. t \in Engine(claims) /\ t.sends = eng.sends /\ t.tasks = Unlocked.tasks
      BY <1>1, <1>2, <1>3, <2>1, ReleasedBacked, ApplyQueueType, FrozenWrites
    <2>3. eng'.sends = eng.sends /\ eng'.tasks = Unlocked.tasks
      BY <1>5, <2>1, <2>2 DEF RunRelease, ClaimReleased, Engine
    <2> QED BY <1>4, <2>3
  <1>6. CASE RunConsume
    <2>1. PICK q, t : /\ q = Without(Stored, NextTask.cont.entry) /\ t = ApplyQueue(Unlocked, q)
      OBVIOUS
    <2>2. t \in Engine(claims) /\ t.sends = eng.sends /\ t.tasks = Unlocked.tasks
      BY <1>1, <1>2, <1>3, <2>1, WithoutBacked, ApplyQueueType, FrozenWrites
    <2>3. eng'.sends = eng.sends /\ eng'.tasks = Unlocked.tasks
      BY <1>6, <2>1, <2>2 DEF RunConsume, Engine
    <2> QED BY <1>4, <2>3
  <1>7. CASE RunSave
    <2>1. NextTask.op = "save" /\ NextTask.cont.next \in Sequence
      BY <1>1, <1>7 DEF RunSave, PlaysOn, Task, Continuation
    <2>2. PICK u : u = [Unlocked EXCEPT !.seq = NextTask.cont.next]
      OBVIOUS
    <2>3. /\ u \in Engine(claims) /\ u.frozen /\ u.sends = eng.sends /\ u.tasks = Unlocked.tasks
          /\ u.queue \in Seq(Backed(claims))
      BY <1>1, <1>2, <2>1, <2>2, WithSequence DEF Engine
    <2>4. PICK t : t = ApplyQueue(u, u.queue)
      OBVIOUS
    <2>5. t \in Engine(claims) /\ t.sends = eng.sends /\ t.tasks = Unlocked.tasks
      BY <1>3, <2>3, <2>4, ApplyQueueType, FrozenWrites
    <2>6. u.queue = Unlocked.queue /\ t = CursorSaved(Unlocked, NextTask.cont.next)
      BY <1>1, <2>2, <2>4 DEF CursorSaved, Engine
    <2>7. eng'.sends = eng.sends /\ eng'.tasks = Unlocked.tasks
      BY <1>7, <2>1, <2>5, <2>6 DEF RunSave, Engine
    <2> QED BY <1>4, <2>7
  <1>8. ~RunClaim
    BY DEF RunClaim, PlaysOn
  <1> QED BY <1>5, <1>6, <1>7, <1>8 DEF RunTask

\* No step but a turn starts an automatic command, or asks for a turn, in an engine that stays frozen.
LEMMA FrozenStep ==
    ASSUME IInv, [Next]_vars, eng.frozen, eng'.frozen, ~(RunTask /\ PlaysOn(NextTask))
    PROVE  NothingNew
  <1>1. eng \in Engine(claims) /\ eng.sends \in SUBSET Send
    BY DEF IInv, Engine
  <1>2. ASSUME eng'.sends = eng.sends, eng'.tasks = eng.tasks PROVE NothingNew
    BY <1>2 DEF NothingNew, Turns
  <1>3. CASE \E c \in eng.sends : PostCommand(c) \/ CommandArrives(c) \/ CommandSucceeds(c)
    <2>1. PICK c \in eng.sends : PostCommand(c) \/ CommandArrives(c) \/ CommandSucceeds(c)
      BY <1>3
    <2>2. ASSUME NEW stage \in {"posted", "accepted"},
                 eng' = [eng EXCEPT !.sends = (@ \ {c}) \cup {[c EXCEPT !.stage = stage]}]
          PROVE  NothingNew
      <3>1. PICK d : d = [c EXCEPT !.stage = stage]
        OBVIOUS
      <3>2. d.stage # "lookup"
        BY <1>1, <3>1 DEF Send
      <3>3. eng'.sends = (eng.sends \ {c}) \cup {d} /\ eng'.tasks = eng.tasks
        BY <1>1, <2>2, <3>1 DEF Engine
      <3> QED BY <3>2, <3>3 DEF NothingNew, Turns
    <2>3. ASSUME eng' = [eng EXCEPT !.sends = @ \ {c}]
          PROVE  NothingNew
      <3>1. eng'.sends = eng.sends \ {c} /\ eng'.tasks = eng.tasks
        BY <1>1, <2>3 DEF Engine
      <3> QED BY <3>1 DEF NothingNew, Turns
    <2>4. CASE PostCommand(c)
      <3>1. CASE eng.active.req = c.req
        BY <2>2, <2>4, <3>1 DEF PostCommand
      <3>2. CASE eng.active.req # c.req
        BY <2>3, <2>4, <3>2 DEF PostCommand
      <3> QED BY <3>1, <3>2
    <2>5. CASE CommandArrives(c)
      BY <2>2, <2>5 DEF CommandArrives
    <2>6. CASE CommandSucceeds(c)
      BY <2>3, <2>6 DEF CommandSucceeds
    <2> QED BY <2>1, <2>4, <2>5, <2>6
  <1>4. CASE \E cont \in eng.bumpers : BumperEnds(cont)
    <2>1. PICK cont \in eng.bumpers : BumperEnds(cont)
      BY <1>4
    <2>2. PICK u : u = [eng EXCEPT !.bumpers = @ \ {cont}]
      OBVIOUS
    <2>3. u.frozen /\ u.sends = eng.sends /\ u.tasks = eng.tasks
      BY <1>1, <2>2 DEF Engine
    <2>4. eng' = AfterBumper(u, cont)
      BY <2>1, <2>2 DEF BumperEnds
    <2> QED BY <1>2, <2>3, <2>4 DEF AfterBumper
  <1>5. CASE SongEnds \/ StreamOpens \/ PollReads \/ UNCHANGED vars
    BY <1>2, <1>5 DEF SongEnds, StreamOpens, PollReads, vars
  <1>6. CASE ReadFrame
    <2>1. Head(tel.wire) \in Frame
      BY <1>6, HeadTailProperties DEF ReadFrame, IInv, Link
    <2>2. PICK frame : frame = Head(tel.wire)
      OBVIOUS
    <2>3. frame.track \in Track /\ frame.track.req \in Nat /\ palazzo.onAir \in Track
      BY <2>1, <2>2 DEF Frame, Track, IInv, Appliance
    <2>4. CASE SnapshotFrame(frame)
      <3>1. PICK track \in Track : eng' = Snapshot(StatusChanged(eng, "connected", TRUE), track)
        BY <2>3, <2>4 DEF SnapshotFrame, PalazzoNow
      <3>2. StatusChanged(eng, "connected", TRUE) \in Engine(claims)
        BY <1>1, StatusChangedType DEF Statuses
      <3> QED BY <3>1, <3>2, SnapshotThaws
    <2>5. CASE StaleFrame(frame)
      BY <1>2, <2>5 DEF StaleFrame
    <2>6. CASE LifecycleFrame(frame)
      <3>1. eng' = TrackEnded(eng, frame.track.req) \/ eng' = TrackStarted(eng, frame.track.req)
        BY <2>6 DEF LifecycleFrame
      <3>2. /\ TrackStarted(eng, frame.track.req).sends = eng.sends
            /\ TrackStarted(eng, frame.track.req).tasks = eng.tasks
        BY <1>1 DEF TrackStarted, Engine
      <3> QED BY <1>1, <1>2, <2>3, <3>1, <3>2, FrozenEnds
    <2>7. CASE GapFrame(frame)
      BY <1>1, <2>3, <2>7, SnapshotThaws DEF GapFrame
    <2> QED BY <1>6, <2>2, <2>4, <2>5, <2>6, <2>7 DEF ReadFrame
  <1>7. CASE PollReplies
    <2>1. PICK reply \in tel.poll :
             \/ eng' = Snapshot(eng, reply.track)
             \/ eng' = Snapshot(StatusChanged(eng, "polling", TRUE), reply.track)
      BY <1>7 DEF PollReplies
    <2>2. reply.track \in Track
      BY DEF IInv, Link, Frame
    <2>3. StatusChanged(eng, "polling", TRUE) \in Engine(claims)
      BY <1>1, StatusChangedType DEF Statuses
    <2> QED BY <1>1, <2>1, <2>2, <2>3, SnapshotThaws
  <1>8. CASE StreamFails \/ StreamCloses \/ PollFails
    <2>1. tel.snapped \in BOOLEAN
      BY DEF IInv, Link
    <2> QED BY <1>1, <1>2, <1>8, <2>1, Thawing DEF StreamFails, StreamCloses, PollFails, Statuses
  <1>9. CASE \E c \in eng.sends : CommandFails(c)
    <2>1. PICK c \in eng.sends : eng' = CommandFailed([eng EXCEPT !.sends = @ \ {c}], c.req)
      BY <1>9 DEF CommandFails
    <2>2. PICK s : s = [eng EXCEPT !.sends = @ \ {c}]
      OBVIOUS
    <2>3. s \in Engine(claims) /\ s.sends = eng.sends \ {c} /\ s.tasks = eng.tasks
      BY <1>1, <2>2, WithoutSend DEF Engine
    <2>4. PICK u : u = [[s EXCEPT !.pending = @ \ {c.req}] EXCEPT !.active = NoSong]
      OBVIOUS
    <2>5. u \in Engine(claims) /\ u.sends = s.sends /\ u.tasks = s.tasks
      BY <2>3, <2>4 DEF Engine, Claimed, NoSong, Song
    <2>6. CASE s.active.req = c.req /\ s.active.entry # None
      <3>1. s.active.entry \in Entries
        BY <2>3, <2>6 DEF Engine, Claimed, Song
      <3>2. eng' = ReleaseClaim(u, s.active.entry, FALSE)
        BY <2>1, <2>2, <2>4, <2>6 DEF CommandFailed
      <3>3. eng'.sends = u.sends /\ Turns(eng') \subseteq Turns(u)
        BY <2>5, <3>1, <3>2, ReleaseTakesNoTurn
      <3>4. Turns(u) = Turns(eng)
        BY <2>3, <2>5 DEF Turns
      <3> QED BY <2>3, <2>5, <3>3, <3>4 DEF NothingNew
    <2>7. CASE ~(s.active.req = c.req /\ s.active.entry # None)
      <3>1. eng'.sends = s.sends /\ eng'.tasks = s.tasks
        BY <2>1, <2>2, <2>3, <2>4, <2>5, <2>7 DEF CommandFailed, Engine
      <3> QED BY <2>3, <3>1 DEF NothingNew, Turns
    <2> QED BY <2>6, <2>7
  <1>10. CASE TaskFails
    <2>1. eng.tasks \in Seq(Task) /\ eng.tasks # <<>>
      BY <1>1, <1>10 DEF TaskFails, Engine
    <2>2. eng'.sends = eng.sends /\ eng'.tasks = Tail(eng.tasks)
      BY <1>1, <1>10 DEF TaskFails, BlockQueue, Unlocked, Engine
    <2> QED BY <2>1, <2>2, TurnsBehind DEF NothingNew
  <1>11. CASE Restart
    BY <1>11 DEF Restart, Booted
  <1>12. CASE StopReads(TRUE) \/ StopReads(FALSE) \/ StopArrives \/ StopFails
              \/ \E saves \in Edits \cup {None} : EditReads(saves)
    BY <1>2, <1>12 DEF StopReads, StopArrives, StopFails, EditReads
  <1>13. CASE StopWrites
    <2>1. PICK read \in stop.read : eng' = ApplySequence(eng, [read EXCEPT !.mode = "manual", !.cursor = None])
      BY <1>13 DEF StopWrites
    <2>2. [read EXCEPT !.mode = "manual", !.cursor = None] \in Sequence
      BY <2>1 DEF IInv, StopRequest, Sequence
    <2>3. eng.queue \in Seq(Backed(claims))
      BY <1>1 DEF Engine
    <2> QED BY <1>1, <1>2, <2>1, <2>2, <2>3, FrozenWrites
  <1>14. CASE StopSucceeds
    <2>1. PICK t : t = [eng EXCEPT !.active = NoSong, !.pending = {}, !.foreign = FALSE,
                                   !.transitioning = FALSE]
      OBVIOUS
    <2>2. t \in Engine(claims) /\ t.sends = eng.sends /\ t.tasks = eng.tasks
      BY <1>1, <2>1 DEF Engine, Claimed, NoSong, Song
    <2>3. eng.active.entry \in Entries \cup {None}
      BY <1>1 DEF Engine, Claimed, Song
    <2>4. CASE eng.active.entry = None
      BY <1>2, <1>14, <2>1, <2>2, <2>4 DEF StopSucceeds, StopSong
    <2>5. CASE eng.active.entry # None
      <3>1. eng' = ReleaseClaim(t, eng.active.entry, FALSE)
        BY <1>14, <2>1, <2>5 DEF StopSucceeds, StopSong
      <3>2. eng'.sends = t.sends /\ Turns(eng') \subseteq Turns(t)
        BY <2>2, <2>3, <2>5, <3>1, ReleaseTakesNoTurn
      <3>3. Turns(t) = Turns(eng)
        BY <2>2 DEF Turns
      <3> QED BY <2>2, <3>2, <3>3 DEF NothingNew
    <2> QED BY <2>4, <2>5
  <1>15. CASE \E item \in Items \cup {None} : PlayManually(item)
    <2>1. PICK item \in Items \cup {None} : eng' = ManualSong(eng, item)
      BY <1>15 DEF PlayManually
    <2>2. eng.issued \in Nat
      BY <1>1 DEF Engine
    <2>3. PICK t : t = ManualSong(eng, item)
      OBVIOUS
    <2>4. Commanded(eng, t, eng.issued + 1, None, TRUE)
      BY <1>1, <2>3, CommandFreshKeeps DEF ManualSong
    <2>5. Adds(eng, eng', eng.issued + 1, TRUE) /\ eng'.tasks = eng.tasks
      BY <2>1, <2>3, <2>4 DEF Commanded
    <2> QED BY <2>5 DEF Adds, NothingNew, Turns
  <1>16. CASE \/ \E item \in Items : Enqueue(item)
              \/ \E e \in Entries : RemoveEntry(e)
              \/ Reorder
    <2>1. PICK q : eng' = ApplyQueue(eng, q) /\ q \in Seq(Backed(claims))
      <3>1. CASE \E item \in Items : Enqueue(item)
        <4>1. PICK item \in Items : Enqueue(item)
          BY <3>1
        <4>2. PICK e : e = CHOOSE x \in Entries : x \notin minted
          OBVIOUS
        <4>3. e \in Entries /\ eng' = ApplyQueue(eng, Enqueued(Stored, e, item))
          BY <4>1, <4>2 DEF IInv, Enqueue
        <4> QED BY <4>3, StoredBacked, EnqueuedBacked
      <3>2. CASE \E e \in Entries : RemoveEntry(e)
        BY <3>2, StoredBacked, WithoutBacked DEF RemoveEntry
      <3>3. CASE Reorder
        BY <3>3, StoredBacked, ReorderingBacked DEF Reorder
      <3> QED BY <1>16, <3>1, <3>2, <3>3
    <2>2. eng.seq \in Sequence
      BY <1>1 DEF Engine
    <2> QED BY <1>1, <1>2, <2>1, <2>2, FrozenWrites
  <1>17. CASE \E e \in edit : EditWrites(e)
    <2>1. PICK e \in edit : EditWrites(e)
      BY <1>17
    <2>2. CASE e.saves = None
      BY <1>2, <2>1, <2>2 DEF EditWrites
    <2>3. CASE e.saves # None
      <3>1. e.row.queue \in Seq(Backed(claims)) /\ e.saves \in Sequence
        BY <2>1, <2>3, EngineAssumption DEF IInv, BackedEdit, BackedRow
      <3>2. PICK q \in FilterForSequence(NormalizeQueue(e.row.queue), ItemsOf(e.saves)) :
               eng' = ApplyQueue(ApplySequence(eng, e.saves), NormalizeQueue(q))
        BY <2>1, <2>3 DEF EditWrites
      <3>3. NormalizeQueue(q) \in Seq(Backed(claims))
        BY <3>1, <3>2, NormalizeQueueBacked, FilterBacked
      <3>4. eng.queue \in Seq(Backed(claims))
        BY <1>1 DEF Engine
      <3>5. PICK s : s = ApplySequence(eng, e.saves)
        OBVIOUS
      <3>6. s \in Engine(claims) /\ s.frozen /\ s.sends = eng.sends /\ s.tasks = eng.tasks
        BY <1>1, <3>1, <3>4, <3>5, FrozenWrites, ApplySequenceType
      <3>7. /\ ApplyQueue(s, NormalizeQueue(q)).sends = s.sends
            /\ ApplyQueue(s, NormalizeQueue(q)).tasks = s.tasks
        BY <3>1, <3>3, <3>6, FrozenWrites
      <3> QED BY <1>2, <3>2, <3>5, <3>6, <3>7
    <2> QED BY <2>2, <2>3
  <1>18. CASE RunTask
    BY <1>18, FrozenTask DEF NothingNew
  <1> QED BY <1>3, <1>4, <1>5, <1>6, <1>7, <1>8, <1>9, <1>10, <1>11, <1>12, <1>13, <1>14, <1>15,
             <1>16, <1>17, <1>18 DEF Next, Internal, Telemetry, Operator, Failure

\* While the telemetry is unavailable (frozen), an automatic command starts, and a turn to play is
\* asked for, only by a turn that gets the lock meanwhile: every other path asks first, among them
\* maybeStartSequence, the continuations of a release and of a removal, the bumper's and the end of a track.
THEOREM FrozenKeepsOut == Spec => FrozenTakesNoTurn
  <1>1. IInv /\ [Next]_vars
          => [eng.frozen /\ eng'.frozen =>
                \/ RunTask /\ PlaysOn(NextTask)
                \/ NewCommands = {} /\ Turns(eng') \subseteq Turns(eng)]_vars
    BY FrozenStep DEF NothingNew, NewCommands
  <1> QED BY <1>1, InitIInv, NextIInv, PTL DEF Spec, FrozenTakesNoTurn

--------------------------------------------------------------------------------
\* Queues as the operators of Play Next keep them

\* Only the head is claimed, and no entry is queued twice.
Tidy(q) ==
    /\ \A i \in 2..Len(q) : q[i].claim = 0
    /\ \A i, j \in 1..Len(q) : q[i].id = q[j].id => i = j

\* The normalizer of the stored queue has nothing to correct in a tidy one.
LEMMA TidyIsNormal ==
    ASSUME NEW cl, NEW q \in Seq(Backed(cl)), Tidy(q)
    PROVE  NormalizeQueue(q) = q
  <1>1. Len(q) \in Nat /\ \A i \in 1..Len(q) : q[i] \in Entry
    BY ElementOfSeq, LenProperties DEF Backed
  <1>2. ASSUME NEW i \in 1..Len(q)
        PROVE  (IF i = 1 THEN q[i] ELSE [q[i] EXCEPT !.claim = 0]) = q[i]
    <2>1. i # 1 => q[i].claim = 0
      BY <1>1 DEF Tidy
    <2> QED BY <1>1, <2>1 DEF Entry
  <1>3. q = [i \in 1..Len(q) |-> q[i]]
    BY LenProperties
  <1> QED BY <1>2, <1>3, Zenon DEF NormalizeQueue

\* Releasing an entry keeps the entries, their order, and the queue tidy.
LEMMA ReleasedTidy ==
    ASSUME NEW cl, NEW q \in Seq(Backed(cl)), Tidy(q), NEW e
    PROVE  Tidy(Released(q, e)) /\ IdsIn(Released(q, e)) = IdsIn(q)
  <1>1. Len(q) \in Nat /\ \A i \in 1..Len(q) : q[i] \in Entry
    BY ElementOfSeq, LenProperties DEF Backed
  <1>2. PICK r : r = Released(q, e)
    OBVIOUS
  <1>3. r \in Seq(Backed(cl))
    BY <1>2, ReleasedBacked
  <1>4. Len(r) = Len(q)
    BY <1>1, <1>2, <1>3, LenProperties DEF Released
  <1>5. ASSUME NEW i \in 1..Len(q)
        PROVE  r[i].id = q[i].id /\ (q[i].claim = 0 => r[i].claim = 0)
    <2>1. r[i] = IF q[i].id = e THEN [q[i] EXCEPT !.claim = 0] ELSE q[i]
      BY <1>2 DEF Released
    <2> QED BY <1>1, <2>1 DEF Entry
  <1>6. Tidy(r)
    BY <1>1, <1>4, <1>5 DEF Tidy
  <1>7. IdsIn(r) = IdsIn(q)
    BY <1>4, <1>5 DEF IdsIn
  <1> QED BY <1>2, <1>6, <1>7

\* So does claiming the head.
LEMMA HeadClaimedTidy ==
    ASSUME NEW cl, NEW q \in Seq(Backed(cl)), Tidy(q), q # <<>>, NEW req \in Nat
    PROVE  /\ Tidy(HeadClaimed(q, req)) /\ IdsIn(HeadClaimed(q, req)) = IdsIn(q)
           /\ HeadClaimed(q, req) # <<>>
  <1>0. Len(q) \in Nat \ {0} /\ \A i \in 1..Len(q) : q[i] \in Backed(cl)
    BY ElementOfSeq, EmptySeq
  <1>1. Len(q) \in Nat /\ 1 \in 1..Len(q) /\ \A i \in 1..Len(q) : q[i] \in Entry
    <2>1. Len(q) \in Nat /\ 1 \in 1..Len(q)
      BY <1>0
    <2>2. Backed(cl) \subseteq Entry
      BY DEF Backed
    <2> QED BY <1>0, <2>1, <2>2
  <1>2. PICK head : head = [q[1] EXCEPT !.claim = req]
    OBVIOUS
  <1>3. head \in Entry /\ head.id = q[1].id
    BY <1>1, <1>2 DEF Entry
  <1>4. q \in Seq(Entry)
    BY BackedIsQueue DEF Queue
  <1>5. PICK r : r = [q EXCEPT ![1] = head]
    OBVIOUS
  <1>6. /\ r \in Seq(Entry) /\ Len(r) = Len(q)
        /\ \A j \in 1..Len(q) : r[j] = IF j = 1 THEN head ELSE q[j]
    BY <1>1, <1>3, <1>4, <1>5, ExceptSeq
  <1>7. r = HeadClaimed(q, req)
    BY <1>2, <1>5 DEF HeadClaimed
  <1>8. \A j \in 1..Len(q) : r[j].id = q[j].id
    BY <1>3, <1>6
  <1>9. Tidy(r)
    BY <1>1, <1>6, <1>8 DEF Tidy
  <1>10. IdsIn(r) = IdsIn(q)
    BY <1>6, <1>8 DEF IdsIn
  <1> QED BY <1>1, <1>6, <1>7, <1>9, <1>10, EmptySeq

\* A new entry goes behind the others.
LEMMA EnqueuedTidy ==
    ASSUME NEW cl, NEW q \in Seq(Backed(cl)), Tidy(q), NEW e \in Entries, e \notin IdsIn(q),
           NEW item \in Items
    PROVE  /\ Tidy(Enqueued(q, e, item)) /\ IdsIn(Enqueued(q, e, item)) = IdsIn(q) \cup {e}
           /\ q # <<>> => Enqueued(q, e, item)[1] = q[1]
           /\ Enqueued(q, e, item) # <<>>
  <1>1. PICK entry : entry = [id |-> e, item |-> item, claim |-> 0]
    OBVIOUS
  <1>2. entry \in Entry /\ entry.id = e /\ entry.claim = 0
    BY <1>1 DEF Entry
  <1>3. q \in Seq(Entry) /\ Len(q) \in Nat
    BY BackedIsQueue, LenProperties DEF Queue
  <1>4. PICK r : r = Enqueued(q, e, item)
    OBVIOUS
  <1>5. r = Append(q, entry)
    BY <1>1, <1>4 DEF Enqueued
  <1>6. /\ r # <<>> /\ Len(r) = Len(q) + 1 /\ r[Len(q) + 1] = entry
        /\ \A i \in 1..Len(q) : r[i] = q[i]
    BY <1>2, <1>3, <1>5, AppendProperties
  <1>7. \A i \in 1..Len(q) : q[i].id # e
    BY DEF IdsIn
  <1>8. Tidy(r)
    BY <1>2, <1>3, <1>6, <1>7 DEF Tidy
  <1>9. IdsIn(r) = IdsIn(q) \cup {e}
    BY <1>2, <1>3, <1>6 DEF IdsIn
  <1>10. q # <<>> => 1 \in 1..Len(q)
    BY EmptySeq
  <1> QED BY <1>4, <1>6, <1>8, <1>9, <1>10

\* The queue without an entry: the entries behind it move up.
LEMMA WithoutIs ==
    ASSUME NEW cl, NEW q \in Seq(Backed(cl)), NEW e, NEW r, r = Without(q, e)
    PROVE  \/ r = q /\ \A i \in 1..Len(q) : q[i].id # e
           \/ \E i \in 1..Len(q) :
                 /\ q[i].id = e /\ Len(r) = Len(q) - 1
                 /\ \A k \in 1..Len(r) : r[k] = IF k < i THEN q[k] ELSE q[k + 1]
  <1>1. CASE PositionsOf(q, e) = {}
    BY <1>1 DEF Without, PositionsOf
  <1>2. CASE PositionsOf(q, e) # {}
    <2>1. PICK i : i = CHOOSE j \in PositionsOf(q, e) : TRUE
      OBVIOUS
    <2>2. i \in 1..Len(q) /\ Len(q) \in Nat /\ q[i].id = e
      BY <1>2, <2>1, LenProperties DEF PositionsOf
    <2>3. \A k \in 1..Len(q) : q[k] \in Backed(cl)
      BY ElementOfSeq
    <2>4. PICK a : a = SubSeq(q, 1, i - 1)
      OBVIOUS
    <2>5. a \in Seq(Backed(cl)) /\ Len(a) = i - 1 /\ \A k \in 1..(i - 1) : a[k] = q[k]
      BY <2>2, <2>3, <2>4, SubSeqProperties
    <2>6. PICK b : b = SubSeq(q, i + 1, Len(q))
      OBVIOUS
    <2>7. \A k \in (i + 1)..Len(q) : q[k] \in Backed(cl)
      BY <2>2, <2>3
    <2>8. /\ b \in Seq(Backed(cl)) /\ Len(b) = Len(q) - i
          /\ \A k \in 1..(Len(q) - i) : b[k] = q[i + k]
      <3>1. /\ b \in Seq(Backed(cl))
            /\ Len(b) = IF i + 1 <= Len(q) THEN Len(q) - (i + 1) + 1 ELSE 0
            /\ \A k \in 1..(Len(q) - (i + 1) + 1) : b[k] = q[i + 1 + k - 1]
        BY <2>2, <2>6, <2>7, SubSeqProperties
      <3>2. Len(q) - (i + 1) + 1 = Len(q) - i
        BY <2>2
      <3>3. (IF i + 1 <= Len(q) THEN Len(q) - (i + 1) + 1 ELSE 0) = Len(q) - i
        BY <2>2
      <3>4. \A k \in 1..(Len(q) - i) : i + 1 + k - 1 = i + k
        BY <2>2
      <3> QED BY <3>1, <3>2, <3>3, <3>4
    <2>9. r = a \o b
      BY <1>2, <2>1, <2>4, <2>6 DEF Without
    <2>10. /\ Len(r) = Len(a) + Len(b)
           /\ \A k \in 1..(Len(a) + Len(b)) : r[k] = IF k <= Len(a) THEN a[k] ELSE b[k - Len(a)]
      <3>1. a \in Seq(Backed(cl)) /\ b \in Seq(Backed(cl))
        BY <2>5, <2>8
      <3> QED BY <2>9, <3>1, ConcatProperties
    <2>11. Len(r) = Len(q) - 1
      BY <2>2, <2>5, <2>8, <2>10
    <2>12. ASSUME NEW k \in 1..Len(r)
           PROVE  r[k] = IF k < i THEN q[k] ELSE q[k + 1]
      <3>1. CASE k < i
        BY <2>2, <2>5, <2>10, <2>11, <3>1
      <3>2. CASE ~(k < i)
        <4>1. r[k] = b[k - (i - 1)] /\ k - (i - 1) \in 1..(Len(q) - i)
          BY <2>2, <2>5, <2>8, <2>10, <2>11, <3>2
        <4>2. b[k - (i - 1)] = q[i + (k - (i - 1))]
          BY <2>8, <4>1
        <4>3. i + (k - (i - 1)) = k + 1
          BY <2>2, <2>11
        <4> QED BY <3>2, <4>1, <4>2, <4>3
      <3> QED BY <3>1, <3>2
    <2> QED BY <2>2, <2>11, <2>12
  <1> QED BY <1>1, <1>2

\* Removing an entry keeps the others in order; the head stays if it is another.
LEMMA WithoutTidy ==
    ASSUME NEW cl, NEW q \in Seq(Backed(cl)), Tidy(q), NEW e
    PROVE  /\ Tidy(Without(q, e)) /\ IdsIn(Without(q, e)) \subseteq IdsIn(q)
           /\ IdsIn(q) \subseteq IdsIn(Without(q, e)) \cup {e}
           /\ q # <<>> /\ q[1].id # e => Without(q, e) # <<>> /\ Without(q, e)[1] = q[1]
  <1>1. PICK r : r = Without(q, e)
    OBVIOUS
  <1>2. r \in Seq(Backed(cl)) /\ Len(q) \in Nat /\ Len(r) \in Nat
    BY <1>1, WithoutBacked, LenProperties
  <1>3. CASE r = q
    BY <1>1, <1>3
  <1>4. ASSUME NEW i \in 1..Len(q), q[i].id = e, Len(r) = Len(q) - 1,
               \A k \in 1..Len(r) : r[k] = IF k < i THEN q[k] ELSE q[k + 1]
        PROVE  /\ Tidy(r) /\ IdsIn(r) \subseteq IdsIn(q)
               /\ IdsIn(q) \subseteq IdsIn(r) \cup {e}
               /\ q # <<>> /\ q[1].id # e => r # <<>> /\ r[1] = q[1]
    <2>1. ASSUME NEW k \in 2..Len(r) PROVE r[k].claim = 0
      BY <1>2, <1>4, <2>1 DEF Tidy
    <2>2. ASSUME NEW j \in 1..Len(r), NEW k \in 1..Len(r), r[j].id = r[k].id PROVE j = k
      <3>1. PICK m \in 1..Len(q) : m = IF j < i THEN j ELSE j + 1
        BY <1>2, <1>4
      <3>2. PICK n \in 1..Len(q) : n = IF k < i THEN k ELSE k + 1
        BY <1>2, <1>4
      <3>3. r[j] = q[m] /\ r[k] = q[n]
        BY <1>4, <3>1, <3>2
      <3>4. m = n
        BY <2>2, <3>3 DEF Tidy
      <3> QED BY <1>2, <3>1, <3>2, <3>4
    <2>3. Tidy(r)
      BY <2>1, <2>2 DEF Tidy
    <2>4. ASSUME NEW k \in 1..Len(r) PROVE r[k].id \in IdsIn(q)
      <3>1. k \in 1..Len(q) /\ k + 1 \in 1..Len(q)
        BY <1>2, <1>4
      <3> QED BY <1>4, <3>1 DEF IdsIn
    <2>5. ASSUME NEW k \in 1..Len(q), q[k].id # e PROVE q[k].id \in IdsIn(r)
      <3>1. CASE k < i
        <4>1. k \in 1..Len(r) /\ r[k] = q[k]
          BY <1>2, <1>4, <3>1
        <4> QED BY <4>1 DEF IdsIn
      <3>2. CASE k > i
        <4>1. PICK m \in 1..Len(r) : m = k - 1
          BY <1>2, <1>4, <3>2
        <4>2. ~(m < i) /\ m + 1 = k
          BY <1>2, <3>2, <4>1
        <4>3. r[m] = q[k]
          BY <1>4, <4>2
        <4> QED BY <4>3 DEF IdsIn
      <3> QED BY <1>4, <2>5, <3>1, <3>2
    <2>6. ASSUME q # <<>>, q[1].id # e PROVE r # <<>> /\ r[1] = q[1]
      <3>1. 1 < i /\ 1 \in 1..Len(r)
        BY <1>2, <1>4, <2>6
      <3>2. r # <<>>
        BY <1>2, <3>1, EmptySeq
      <3> QED BY <1>4, <3>1, <3>2
    <2> QED BY <2>3, <2>4, <2>5, <2>6 DEF IdsIn
  <1>5. \/ r = q
        \/ \E i \in 1..Len(q) :
              /\ q[i].id = e /\ Len(r) = Len(q) - 1
              /\ \A k \in 1..Len(r) : r[k] = IF k < i THEN q[k] ELSE q[k + 1]
    BY <1>1, WithoutIs
  <1>6. CASE \E i \in 1..Len(q) :
              /\ q[i].id = e /\ Len(r) = Len(q) - 1
              /\ \A k \in 1..Len(r) : r[k] = IF k < i THEN q[k] ELSE q[k + 1]
    BY <1>1, <1>4, <1>6
  <1> QED BY <1>3, <1>5, <1>6

\* A reordering names every entry exactly once: as many positions as entries.
LEMMA ReorderedTidy ==
    ASSUME NEW cl, NEW q \in Seq(Backed(cl)), Tidy(q), NEW playing, NEW r \in Reorderings(q, playing),
           q # <<>> /\ q[1].claim # 0 => playing = q[1].id,
           None \notin IdsIn(q)
    PROVE  /\ Tidy(r) /\ IdsIn(r) = IdsIn(q)
           /\ q # <<>> /\ q[1].claim # 0 => r # <<>> /\ r[1] = q[1]
  <1>1. /\ r \in [1..Len(q) -> {q[i] : i \in 1..Len(q)}] /\ IdsIn(r) = IdsIn(q)
        /\ playing = None \/ (q # <<>> /\ r[1].id = playing)
    BY Zenon DEF Reorderings
  <1>2. r \in Seq(Backed(cl)) /\ Len(q) \in Nat
    BY ReorderingBacked, LenProperties
  <1>3. Len(r) = Len(q)
    BY <1>1, <1>2, LenProperties
  <1>4. PICK f : f = [i \in 1..Len(q) |-> q[i].id]
    OBVIOUS
  <1>5. PICK g : g = [i \in 1..Len(q) |-> r[i].id]
    OBVIOUS
  <1>6. f \in Injection(1..Len(q), IdsIn(q)) /\ f \in Surjection(1..Len(q), IdsIn(q))
    <2>1. f \in [1..Len(q) -> IdsIn(q)] /\ \A i \in 1..Len(q) : f[i] = q[i].id
      BY <1>4 DEF IdsIn
    <2>2. \A i, j \in 1..Len(q) : f[i] = f[j] => i = j
      BY <2>1 DEF Tidy
    <2>3. \A id \in IdsIn(q) : \E i \in 1..Len(q) : f[i] = id
      BY <2>1 DEF IdsIn
    <2>4. DOMAIN f = 1..Len(q)
      BY <2>1
    <2> QED BY <2>1, <2>2, <2>3, <2>4 DEF Injection, IsInjective, Surjection
  <1>7. g \in Surjection(1..Len(q), IdsIn(q))
    BY <1>1, <1>3, <1>5 DEF Surjection, IdsIn
  <1>8. IsFiniteSet(1..Len(q))
    BY <1>2, FS_Interval
  <1>9. Cardinality(IdsIn(q)) = Cardinality(1..Len(q))
    BY <1>6, <1>8, FS_Surjection
  <1>10. g \in Injection(1..Len(q), IdsIn(q))
    BY <1>7, <1>8, <1>9, FS_Surjection
  <1>11. \A i, j \in 1..Len(r) : r[i].id = r[j].id => i = j
    <2>1. DOMAIN g = 1..Len(q) /\ \A i \in 1..Len(q) : g[i] = r[i].id
      BY <1>5
    <2> QED BY <1>3, <1>10, <2>1 DEF Injection, IsInjective
  <1>12. \A i \in 1..Len(r) : \E k \in 1..Len(q) : r[i] = q[k]
    BY <1>1, <1>3
  <1>13. ASSUME q # <<>>, q[1].claim # 0 PROVE r # <<>> /\ r[1] = q[1]
    <2>1. 1 \in 1..Len(q) /\ 1 \in 1..Len(r)
      BY <1>2, <1>3, <1>13, EmptySeq
    <2>2. q[1].id \in IdsIn(q)
      BY <2>1 DEF IdsIn
    <2>3. r[1].id = q[1].id
      BY <1>1, <1>13, <2>2
    <2>4. PICK k \in 1..Len(q) : r[1] = q[k]
      BY <1>12, <2>1
    <2>5. k = 1
      BY <2>1, <2>3, <2>4 DEF Tidy
    <2> QED BY <2>1, <2>4, <2>5, EmptySeq, <1>2
  <1>14. ASSUME NEW i \in 2..Len(r) PROVE r[i].claim = 0
    <2>1. PICK k \in 1..Len(q) : r[i] = q[k]
      BY <1>2, <1>3, <1>12
    <2>2. CASE k # 1
      BY <1>2, <2>1, <2>2 DEF Tidy
    <2>3. CASE k = 1 /\ q[1].claim # 0
      <3>1. q # <<>>
        BY <1>2, <2>1, EmptySeq
      <3>2. r[1] = r[i] /\ 1 \in 1..Len(r)
        BY <1>2, <1>3, <1>13, <2>1, <2>3, <3>1
      <3> QED BY <1>2, <1>3, <1>11, <3>2
    <2> QED BY <2>1, <2>2, <2>3
  <1> QED BY <1>1, <1>11, <1>13, <1>14 DEF Tidy

--------------------------------------------------------------------------------
\* One turn at a time: what the handlers do while nothing but the queue is operated

\* Nothing waits for the lock, and no bumper plays.
AtRest(s) == s.tasks = <<>> /\ s.bumpers = {}

\* At most one task or bumper carries the transition on.
OneTurn(s) ==
    \/ AtRest(s)
    \/ s.bumpers = {} /\ Len(s.tasks) = 1
    \/ s.tasks = <<>> /\ \E c \in s.bumpers : s.bumpers = {c}

\* The active entry is the head of q, claimed for the request on air.
OwnsHead(s, q) ==
    s.active.entry # None =>
        q # <<>> /\ q[1].id = s.active.entry /\ q[1].claim = s.active.req /\ s.active.req # 0

\* The engine mirrors the stored queue q, it is in a transition exactly while one task or bumper
\* will end it, and no song is active meanwhile or before the first snapshot.
Orderly(s, q) ==
    /\ s.queue = q /\ ~s.frozen
    /\ OneTurn(s)
    /\ s.transitioning <=> ~AtRest(s)
    /\ s.transitioning => s.active = NoSong /\ s.reconciled
    /\ ~s.reconciled => s.active = NoSong
    /\ OwnsHead(s, q)

\* The engine while the task or the bumper that carries the transition on is running.
InTurn(s) ==
    AtRest(s) /\ s.transitioning /\ s.active = NoSong /\ s.reconciled /\ ~s.frozen

\* No end of a queued song waits to be consumed.
NoConsume(s) == \A i \in 1..Len(s.tasks) : s.tasks[i].op # "consume"

LEMMA RestHasNoConsume ==
    ASSUME NEW s, AtRest(s)
    PROVE  NoConsume(s)
  <1>1. Len(s.tasks) = 0
    BY EmptySeq DEF AtRest
  <1> QED BY <1>1 DEF NoConsume

\* A task asked for from rest is the one that carries the transition on.
LEMMA AskedInTurn ==
    ASSUME NEW s, AtRest(s), NEW t, NEW task, t.tasks = Append(s.tasks, task), t.bumpers = s.bumpers
    PROVE  /\ ~AtRest(t) /\ OneTurn(t)
           /\ Len(t.tasks) = 1 /\ t.tasks[1] = task
           /\ task.op # "consume" => NoConsume(t)
  <1>1. s.tasks \in Seq({task}) /\ Len(s.tasks) = 0 /\ s.bumpers = {}
    BY EmptySeq DEF AtRest
  <1>2. Len(t.tasks) = 1 /\ t.tasks[1] = task /\ t.tasks # <<>>
    BY <1>1, AppendProperties
  <1> QED BY <1>1, <1>2 DEF OneTurn, AtRest, NoConsume

\* What a handler that ran in turn leaves: the turn passed on, or rest.
Onward(t, q) == Orderly(t, q) /\ NoConsume(t) /\ t.reconciled

\* playNext, from rest with nothing on air: it commands the head or the playlist, or claims first.
LEMMA PlayNextOrderly ==
    ASSUME NEW cl, NEW s \in Engine(cl), NEW q, Orderly(s, q), s.active = NoSong,
           ~s.transitioning, s.reconciled
    PROVE  Onward(PlayNext(s), q)
  <1> USE DEF Onward
  <1>1. AtRest(s) /\ NoConsume(s)
    BY RestHasNoConsume DEF Orderly
  <1>2. PICK t : t = PlayNext(s)
    OBVIOUS
  <1>3. Kept(s, t)
    BY <1>2, PlayNextKeeps
  <1>4. CASE t = s
    BY <1>1, <1>2, <1>4
  <1>5. CASE s.queue # <<>> /\ s.queue[1].claim = 0 /\ t = BeginClaim(s)
    <2>1. PICK task : task = [op |-> "claim", entry |-> s.queue[1].id, req |-> s.issued + 1]
      OBVIOUS
    <2>2. Asks(s, t, task) /\ task.op # "consume"
      BY <1>5, <2>1, BeginClaimKeeps
    <2>3. ~AtRest(t) /\ OneTurn(t) /\ NoConsume(t)
      BY <1>1, <1>3, <2>2, AskedInTurn DEF Asks, Kept
    <2>4. t.transitioning /\ t.active = NoSong
      BY <2>2 DEF Asks
    <2>5. OwnsHead(t, q)
      BY <2>4 DEF OwnsHead, NoSong
    <2> QED BY <1>2, <1>3, <2>3, <2>4, <2>5 DEF Orderly, Kept
  <1>6. ASSUME NEW req, NEW entry, NEW manual, Commanded(s, t, req, entry, manual),
               entry # None => q # <<>> /\ q[1].id = entry /\ q[1].claim = req /\ req # 0
        PROVE  Onward(t, q)
    <2>1. t.tasks = s.tasks /\ t.bumpers = s.bumpers /\ t.transitioning = s.transitioning
      BY <1>3, <1>6 DEF Commanded, Kept
    <2>2. AtRest(t) /\ OneTurn(t) /\ NoConsume(t)
      BY <1>1, <2>1 DEF AtRest, OneTurn, NoConsume
    <2>3. OwnsHead(t, q)
      BY <1>6 DEF OwnsHead, Commanded
    <2> QED BY <1>3, <2>1, <2>2, <2>3 DEF Orderly, Kept
  <1>7. CASE s.queue # <<>> /\ s.queue[1].claim # 0 /\ t = CommandHead(s)
    <2>1. Commanded(s, t, s.queue[1].claim, s.queue[1].id, FALSE)
      BY <1>7, CommandHeadKeeps
    <2> QED BY <1>2, <1>6, <1>7, <2>1 DEF Orderly
  <1>8. CASE t = CommandPlaylist(s)
    <2>1. Commanded(s, t, s.issued + 1, None, FALSE)
      BY <1>8, CommandPlaylistKeeps
    <2> QED BY <1>2, <1>6, <2>1
  <1>9. \/ t = s
        \/ s.queue # <<>> /\ s.queue[1].claim = 0 /\ t = BeginClaim(s)
        \/ s.queue # <<>> /\ s.queue[1].claim # 0 /\ t = CommandHead(s)
        \/ t = CommandPlaylist(s)
    BY <1>2, PlayNextCases
  <1> QED BY <1>4, <1>5, <1>7, <1>8, <1>9, Zenon

\* maybeStartSequence starts nothing out of turn.
LEMMA MaybeStartOrderly ==
    ASSUME NEW cl, NEW s \in Engine(cl), NEW q, Orderly(s, q)
    PROVE  /\ Orderly(MaybeStart(s), q) /\ MaybeStart(s).reconciled = s.reconciled
           /\ MaybeStart(s).tasks = s.tasks \/ NoConsume(MaybeStart(s))
  <1>1. CASE ~MayStart(s)
    BY <1>1 DEF MaybeStart
  <1>2. CASE MayStart(s)
    <2>1. s.active = NoSong /\ ~s.transitioning /\ s.reconciled
      BY <1>2 DEF MayStart
    <2>2. Onward(PlayNext(s), q) /\ PlayNext(s).reconciled = s.reconciled
      BY <2>1, PlayNextOrderly, PlayNextKeeps DEF Kept
    <2>3. MaybeStart(s) = PlayNext(s)
      BY <1>2 DEF MaybeStart
    <2> QED BY <2>2, <2>3 DEF Onward
  <1> QED BY <1>1, <1>2

\* A queue write from rest or in the middle of a turn.
LEMMA ApplyQueueOrderly ==
    ASSUME NEW cl, NEW s \in Engine(cl), NEW p, Orderly(s, p),
           NEW q \in Seq(Backed(cl)), OwnsHead(s, q)
    PROVE  /\ Orderly(ApplyQueue(s, q), q) /\ ApplyQueue(s, q).reconciled = s.reconciled
           /\ ApplyQueue(s, q).tasks = s.tasks \/ NoConsume(ApplyQueue(s, q))
  <1>1. PICK t : t = [s EXCEPT !.queue = q, !.blocked = FALSE]
    OBVIOUS
  <1>2. t \in Engine(cl)
    BY <1>1 DEF Engine
  <1>3. /\ t.queue = q /\ t.frozen = s.frozen /\ t.reconciled = s.reconciled
        /\ t.transitioning = s.transitioning /\ t.active = s.active
        /\ t.tasks = s.tasks /\ t.bumpers = s.bumpers
    BY <1>1 DEF Engine
  <1>4. Orderly(t, q)
    BY <1>3 DEF Orderly, OwnsHead, OneTurn, AtRest
  <1>5. ApplyQueue(s, q) = IF q = <<>> THEN t ELSE MaybeStart(t)
    BY <1>1 DEF ApplyQueue
  <1> QED BY <1>2, <1>3, <1>4, <1>5, MaybeStartOrderly

\* A queue write by the task that has the turn: the transition holds every start back.
LEMMA ApplyQueueInTurn ==
    ASSUME NEW cl, NEW s \in Engine(cl), InTurn(s), NEW q \in Seq(Backed(cl)),
           NEW t, t = ApplyQueue(s, q)
    PROVE  t \in Engine(cl) /\ InTurn(t) /\ t.queue = q
  <1>1. PICK u : u = [s EXCEPT !.queue = q, !.blocked = FALSE]
    OBVIOUS
  <1>2. /\ u \in Engine(cl) /\ u.queue = q /\ u.frozen = s.frozen /\ u.reconciled = s.reconciled
        /\ u.transitioning = s.transitioning /\ u.active = s.active
        /\ u.tasks = s.tasks /\ u.bumpers = s.bumpers
    BY <1>1 DEF Engine
  <1>3. InTurn(u)
    BY <1>2 DEF InTurn, AtRest
  <1>4. MaybeStart(u) = u
    BY <1>3 DEF MaybeStart, MayStart, InTurn
  <1>5. t = u
    BY <1>1, <1>4 DEF ApplyQueue
  <1> QED BY <1>2, <1>3, <1>5

\* The end of the turn, whatever becomes of the block.
LEMMA TurnEnds ==
    ASSUME NEW cl, NEW s \in Engine(cl), InTurn(s), NEW block \in BOOLEAN, NEW t,
           t = [s EXCEPT !.transitioning = FALSE, !.blocked = block]
    PROVE  /\ t \in Engine(cl) /\ Orderly(t, s.queue) /\ t.active = NoSong
           /\ ~t.transitioning /\ t.reconciled /\ NoConsume(t) /\ t.queue = s.queue
  <1>1. /\ t \in Engine(cl) /\ t.queue = s.queue /\ t.frozen = s.frozen
        /\ t.reconciled = s.reconciled /\ t.transitioning = FALSE /\ t.active = s.active
        /\ t.tasks = s.tasks /\ t.bumpers = s.bumpers
    BY DEF Engine
  <1>2. AtRest(t) /\ NoConsume(t)
    BY <1>1, RestHasNoConsume DEF InTurn, AtRest
  <1>3. OwnsHead(t, s.queue)
    BY <1>1 DEF OwnsHead, InTurn, NoSong
  <1> QED BY <1>1, <1>2, <1>3 DEF Orderly, OneTurn, InTurn

\* The same, with the block as it was.
LEMMA TurnRests ==
    ASSUME NEW cl, NEW s \in Engine(cl), InTurn(s), NEW t, t = [s EXCEPT !.transitioning = FALSE]
    PROVE  /\ t \in Engine(cl) /\ Orderly(t, s.queue) /\ t.active = NoSong
           /\ ~t.transitioning /\ t.reconciled /\ NoConsume(t) /\ t.queue = s.queue
  <1>1. /\ t \in Engine(cl) /\ t.queue = s.queue /\ t.frozen = s.frozen
        /\ t.reconciled = s.reconciled /\ t.transitioning = FALSE /\ t.active = s.active
        /\ t.tasks = s.tasks /\ t.bumpers = s.bumpers
    BY DEF Engine
  <1>2. AtRest(t) /\ NoConsume(t)
    BY <1>1, RestHasNoConsume DEF InTurn, AtRest
  <1>3. OwnsHead(t, s.queue)
    BY <1>1 DEF OwnsHead, InTurn, NoSong
  <1> QED BY <1>1, <1>2, <1>3 DEF Orderly, OneTurn, InTurn

\* The turn is passed on to a task.
LEMMA TurnPasses ==
    ASSUME NEW cl, NEW s \in Engine(cl), AtRest(s), s.active = NoSong, s.reconciled, ~s.frozen,
           NEW task, task.op # "consume", NEW t, Asks(s, t, task)
    PROVE  Onward(t, s.queue)
  <1> USE DEF Onward
  <1>1. ~AtRest(t) /\ OneTurn(t) /\ NoConsume(t)
    BY AskedInTurn DEF Asks, Kept
  <1>2. OwnsHead(t, s.queue)
    BY DEF OwnsHead, Asks, NoSong
  <1> QED BY <1>1, <1>2 DEF Orderly, Asks, Kept

\* The task that won the claim plays the head or gives it back.
LEMMA ClaimWonOrderly ==
    ASSUME NEW cl, NEW s \in Engine(cl), InTurn(s), NEW q \in Seq(Backed(cl)), q # <<>>
    PROVE  Onward(ClaimWon(s, q), q)
  <1> USE DEF Onward
  <1>1. PICK u : u = ApplyQueue(s, q)
    OBVIOUS
  <1>2. u \in Engine(cl) /\ InTurn(u) /\ u.queue = q
    BY <1>1, ApplyQueueInTurn
  <1>3. PICK t : t = [u EXCEPT !.transitioning = FALSE]
    OBVIOUS
  <1>4. /\ t \in Engine(cl) /\ Orderly(t, q) /\ t.active = NoSong
        /\ ~t.transitioning /\ t.reconciled /\ t.queue = q
    BY <1>2, <1>3, TurnRests
  <1>5. ClaimWon(s, q) = IF CanPlayNext(t) THEN PlayNext(t) ELSE ReleaseClaim(t, q[1].id, TRUE)
    BY <1>1, <1>3 DEF ClaimWon
  <1>6. Onward(PlayNext(t), q)
    BY <1>4, PlayNextOrderly
  <1>7. PICK task : task = [op |-> "release", entry |-> q[1].id, block |-> TRUE]
    OBVIOUS
  <1>8. PICK v : v = ReleaseClaim(t, q[1].id, TRUE)
    OBVIOUS
  <1>9. Asks(t, v, task) /\ task.op # "consume"
    BY <1>4, <1>7, <1>8, ReleaseClaimKeeps
  <1>10. AtRest(t) /\ ~t.frozen
    BY <1>4 DEF Orderly
  <1>11. Onward(v, q)
    BY <1>4, <1>9, <1>10, TurnPasses
  <1> QED BY <1>5, <1>6, <1>8, <1>11

\* The task that lost the claim may start the rotation.
LEMMA ClaimLostOrderly ==
    ASSUME NEW cl, NEW s \in Engine(cl), InTurn(s), NEW q \in Seq(Backed(cl))
    PROVE  Onward(ClaimLost(s, q), q)
  <1> USE DEF Onward
  <1>1. PICK u : u = ApplyQueue(s, q)
    OBVIOUS
  <1>2. u \in Engine(cl) /\ InTurn(u) /\ u.queue = q
    BY <1>1, ApplyQueueInTurn
  <1>3. PICK t : t = [u EXCEPT !.transitioning = FALSE]
    OBVIOUS
  <1>4. t \in Engine(cl) /\ Onward(t, q)
    BY <1>2, <1>3, TurnRests
  <1>5. ClaimLost(s, q) = MaybeStart(t)
    BY <1>1, <1>3 DEF ClaimLost
  <1>6. MaybeStart(t).tasks = t.tasks => NoConsume(MaybeStart(t))
    BY <1>4 DEF NoConsume
  <1> QED BY <1>4, <1>5, <1>6, MaybeStartOrderly

\* The task that released the entry ends the transition.
LEMMA ClaimReleasedOrderly ==
    ASSUME NEW cl, NEW s \in Engine(cl), InTurn(s), NEW q \in Seq(Backed(cl)), NEW block \in BOOLEAN
    PROVE  Onward(ClaimReleased(s, q, block), q)
  <1> USE DEF Onward
  <1>1. PICK u : u = ApplyQueue(s, q)
    OBVIOUS
  <1>2. u \in Engine(cl) /\ InTurn(u) /\ u.queue = q
    BY <1>1, ApplyQueueInTurn
  <1>3. PICK t : t = [u EXCEPT !.transitioning = FALSE, !.blocked = block]
    OBVIOUS
  <1>4. Onward(t, q)
    BY <1>2, <1>3, TurnEnds
  <1> QED BY <1>1, <1>3, <1>4 DEF ClaimReleased

\* A failed write ends the transition too.
LEMMA BlockQueueOrderly ==
    ASSUME NEW cl, NEW s \in Engine(cl), InTurn(s)
    PROVE  Onward(BlockQueue(s), s.queue)
  BY TurnEnds DEF BlockQueue, Onward

\* continueAfterAuthoritativeEnd with songs in the queue, and without.
LEMMA ResumeQueueOrderly ==
    ASSUME NEW cl, NEW s \in Engine(cl), InTurn(s)
    PROVE  Onward(ResumeQueue(s), s.queue)
  <1> USE DEF Onward
  <1>1. PICK t : t = [s EXCEPT !.transitioning = FALSE]
    OBVIOUS
  <1>2. /\ t \in Engine(cl) /\ Orderly(t, s.queue) /\ t.active = NoSong
        /\ ~t.transitioning /\ t.reconciled
    BY <1>1, TurnRests
  <1>3. Onward(PlayNext(t), s.queue)
    BY <1>2, PlayNextOrderly
  <1>4. PICK u : u = [t EXCEPT !.blocked = TRUE]
    OBVIOUS
  <1>5. u = [s EXCEPT !.transitioning = FALSE, !.blocked = TRUE]
    BY <1>1, <1>4 DEF Engine
  <1>6. Onward(u, s.queue)
    BY <1>5, TurnEnds
  <1> QED BY <1>1, <1>3, <1>4, <1>6 DEF ResumeQueue

LEMMA ResumeRotationOrderly ==
    ASSUME NEW cl, NEW s \in Engine(cl), InTurn(s), NEW cont
    PROVE  Onward(ResumeRotation(s, cont), s.queue)
  <1> USE DEF Onward
  <1>1. PICK t : t = [s EXCEPT !.transitioning = FALSE]
    OBVIOUS
  <1>2. /\ t \in Engine(cl) /\ Orderly(t, s.queue) /\ t.active = NoSong
        /\ ~t.transitioning /\ t.reconciled /\ NoConsume(t)
    BY <1>1, TurnRests
  <1> QED BY <1>1, <1>2, PlayNextOrderly DEF ResumeRotation

\* The bumper has played: the turn passes to the next song, or to the write of the cursor.
LEMMA AfterBumperOrderly ==
    ASSUME NEW cl, NEW s \in Engine(cl), InTurn(s), NEW cont \in Continuation
    PROVE  Onward(AfterBumper(s, cont), s.queue)
  <1> USE DEF Onward
  <1>1. PICK task : task = [op |-> "saveThenPlay", cont |-> cont]
    OBVIOUS
  <1>2. PICK t : t = [s EXCEPT !.tasks = Append(@, task)]
    OBVIOUS
  <1>3. Asks(s, t, task) /\ task.op # "consume"
    BY <1>1, <1>2 DEF Asks, Kept, Engine, InTurn
  <1>4. Onward(t, s.queue)
    BY <1>3, TurnPasses DEF InTurn
  <1>5. s.active = NoSong /\ ~s.frozen
    BY DEF InTurn
  <1>6. AfterBumper(s, cont) = IF s.queue = <<>> THEN ResumeRotation(s, cont)
                               ELSE IF cont.entry = None /\ ~cont.saved THEN t ELSE ResumeQueue(s)
    BY <1>1, <1>2, <1>5 DEF AfterBumper
  <1> QED BY <1>4, <1>6, ResumeRotationOrderly, ResumeQueueOrderly

\* The turn is passed on to a bumper.
LEMMA TurnToBumper ==
    ASSUME NEW cl, NEW s \in Engine(cl), InTurn(s), NEW cont, NEW t,
           t = [s EXCEPT !.bumpers = @ \cup {cont}]
    PROVE  Onward(t, s.queue)
  <1>1. /\ t.queue = s.queue /\ t.frozen = s.frozen /\ t.reconciled = s.reconciled
        /\ t.transitioning = s.transitioning /\ t.active = s.active
        /\ t.tasks = <<>> /\ t.bumpers = {cont}
    BY DEF Engine, InTurn, AtRest
  <1>2. NoConsume(t)
    BY <1>1, EmptySeq DEF NoConsume
  <1>3. OwnsHead(t, s.queue)
    BY <1>1 DEF OwnsHead, InTurn, NoSong
  <1>4. ~AtRest(t) /\ OneTurn(t)
    BY <1>1 DEF AtRest, OneTurn
  <1> QED BY <1>1, <1>2, <1>3, <1>4 DEF Onward, Orderly, InTurn

\* The end of a queued song: what its task remembers of it.
Consumes(t, entry, req) ==
    \A i \in 1..Len(t.tasks) :
        t.tasks[i].op = "consume" =>
            entry # None /\ t.tasks[i].cont.entry = entry /\ t.tasks[i].cont.req = req

\* An end of track takes the turn only for the song that was active, with no other turn taken.
LEMMA TrackEndedOrderly ==
    ASSUME NEW cl, NEW s \in Engine(cl), NEW q, Orderly(s, q), NEW req \in Nat,
           NEW t, t = TrackEnded(s, req)
    PROVE  /\ Orderly(t, q) /\ t.reconciled = s.reconciled
           /\ \/ t.tasks = s.tasks
              \/ req # 0 /\ s.active.req = req /\ Consumes(t, s.active.entry, req)
  <1>1. CASE t = s
    BY <1>1
  <1>2. CASE /\ t.queue = s.queue /\ t.frozen = s.frozen /\ t.reconciled = s.reconciled
             /\ t.active = s.active
             /\ t.transitioning = s.transitioning /\ t.tasks = s.tasks /\ t.bumpers = s.bumpers
    BY <1>2 DEF Orderly, OwnsHead, OneTurn, AtRest
  <1>3. ASSUME s.active.req = req, req # 0, NEW u \in Engine(cl), Ends(u, t, s.active),
               u.queue = s.queue, u.frozen = s.frozen, u.reconciled = s.reconciled,
               u.tasks = s.tasks, u.bumpers = s.bumpers
        PROVE  /\ Orderly(t, q) /\ t.reconciled = s.reconciled
               /\ t.tasks = s.tasks \/ Consumes(t, s.active.entry, req)
    <2>1. s.active # NoSong
      BY <1>3 DEF NoSong
    <2>2. AtRest(s) /\ s.reconciled /\ AtRest(u)
      BY <1>3, <2>1 DEF Orderly, AtRest
    <2>3. /\ t.queue = q /\ ~t.frozen /\ t.reconciled /\ t.active = NoSong /\ t.transitioning
      BY <1>3, <2>2 DEF Ends, Orderly
    <2>4. OwnsHead(t, q)
      BY <2>3 DEF OwnsHead, NoSong
    <2>5. ASSUME NEW task, t.tasks = Append(u.tasks, task), t.bumpers = u.bumpers,
                 task.op = "consume" <=> s.active.entry # None,
                 task.cont.entry = s.active.entry, task.cont.req = s.active.req
          PROVE  ~AtRest(t) /\ OneTurn(t) /\ Consumes(t, s.active.entry, req)
      <3>1. ~AtRest(t) /\ OneTurn(t) /\ Len(t.tasks) = 1 /\ t.tasks[1] = task
        BY <2>2, <2>5, AskedInTurn
      <3> QED BY <1>3, <2>5, <3>1 DEF Consumes
    <2>6. ASSUME NEW c, t.tasks = u.tasks, t.bumpers = u.bumpers \cup {c}
          PROVE  ~AtRest(t) /\ OneTurn(t) /\ t.tasks = s.tasks
      BY <1>3, <2>2, <2>6 DEF AtRest, OneTurn
    <2>7. ~AtRest(t) /\ OneTurn(t) /\ (t.tasks = s.tasks \/ Consumes(t, s.active.entry, req))
      BY <1>3, <2>5, <2>6 DEF Ends
    <2> QED BY <2>2, <2>3, <2>4, <2>7 DEF Orderly
  <1> QED BY <1>1, <1>2, <1>3, TrackEndedCases

\* What neither a status of the stream nor a snapshot in agreement with the engine changes.
Alike(s, t) ==
    /\ t.sends = s.sends /\ t.active = s.active /\ t.ended = s.ended
    /\ t.reconciled = s.reconciled /\ t.issued = s.issued /\ t.tasks = s.tasks

Unturned(s, t) ==
    /\ Alike(s, t)
    /\ t.queue = s.queue /\ t.frozen = s.frozen
    /\ t.transitioning = s.transitioning /\ t.bumpers = s.bumpers

LEMMA UnturnedOrderly ==
    ASSUME NEW s, NEW t, Unturned(s, t), NEW q, Orderly(s, q)
    PROVE  Orderly(t, q)
  BY DEF Unturned, Alike, Orderly, OwnsHead, OneTurn, AtRest

LEMMA UnturnedAgain ==
    ASSUME NEW s, NEW u, Unturned(s, u), NEW t, Unturned(u, t)
    PROVE  Unturned(s, t)
  BY DEF Unturned, Alike

\* The status of a stream that is not given up.
LEMMA StatusHeard ==
    ASSUME NEW cl, NEW s \in Engine(cl), ~s.frozen, NEW status \in Statuses \ {"unavailable"},
           NEW snapped \in BOOLEAN, NEW t, t = StatusChanged(s, status, snapped)
    PROVE  t \in Engine(cl) /\ Unturned(s, t)
  <1>1. t \in Engine(cl)
    BY StatusChangedType
  <1>2. PICK b \in BOOLEAN : b = (s.reconciled /\ ~s.frozen)
    OBVIOUS
  <1>3. t = [[s EXCEPT !.status = status, !.snapped = snapped]
               EXCEPT !.frozen = FALSE, !.reconciled = b]
    BY <1>2 DEF StatusChanged, Engine
  <1>4. b = s.reconciled /\ s.frozen = FALSE
    BY <1>2 DEF Engine
  <1> QED BY <1>1, <1>3, <1>4 DEF Engine, Unturned, Alike

\* The snapshot of a reconnection reaches the engine as it is.
LEMMA SnapshotHeard ==
    ASSUME NEW cl, NEW s \in Engine(cl), ~s.frozen, s.reconciled, NEW track, NEW t,
           t = Snapshot(StatusChanged(s, "connected", TRUE), track)
    PROVE  \E u \in Engine(cl) :
              /\ t = IF track.req # 0 THEN ReconcilePlaying(u, track) ELSE ReconcileIdle(u)
              /\ Unturned(s, u)
  <1>1. PICK v : v = StatusChanged(s, "connected", TRUE)
    OBVIOUS
  <1>2. "connected" \in Statuses \ {"unavailable"} /\ TRUE \in BOOLEAN
    BY DEF Statuses
  <1>3. v \in Engine(cl) /\ Unturned(s, v)
    BY <1>1, <1>2, StatusHeard
  <1>4. PICK u : u = [v EXCEPT !.reconciled = TRUE, !.frozen = FALSE]
    OBVIOUS
  <1>5. v.reconciled = TRUE /\ v.frozen = FALSE
    BY <1>3 DEF Engine, Unturned, Alike
  <1>6. u \in Engine(cl) /\ Unturned(v, u)
    BY <1>3, <1>4, <1>5 DEF Engine, Unturned, Alike
  <1>7. t = IF track.req # 0 THEN ReconcilePlaying(u, track) ELSE ReconcileIdle(u)
    BY <1>1, <1>4 DEF Snapshot
  <1> QED BY <1>3, <1>6, <1>7, UnturnedAgain

\* A playing snapshot that names the song on air.
LEMMA SnapshotAgrees ==
    ASSUME NEW cl, NEW u \in Engine(cl), NEW track, u.active.req = track.req,
           NEW t, t = ReconcilePlaying(u, track)
    PROVE  Unturned(u, t)
  <1>1. t = [u EXCEPT !.foreign = FALSE]
    BY DEF ReconcilePlaying
  <1> QED BY <1>1 DEF Engine, Unturned, Alike

\* An idle snapshot with nothing on air.
LEMMA SnapshotRests ==
    ASSUME NEW cl, NEW u \in Engine(cl), u.active = NoSong, NEW t, t = ReconcileIdle(u)
    PROVE  \E w \in Engine(cl) : t = MaybeStart(w) /\ Unturned(u, w)
  <1>1. PICK w : w = [u EXCEPT !.pending = {}, !.foreign = FALSE]
    OBVIOUS
  <1>2. t = MaybeStart(w)
    BY <1>1 DEF ReconcileIdle
  <1>3. w \in Engine(cl) /\ Unturned(u, w)
    BY <1>1 DEF Engine, Unturned, Alike
  <1> QED BY <1>2, <1>3

\* The snapshot of a reconnection that finds the engine's song, or its end.
LEMMA RereadOrderly ==
    ASSUME NEW cl, NEW s \in Engine(cl), NEW q, Orderly(s, q), s.reconciled, NEW track,
           track.req # 0 => s.active.req = track.req,
           NEW t, t = Snapshot(StatusChanged(s, "connected", TRUE), track)
    PROVE  /\ Orderly(t, q) /\ t.reconciled
           /\ \/ t.tasks = s.tasks
              \/ NoConsume(t)
              \/ track.req = 0 /\ s.active # NoSong /\ Consumes(t, s.active.entry, s.active.req)
  <1>1. PICK u \in Engine(cl) :
           /\ t = IF track.req # 0 THEN ReconcilePlaying(u, track) ELSE ReconcileIdle(u)
           /\ Unturned(s, u)
    BY SnapshotHeard DEF Orderly
  <1>2. Orderly(u, q) /\ u.reconciled /\ u.active = s.active /\ u.tasks = s.tasks
    BY <1>1, UnturnedOrderly DEF Unturned, Alike
  <1>3. CASE track.req # 0
    <2>1. Unturned(u, t)
      BY <1>1, <1>2, <1>3, SnapshotAgrees
    <2> QED BY <1>2, <2>1, UnturnedOrderly DEF Unturned, Alike
  <1>4. CASE track.req = 0 /\ s.active = NoSong
    <2>1. u.active = NoSong /\ t = ReconcileIdle(u)
      BY <1>1, <1>2, <1>4
    <2>2. PICK w \in Engine(cl) : t = MaybeStart(w) /\ Unturned(u, w)
      BY <2>1, SnapshotRests
    <2>3. Orderly(w, q) /\ w.reconciled /\ w.tasks = u.tasks
      BY <1>2, <2>2, UnturnedOrderly DEF Unturned, Alike
    <2>4. /\ Orderly(MaybeStart(w), q) /\ MaybeStart(w).reconciled = w.reconciled
          /\ MaybeStart(w).tasks = w.tasks \/ NoConsume(MaybeStart(w))
      BY <2>3, MaybeStartOrderly
    <2> QED BY <1>2, <2>2, <2>3, <2>4
  <1>5. CASE track.req = 0 /\ s.active # NoSong
    <2>1. PICK req : req = u.active.req
      OBVIOUS
    <2>2. req \in Nat /\ t = TrackEnded(u, req)
      BY <1>1, <1>2, <1>5, <2>1 DEF ReconcileIdle, Engine, Claimed, Song
    <2>3. Orderly(u, q)
      BY <1>2
    <2>4. /\ Orderly(t, q) /\ t.reconciled = u.reconciled
          /\ \/ t.tasks = u.tasks
             \/ req # 0 /\ u.active.req = req /\ Consumes(t, u.active.entry, req)
      BY <2>2, <2>3, TrackEndedOrderly
    <2> QED BY <1>2, <1>5, <2>1, <2>4
  <1> QED BY <1>3, <1>4, <1>5

\* The first snapshot after a start: it adopts the song on air, with the head if it is claimed for
\* that very request, or starts the rotation.
LEMMA SnapshotOrderly ==
    ASSUME NEW cl, NEW s \in Engine(cl), NEW q, Orderly(s, q), ~s.reconciled, NEW track \in Track,
           NEW t, t = Snapshot(StatusChanged(s, "connected", TRUE), track)
    PROVE  Onward(t, q)
  <1>1. s.active = NoSong /\ ~s.transitioning /\ AtRest(s)
    BY DEF Orderly
  <1>2. PICK v : v = StatusChanged(s, "connected", TRUE)
    OBVIOUS
  <1>3. /\ v \in Engine(cl) /\ v.queue = s.queue /\ ~v.frozen /\ v.transitioning = s.transitioning
        /\ v.active = s.active /\ v.tasks = s.tasks /\ v.bumpers = s.bumpers
    <2>1. v \in Engine(cl)
      BY <1>2, StatusChangedType DEF Statuses
    <2>2. PICK b \in BOOLEAN : b = (s.reconciled /\ ~s.frozen)
      OBVIOUS
    <2>3. v = [[s EXCEPT !.status = "connected", !.snapped = TRUE]
                 EXCEPT !.frozen = FALSE, !.reconciled = b]
      BY <1>2, <2>2 DEF StatusChanged, Engine
    <2> QED BY <2>1, <2>3 DEF Engine
  <1>4. PICK u : u = [v EXCEPT !.reconciled = TRUE, !.frozen = FALSE]
    OBVIOUS
  <1>5. /\ u \in Engine(cl) /\ u.queue = q /\ ~u.frozen /\ ~u.transitioning /\ u.reconciled
        /\ u.active = NoSong /\ u.tasks = <<>> /\ u.bumpers = {}
    BY <1>1, <1>3, <1>4 DEF Engine, Orderly, AtRest
  <1>6. ASSUME NEW w, w.queue = q, ~w.frozen, ~w.transitioning, w.reconciled,
               w.tasks = <<>>, w.bumpers = {}, OwnsHead(w, q)
        PROVE  Onward(w, q)
    <2>1. AtRest(w) /\ NoConsume(w)
      BY <1>6, RestHasNoConsume DEF AtRest
    <2> QED BY <1>6, <2>1 DEF Onward, Orderly, OneTurn
  <1>7. CASE track.req # 0
    <2>1. t = ReconcilePlaying(u, track)
      BY <1>2, <1>4, <1>7 DEF Snapshot
    <2>2. PICK song : song = Adopted(u, track)
      OBVIOUS
    <2>3. song.entry # None => q # <<>> /\ q[1].id = song.entry /\ q[1].claim = song.req /\ song.req # 0
      BY <1>5, <1>7, <2>2 DEF Adopted
    <2>4. \/ t = [u EXCEPT !.foreign = FALSE]
          \/ t = [u EXCEPT !.pending = @ \ {track.req}, !.foreign = FALSE]
          \/ t = [u EXCEPT !.active = song, !.foreign = FALSE]
          \/ t = [u EXCEPT !.foreign = TRUE]
      BY <2>1, <2>2 DEF ReconcilePlaying
    <2>5. /\ t.queue = u.queue /\ t.frozen = u.frozen /\ t.transitioning = u.transitioning
          /\ t.reconciled = u.reconciled /\ t.tasks = u.tasks /\ t.bumpers = u.bumpers
          /\ t.active = u.active \/ t.active = song
      BY <1>5, <2>4 DEF Engine
    <2>6. CASE t.active = song
      <3>1. OwnsHead(t, q)
        BY <2>3, <2>6 DEF OwnsHead
      <3> QED BY <1>5, <1>6, <2>5, <3>1
    <2>7. CASE t.active = u.active
      <3>1. t.active.entry = None
        <4>1. t.active = NoSong
          BY <1>5, <2>7
        <4>2. NoSong.entry = None
          BY DEF NoSong
        <4> QED BY <4>1, <4>2, Zenon
      <3>2. OwnsHead(t, q)
        BY <3>1 DEF OwnsHead
      <3> QED BY <1>5, <1>6, <2>5, <3>2
    <2> QED BY <2>5, <2>6, <2>7
  <1>8. CASE track.req = 0
    <2>1. PICK w : w = [u EXCEPT !.pending = {}, !.foreign = FALSE]
      OBVIOUS
    <2>2. /\ w \in Engine(cl) /\ w.queue = q /\ ~w.frozen /\ ~w.transitioning /\ w.reconciled
          /\ w.active = NoSong /\ w.tasks = <<>> /\ w.bumpers = {}
      BY <1>5, <2>1 DEF Engine
    <2>3. Onward(w, q)
      BY <1>6, <2>2 DEF OwnsHead, NoSong
    <2>4. t = MaybeStart(w)
      BY <1>2, <1>4, <1>5, <1>8, <2>1 DEF Snapshot, ReconcileIdle
    <2>5. MaybeStart(w).tasks = w.tasks => NoConsume(MaybeStart(w))
      BY <2>3 DEF Onward, NoConsume
    <2> QED BY <2>2, <2>3, <2>4, <2>5, MaybeStartOrderly DEF Onward
  <1> QED BY <1>7, <1>8

\* A failed command ends the song it activated; a queued one takes the turn to be released.
LEMMA CommandFailedOrderly ==
    ASSUME NEW cl, NEW s \in Engine(cl), NEW q, Orderly(s, q), NEW req,
           NEW t, t = CommandFailed(s, req)
    PROVE  /\ Orderly(t, q) /\ t.reconciled = s.reconciled
           /\ t.tasks = s.tasks \/ NoConsume(t)
  <1>1. PICK u : u = [s EXCEPT !.pending = @ \ {req}]
    OBVIOUS
  <1>2. PICK v : v = [u EXCEPT !.active = NoSong]
    OBVIOUS
  <1>3. /\ u \in Engine(cl) /\ u.queue = s.queue /\ u.frozen = s.frozen /\ u.reconciled = s.reconciled
        /\ u.transitioning = s.transitioning /\ u.active = s.active
        /\ u.tasks = s.tasks /\ u.bumpers = s.bumpers
    BY <1>1 DEF Engine
  <1>4. /\ v \in Engine(cl) /\ v.queue = s.queue /\ v.frozen = s.frozen /\ v.reconciled = s.reconciled
        /\ v.transitioning = s.transitioning /\ v.active = NoSong
        /\ v.tasks = s.tasks /\ v.bumpers = s.bumpers
    BY <1>2, <1>3, NoSongClaimed DEF Engine
  <1>5. Orderly(u, q)
    BY <1>3 DEF Orderly, OwnsHead, OneTurn, AtRest
  <1>6. Orderly(v, q)
    BY <1>4 DEF Orderly, OwnsHead, OneTurn, AtRest, NoSong
  <1>7. t = IF s.active.req # req THEN u ELSE IF s.active.entry = None THEN v
            ELSE ReleaseClaim(v, s.active.entry, FALSE)
    BY <1>1, <1>2 DEF CommandFailed
  <1>8. ASSUME s.active.entry # None, t = ReleaseClaim(v, s.active.entry, FALSE)
        PROVE  Onward(t, q) /\ t.reconciled = s.reconciled
    <2>1. s.active # NoSong
      BY <1>8 DEF NoSong
    <2>2. AtRest(s) /\ s.reconciled
      BY <2>1 DEF Orderly
    <2>3. AtRest(v) /\ v.active = NoSong /\ v.reconciled /\ ~v.frozen /\ v.queue = q
      BY <1>4, <2>2 DEF AtRest, Orderly
    <2>4. PICK task : task = [op |-> "release", entry |-> s.active.entry, block |-> FALSE]
      OBVIOUS
    <2>5. Asks(v, t, task) /\ task.op # "consume"
      BY <1>4, <1>8, <2>4, ReleaseClaimKeeps
    <2>6. Onward(t, q)
      BY <1>4, <2>3, <2>5, TurnPasses
    <2> QED BY <2>2, <2>6 DEF Onward
  <1> QED BY <1>3, <1>4, <1>5, <1>6, <1>7, <1>8 DEF Onward

\* The task at the head of the line gets the lock: it has the turn.
LEMMA UnlockedInTurn ==
    ASSUME IInv, NEW q, Orderly(eng, q), eng.tasks # <<>>
    PROVE  /\ Unlocked \in Engine(claims) /\ InTurn(Unlocked) /\ Unlocked.queue = q
           /\ NextTask = eng.tasks[1] /\ 1 \in 1..Len(eng.tasks) /\ NextTask \in Task
  <1>1. eng \in Engine(claims) /\ eng.tasks \in Seq(Task)
    BY DEF IInv, Engine
  <1>2. ~AtRest(eng) /\ eng.bumpers = {} /\ Len(eng.tasks) = 1
    BY DEF Orderly, OneTurn, AtRest
  <1>3. Tail(eng.tasks) \in Seq(Task) /\ Len(Tail(eng.tasks)) = 0 /\ Head(eng.tasks) \in Task
    BY <1>1, <1>2, HeadTailProperties
  <1>4. Tail(eng.tasks) = <<>>
    BY <1>3, EmptySeq
  <1>5. PICK u : u = Unlocked
    OBVIOUS
  <1>6. /\ u \in Engine(claims) /\ u.queue = eng.queue /\ u.frozen = eng.frozen
        /\ u.reconciled = eng.reconciled /\ u.transitioning = eng.transitioning
        /\ u.active = eng.active /\ u.tasks = <<>> /\ u.bumpers = eng.bumpers
    BY <1>1, <1>3, <1>4, <1>5 DEF Unlocked, Engine
  <1>7. InTurn(u) /\ u.queue = q
    BY <1>2, <1>6 DEF InTurn, AtRest, Orderly
  <1> QED BY <1>1, <1>2, <1>3, <1>5, <1>6, <1>7 DEF NextTask

--------------------------------------------------------------------------------
\* The station while its operators use nothing but the queue

\* Operators neither take a song on air by hand, nor stop, nor save another playlist, and an outage of
\* the stream is over before a poll is due.  Songs end, the stream breaks and opens again, commands and
\* writes fail and the backend restarts as often as they like, and mixer saves overlap everything.
OnlyTheQueue ==
    /\ ~PollReads
    /\ \A item \in Items \cup {None} : ~PlayManually(item)
    /\ \A full \in BOOLEAN : ~StopReads(full)
    /\ \A saves \in Edits : ~EditReads(saves)

\* The engine reads the snapshot of a reconnection, and what it takes from it.
Rereads == ReadFrame /\ Head(tel.wire).kind = "snapshot" /\ eng.reconciled
Reread == IF Head(tel.wire).track = Idle THEN Idle ELSE palazzo.onAir

\* It finds the song the engine believes on air, or finds that this song is over.
FindsItsSong ==
    Rereads => IF Reread.req = 0 THEN eng.active # NoSong => Over(eng.active.req)
               ELSE eng.active.req = Reread.req

\* None of that is under way.
Undisturbed ==
    /\ tel.poll = {} /\ stop.stage = "none"
    /\ \A e \in edit : e.saves = None

\* The stored queue is tidy and made of entries handed out.
Stocked == Tidy(db.queue) /\ IdsIn(db.queue) \subseteq minted

\* An entry about to be consumed was claimed for a request that is over on Palazzo.
Spent ==
    \A i \in 1..Len(eng.tasks) :
        eng.tasks[i].op = "consume" =>
            /\ <<eng.tasks[i].cont.entry, eng.tasks[i].cont.req>> \in claims
            /\ Over(eng.tasks[i].cont.req)

\* Palazzo knows the request it plays, and none has the number 0.
Heard ==
    /\ 0 \notin palazzo.seen
    /\ palazzo.onAir.req = 0 \/ palazzo.onAir.req \in palazzo.seen

\* The next frame is the snapshot a connection begins with.
SnapshotAhead == tel.wire # <<>> /\ tel.wire[1].kind = "snapshot"

\* An open stream delivers everything Palazzo announces, in order and, from its snapshot on, without a
\* gap; what is announced as ended is over.
Wired ==
    /\ tel.last <= palazzo.seq
    /\ \A i \in 1..Len(tel.wire) :
          /\ tel.wire[i].kind = "snapshot" => i = 1
          /\ tel.wire[i].seq = palazzo.seq - Len(tel.wire) + i
          /\ tel.wire[i].kind = "ended" => tel.wire[i].track.req = 0 \/ Over(tel.wire[i].track.req)
    /\ \/ ~tel.sse
       \/ SnapshotAhead
       \/ eng.reconciled /\ palazzo.seq - Len(tel.wire) <= tel.last
    /\ ~tel.sse => tel.wire = <<>>

\* The inductive invariant: it is the order of the engine that keeps the head with the active song,
\* and the wire that lets the engine consume only what is over.
Calm == Undisturbed /\ Stocked /\ Orderly(eng, db.queue) /\ Spent /\ Heard /\ Wired

\* What EntryLeavesAfterItsEnd says of one step.
Leaving ==
    \A i \in 1..Len(db.queue) :
        \/ db.queue[i].id \in IdsIn(db'.queue)
        \/ left'.remove < left.remove
        \/ \E c \in claims : c[1] = db.queue[i].id /\ Over(c[2])

LEMMA NothingLeaves ==
    ASSUME IdsIn(db.queue) \subseteq IdsIn(db'.queue)
    PROVE  Leaving
  BY DEF Leaving, IdsIn

LEMMA CalmMeans ==
    ASSUME IInv, Calm
    PROVE  /\ eng \in Engine(claims) /\ db.queue \in Seq(Backed(claims))
           /\ Stored = db.queue /\ Tidy(db.queue) /\ eng.queue = db.queue
           /\ IdsIn(db.queue) \subseteq Entries /\ None \notin IdsIn(db.queue)
  <1>1. eng \in Engine(claims) /\ db.queue \in Seq(Backed(claims)) /\ minted \subseteq Entries
    BY DEF IInv, BackedRow
  <1>2. Stored = db.queue
    BY <1>1, TidyIsNormal DEF Calm, Stocked, Stored
  <1>3. IdsIn(db.queue) \subseteq Entries /\ None \notin IdsIn(db.queue)
    BY <1>1, QueueAssumption DEF Calm, Stocked
  <1> QED BY <1>1, <1>2, <1>3 DEF Calm, Stocked, Orderly

\* A step of the engine and its row: what it has to keep.
LEMMA CalmKept ==
    ASSUME IInv, Calm, UNCHANGED <<palazzo, tel, stop>>, \A e \in edit' : e.saves = None,
           Stocked', claims \subseteq claims', Orderly(eng', db'.queue),
           eng'.reconciled = eng.reconciled, eng'.tasks = eng.tasks \/ NoConsume(eng')
    PROVE  Calm'
  <1>1. Undisturbed' /\ Heard'
    BY DEF Calm, Undisturbed, Heard
  <1>2. \A req : Over(req) => Over(req)'
    BY DEF Over
  <1>3. Spent'
    BY <1>2 DEF Calm, Spent, NoConsume
  <1>4. Wired'
    BY <1>2 DEF Calm, Wired, SnapshotAhead
  <1> QED BY <1>1, <1>3, <1>4 DEF Calm

\* One that leaves the row alone.
LEMMA EngineCalm ==
    ASSUME IInv, Calm, UNCHANGED <<db, palazzo, tel, stop, edit, claims, minted>>,
           Orderly(eng', db.queue),
           eng'.reconciled = eng.reconciled, eng'.tasks = eng.tasks \/ NoConsume(eng')
    PROVE  Calm' /\ Leaving
  <1>1. Stocked' /\ \A e \in edit' : e.saves = None
    BY DEF Calm, Stocked, Undisturbed
  <1>2. Orderly(eng', db'.queue)
    OBVIOUS
  <1> QED BY <1>1, <1>2, CalmKept, NothingLeaves

\* The commands in flight do not matter to the order.
LEMMA SendsOrderly ==
    ASSUME NEW cl, NEW s \in Engine(cl), NEW q, Orderly(s, q), NEW sends \in SUBSET Send, NEW t,
           t = [s EXCEPT !.sends = sends]
    PROVE  /\ t \in Engine(cl) /\ Orderly(t, q) /\ t.reconciled = s.reconciled
           /\ t.tasks = s.tasks
  <1>1. /\ t \in Engine(cl) /\ t.queue = s.queue /\ t.frozen = s.frozen
        /\ t.reconciled = s.reconciled /\ t.transitioning = s.transitioning /\ t.active = s.active
        /\ t.tasks = s.tasks /\ t.bumpers = s.bumpers
    BY DEF Engine
  <1> QED BY <1>1 DEF Orderly, OwnsHead, OneTurn, AtRest

LEMMA PostCommandCalm ==
    ASSUME IInv, Calm, NEW c, PostCommand(c)
    PROVE  Calm' /\ Leaving
  <1>1. PICK sends : sends = IF eng.active.req = c.req
                             THEN (eng.sends \ {c}) \cup {[c EXCEPT !.stage = "posted"]}
                             ELSE eng.sends \ {c}
    OBVIOUS
  <1>2. c \in Send /\ eng.sends \in SUBSET Send /\ eng \in Engine(claims)
    BY DEF IInv, PostCommand, Engine
  <1>3. sends \in SUBSET Send
    BY <1>1, <1>2, Restaged
  <1>4. eng' = [eng EXCEPT !.sends = sends]
    BY <1>1 DEF PostCommand
  <1>5. Orderly(eng', db.queue) /\ eng'.reconciled = eng.reconciled /\ eng'.tasks = eng.tasks
    BY <1>2, <1>3, <1>4, SendsOrderly DEF Calm
  <1> QED BY <1>5, EngineCalm DEF PostCommand

LEMMA CommandSucceedsCalm ==
    ASSUME IInv, Calm, NEW c, CommandSucceeds(c)
    PROVE  Calm' /\ Leaving
  <1>0. PICK sends : sends = eng.sends \ {c}
    OBVIOUS
  <1>1. sends \in SUBSET Send /\ eng \in Engine(claims)
    BY <1>0 DEF IInv, Engine
  <1>2. eng' = [eng EXCEPT !.sends = sends]
    BY <1>0 DEF CommandSucceeds
  <1>3. Orderly(eng', db.queue) /\ eng'.reconciled = eng.reconciled /\ eng'.tasks = eng.tasks
    BY <1>1, <1>2, SendsOrderly DEF Calm
  <1> QED BY <1>3, EngineCalm DEF CommandSucceeds

LEMMA CommandFailsCalm ==
    ASSUME IInv, Calm, NEW c, CommandFails(c)
    PROVE  Calm' /\ Leaving
  <1>0. PICK sends : sends = eng.sends \ {c}
    OBVIOUS
  <1>1. sends \in SUBSET Send /\ eng \in Engine(claims)
    BY <1>0 DEF IInv, Engine
  <1>2. PICK s : s = [eng EXCEPT !.sends = sends]
    OBVIOUS
  <1>3. /\ s \in Engine(claims) /\ Orderly(s, db.queue)
        /\ s.reconciled = eng.reconciled /\ s.tasks = eng.tasks
    BY <1>1, <1>2, SendsOrderly DEF Calm
  <1>4. eng' = CommandFailed(s, c.req)
    BY <1>0, <1>2 DEF CommandFails
  <1>5. /\ Orderly(eng', db.queue) /\ eng'.reconciled = eng.reconciled
        /\ eng'.tasks = eng.tasks \/ NoConsume(eng')
    BY <1>3, <1>4, CommandFailedOrderly
  <1> QED BY <1>5, EngineCalm DEF CommandFails

--------------------------------------------------------------------------------
\* The tasks

\* A task leaves the engine onward, and the row with the same entries.
LEMMA TaskCalm ==
    ASSUME IInv, Calm, RunTask, NEW q, db'.queue = q, Tidy(q), IdsIn(q) \subseteq IdsIn(db.queue),
           claims \subseteq claims', Onward(eng', q)
    PROVE  Calm'
  <1>1. eng.tasks # <<>> /\ UNCHANGED <<palazzo, tel, stop, edit, minted, left>>
    BY DEF RunTask
  <1>2. eng.reconciled
    BY <1>1 DEF Calm, Orderly, AtRest
  <1>3. Stocked' /\ \A e \in edit' : e.saves = None
    BY <1>1 DEF Calm, Stocked, Undisturbed
  <1>4. eng'.reconciled = TRUE /\ eng.reconciled = TRUE
    <2>1. eng'.reconciled /\ eng.reconciled
      BY <1>2 DEF Onward
    <2>2. eng.reconciled \in BOOLEAN /\ eng'.reconciled \in BOOLEAN
      BY RunTaskStep DEF IInv, Engine
    <2> QED BY <2>1, <2>2
  <1>5. Orderly(eng', db'.queue) /\ NoConsume(eng')
    BY DEF Onward
  <1> QED BY <1>1, <1>3, <1>4, <1>5, CalmKept

LEMMA RunClaimCalm ==
    ASSUME IInv, Calm, RunTask, RunClaim
    PROVE  Calm' /\ Leaving
  <1>1. /\ Unlocked \in Engine(claims) /\ InTurn(Unlocked) /\ Unlocked.queue = db.queue
        /\ NextTask \in Task
    BY UnlockedInTurn DEF Calm, RunTask
  <1>2. PICK entry, req : entry = NextTask.entry /\ req = NextTask.req
    OBVIOUS
  <1>3. entry \in Entries /\ req \in Nat
    BY <1>1, <1>2 DEF Task, RunClaim
  <1>4. CASE Stored # <<>> /\ Stored[1].id = entry /\ Stored[1].claim = 0
    <2>1. PICK q : q = HeadClaimed(db.queue, req)
      OBVIOUS
    <2>2. /\ db' = [db EXCEPT !.queue = q] /\ eng' = ClaimWon(Unlocked, q)
          /\ claims' = claims \cup {<<entry, req>>}
      BY <1>2, <1>4, <2>1, CalmMeans DEF RunClaim
    <2>3. /\ q \in Seq(Backed(claims')) /\ Tidy(q) /\ IdsIn(q) = IdsIn(db.queue) /\ q # <<>>
      BY <1>3, <1>4, <2>1, <2>2, CalmMeans, HeadClaimedBacked, HeadClaimedTidy
    <2>4. Unlocked \in Engine(claims')
      BY <1>1, <2>2, EngineGrows
    <2>5. Onward(eng', q)
      BY <1>1, <2>2, <2>3, <2>4, ClaimWonOrderly
    <2>6. db'.queue = q
      BY <2>2 DEF IInv, BackedRow
    <2> QED BY <2>2, <2>3, <2>5, <2>6, TaskCalm, NothingLeaves
  <1>5. CASE ~(Stored # <<>> /\ Stored[1].id = entry /\ Stored[1].claim = 0)
    <2>1. eng' = ClaimLost(Unlocked, db.queue) /\ db' = db /\ claims' = claims
      BY <1>2, <1>5, CalmMeans DEF RunClaim
    <2>2. Onward(eng', db.queue)
      BY <1>1, <2>1, CalmMeans, ClaimLostOrderly
    <2> QED BY <2>1, <2>2, CalmMeans, TaskCalm, NothingLeaves
  <1> QED BY <1>4, <1>5

LEMMA RunReleaseCalm ==
    ASSUME IInv, Calm, RunTask, RunRelease
    PROVE  Calm' /\ Leaving
  <1>1. /\ Unlocked \in Engine(claims) /\ InTurn(Unlocked) /\ NextTask \in Task
    BY UnlockedInTurn DEF Calm, RunTask
  <1>2. PICK q : q = Released(db.queue, NextTask.entry)
    OBVIOUS
  <1>3. q \in Seq(Backed(claims)) /\ Tidy(q) /\ IdsIn(q) = IdsIn(db.queue)
    BY <1>2, CalmMeans, ReleasedBacked, ReleasedTidy
  <1>4. NextTask.block \in BOOLEAN
    BY <1>1 DEF Task, RunRelease
  <1>5. /\ db' = IF q = db.queue THEN db ELSE [db EXCEPT !.queue = q]
        /\ eng' = ClaimReleased(Unlocked, q, NextTask.block) /\ claims' = claims
    BY <1>2, CalmMeans DEF RunRelease
  <1>6. db'.queue = q
    BY <1>5 DEF IInv, BackedRow
  <1>7. Onward(eng', q)
    BY <1>1, <1>3, <1>4, <1>5, ClaimReleasedOrderly
  <1> QED BY <1>3, <1>5, <1>6, <1>7, TaskCalm, NothingLeaves

\* The entry that leaves is the one whose request is over.
LEMMA RunConsumeCalm ==
    ASSUME IInv, Calm, RunTask, RunConsume
    PROVE  Calm' /\ Leaving
  <1>1. /\ Unlocked \in Engine(claims) /\ InTurn(Unlocked) /\ NextTask \in Task
        /\ NextTask = eng.tasks[1] /\ 1 \in 1..Len(eng.tasks)
    BY UnlockedInTurn DEF Calm, RunTask
  <1>2. PICK cont : cont = NextTask.cont
    OBVIOUS
  <1>3. <<cont.entry, cont.req>> \in claims /\ Over(cont.req)
    BY <1>1, <1>2 DEF Calm, Spent, RunConsume
  <1>4. PICK q : q = Without(db.queue, cont.entry)
    OBVIOUS
  <1>5. /\ q \in Seq(Backed(claims)) /\ Tidy(q) /\ IdsIn(q) \subseteq IdsIn(db.queue)
        /\ IdsIn(db.queue) \subseteq IdsIn(q) \cup {cont.entry}
    BY <1>4, CalmMeans, WithoutBacked, WithoutTidy
  <1>6. PICK t : t = ApplyQueue(Unlocked, q)
    OBVIOUS
  <1>7. t \in Engine(claims) /\ InTurn(t) /\ t.queue = q
    BY <1>1, <1>5, <1>6, ApplyQueueInTurn
  <1>8. /\ db' = [db EXCEPT !.queue = q] /\ eng' = [t EXCEPT !.bumpers = @ \cup {cont}]
        /\ claims' = claims
    BY <1>2, <1>4, <1>6, CalmMeans DEF RunConsume
  <1>9. Onward(eng', q)
    BY <1>7, <1>8, TurnToBumper
  <1>10. db'.queue = q
    BY <1>8 DEF IInv, BackedRow
  <1>11. Calm'
    BY <1>5, <1>8, <1>9, <1>10, TaskCalm
  <1>12. ASSUME NEW i \in 1..Len(db.queue), db.queue[i].id \notin IdsIn(db'.queue)
         PROVE  \E c \in claims : c[1] = db.queue[i].id /\ Over(c[2])
    <2>1. db.queue[i].id = cont.entry
      BY <1>5, <1>10, <1>12 DEF IdsIn
    <2> QED BY <1>3, <2>1
  <1> QED BY <1>11, <1>12 DEF Leaving

LEMMA RunSaveCalm ==
    ASSUME IInv, Calm, RunTask, RunSave
    PROVE  Calm' /\ Leaving
  <1>1. /\ Unlocked \in Engine(claims) /\ InTurn(Unlocked) /\ Unlocked.queue = db.queue
        /\ NextTask \in Task
    BY UnlockedInTurn DEF Calm, RunTask
  <1>2. NextTask.cont \in Continuation /\ NextTask.cont.next \in Sequence
    BY <1>1 DEF Task, RunSave, Continuation
  <1>3. PICK u : u = [Unlocked EXCEPT !.seq = NextTask.cont.next]
    OBVIOUS
  <1>4. u \in Engine(claims) /\ InTurn(u) /\ u.queue = db.queue
    BY <1>1, <1>2, <1>3 DEF Engine, InTurn, AtRest
  <1>5. PICK t : t = CursorSaved(Unlocked, NextTask.cont.next)
    OBVIOUS
  <1>6. t \in Engine(claims) /\ InTurn(t) /\ t.queue = db.queue
    BY <1>1, <1>3, <1>4, <1>5, CalmMeans, ApplyQueueInTurn DEF CursorSaved
  <1>7. /\ db' = [db EXCEPT !.seq = NextTask.cont.next] /\ claims' = claims
        /\ \/ eng' = [t EXCEPT !.bumpers = @ \cup {[NextTask.cont EXCEPT !.saved = TRUE]}]
           \/ eng' = ResumeQueue(t)
    BY <1>5 DEF RunSave
  <1>8. Onward(eng', db.queue)
    BY <1>6, <1>7, TurnToBumper, ResumeQueueOrderly
  <1>9. db'.queue = db.queue
    BY <1>7 DEF IInv, BackedRow
  <1> QED BY <1>7, <1>8, <1>9, CalmMeans, TaskCalm, NothingLeaves

LEMMA TaskFailsCalm ==
    ASSUME IInv, Calm, TaskFails
    PROVE  Calm' /\ Leaving
  <1>1. /\ Unlocked \in Engine(claims) /\ InTurn(Unlocked) /\ Unlocked.queue = db.queue
    BY UnlockedInTurn DEF Calm, TaskFails
  <1>2. Onward(eng', db.queue)
    BY <1>1, BlockQueueOrderly DEF TaskFails
  <1>3. eng.reconciled
    BY DEF Calm, Orderly, AtRest, TaskFails
  <1>4. eng.reconciled \in BOOLEAN /\ eng'.reconciled \in BOOLEAN
    BY TaskFailsStep DEF IInv, Engine
  <1>5. /\ Orderly(eng', db.queue) /\ NoConsume(eng') /\ eng'.reconciled = eng.reconciled
    BY <1>2, <1>3, <1>4 DEF Onward
  <1> QED BY <1>5, EngineCalm DEF TaskFails

LEMMA BumperEndsCalm ==
    ASSUME IInv, Calm, NEW cont, BumperEnds(cont)
    PROVE  Calm' /\ Leaving
  <1>1. eng \in Engine(claims) /\ cont \in Continuation
    BY DEF IInv, Engine, BumperEnds
  <1>2. ~AtRest(eng) /\ eng.tasks = <<>> /\ eng.bumpers = {cont}
    <2>1. ~AtRest(eng)
      BY DEF BumperEnds, AtRest
    <2> QED BY <2>1 DEF Calm, Orderly, OneTurn, BumperEnds
  <1>3. PICK u : u = [eng EXCEPT !.bumpers = @ \ {cont}]
    OBVIOUS
  <1>4. /\ u \in Engine(claims) /\ u.queue = eng.queue /\ u.frozen = eng.frozen
        /\ u.reconciled = eng.reconciled /\ u.transitioning = eng.transitioning
        /\ u.active = eng.active /\ u.tasks = <<>> /\ u.bumpers = {}
    BY <1>1, <1>2, <1>3 DEF Engine
  <1>5. InTurn(u) /\ u.queue = db.queue /\ eng.reconciled
    BY <1>2, <1>4 DEF InTurn, AtRest, Calm, Orderly
  <1>6. eng' = AfterBumper(u, cont)
    BY <1>3 DEF BumperEnds
  <1>7. Onward(eng', db.queue)
    BY <1>1, <1>4, <1>5, <1>6, AfterBumperOrderly
  <1>8. eng.reconciled \in BOOLEAN /\ eng'.reconciled \in BOOLEAN
    BY BumperEndsStep DEF IInv, Engine
  <1>9. /\ Orderly(eng', db.queue) /\ NoConsume(eng') /\ eng'.reconciled = eng.reconciled
    BY <1>5, <1>7, <1>8 DEF Onward
  <1> QED BY <1>9, EngineCalm DEF BumperEnds

--------------------------------------------------------------------------------
\* The operators of the queue, the mixer and the restart

\* A write to the queue that keeps the active entry at its head.
LEMMA QueueCalm ==
    ASSUME IInv, Calm, NEW q \in Seq(Backed(claims)), Tidy(q), IdsIn(q) \subseteq minted',
           OwnsHead(eng, q), db' = [db EXCEPT !.queue = q], eng' = ApplyQueue(eng, q),
           UNCHANGED <<palazzo, tel, stop, edit, claims>>
    PROVE  Calm' /\ db'.queue = q
  <1>1. db'.queue = q
    BY DEF IInv, BackedRow
  <1>2. /\ Orderly(eng', q) /\ eng'.reconciled = eng.reconciled
        /\ eng'.tasks = eng.tasks \/ NoConsume(eng')
    BY CalmMeans, ApplyQueueOrderly DEF Calm
  <1>3. Stocked' /\ \A e \in edit' : e.saves = None
    BY <1>1 DEF Calm, Stocked, Undisturbed
  <1> QED BY <1>1, <1>2, <1>3, CalmKept

LEMMA EnqueueCalm ==
    ASSUME IInv, Calm, NEW item \in Items, Enqueue(item)
    PROVE  Calm' /\ Leaving
  <1>1. PICK e : e = CHOOSE x \in Entries : x \notin minted
    OBVIOUS
  <1>2. e \in Entries /\ e \notin minted
    BY <1>1 DEF IInv, Enqueue
  <1>3. e \notin IdsIn(db.queue)
    BY <1>2 DEF Calm, Stocked
  <1>4. PICK q : q = Enqueued(db.queue, e, item)
    OBVIOUS
  <1>5. /\ q \in Seq(Backed(claims)) /\ Tidy(q) /\ IdsIn(q) = IdsIn(db.queue) \cup {e}
        /\ db.queue # <<>> => q[1] = db.queue[1]
        /\ q # <<>>
    BY <1>2, <1>3, <1>4, CalmMeans, EnqueuedBacked, EnqueuedTidy
  <1>6. /\ minted' = minted \cup {e} /\ db' = [db EXCEPT !.queue = q] /\ eng' = ApplyQueue(eng, q)
        /\ UNCHANGED <<palazzo, tel, stop, edit, claims>>
    BY <1>1, <1>4, CalmMeans DEF Enqueue
  <1>7. OwnsHead(eng, q)
    BY <1>5 DEF Calm, Orderly, OwnsHead
  <1>8. IdsIn(q) \subseteq minted'
    BY <1>5, <1>6 DEF Calm, Stocked
  <1>9. Calm' /\ db'.queue = q
    BY <1>5, <1>6, <1>7, <1>8, QueueCalm
  <1> QED BY <1>5, <1>9, NothingLeaves

\* Only an unclaimed entry is removed, and the active one is claimed.
LEMMA RemoveEntryCalm ==
    ASSUME IInv, Calm, NEW e, RemoveEntry(e)
    PROVE  Calm' /\ Leaving
  <1>1. PICK q : q = Without(db.queue, e)
    OBVIOUS
  <1>2. /\ q \in Seq(Backed(claims)) /\ Tidy(q) /\ IdsIn(q) \subseteq IdsIn(db.queue)
        /\ db.queue # <<>> /\ db.queue[1].id # e => q # <<>> /\ q[1] = db.queue[1]
    BY <1>1, CalmMeans, WithoutBacked, WithoutTidy
  <1>3. PICK i \in 1..Len(db.queue) : db.queue[i].id = e /\ db.queue[i].claim = 0
    BY CalmMeans DEF RemoveEntry, PositionsOf
  <1>4. Len(db.queue) \in Nat
    BY CalmMeans, LenProperties
  <1>5. OwnsHead(eng, q)
    <2>1. OwnsHead(eng, db.queue)
      BY DEF Calm, Orderly
    <2>2. ASSUME eng.active.entry # None PROVE db.queue[1].id # e
      <3>1. db.queue[1].claim # 0 /\ 1 \in 1..Len(db.queue)
        BY <1>3, <1>4, <2>1, <2>2 DEF OwnsHead
      <3>2. ASSUME db.queue[1].id = e PROVE FALSE
        <4>1. i = 1
          BY <1>3, <3>1, <3>2, CalmMeans DEF Tidy
        <4> QED BY <1>3, <3>1, <4>1
      <3> QED BY <3>2
    <2> QED BY <1>2, <2>1, <2>2 DEF OwnsHead
  <1>6. /\ db' = [db EXCEPT !.queue = q] /\ eng' = ApplyQueue(eng, q)
        /\ UNCHANGED <<palazzo, tel, stop, edit, claims, minted>>
    BY <1>1, CalmMeans DEF RemoveEntry
  <1>7. IdsIn(q) \subseteq minted'
    BY <1>2, <1>6 DEF Calm, Stocked
  <1>8. Calm'
    BY <1>2, <1>5, <1>6, <1>7, QueueCalm
  <1>9. left'.remove < left.remove
    BY DEF RemoveEntry, Spend, IInv, Kinds
  <1> QED BY <1>8, <1>9 DEF Leaving

\* A claimed head is pinned, so is an active entry.
LEMMA ReorderCalm ==
    ASSUME IInv, Calm, Reorder
    PROVE  Calm' /\ Leaving
  <1>1. PICK q \in Reorderings(db.queue, Playing) :
           db' = [db EXCEPT !.queue = q] /\ eng' = ApplyQueue(eng, q)
    BY CalmMeans DEF Reorder
  <1>2. db.queue # <<>> /\ db.queue[1].claim # 0 => Playing = db.queue[1].id
    BY CalmMeans DEF Playing
  <1>3. /\ q \in Seq(Backed(claims)) /\ Tidy(q) /\ IdsIn(q) = IdsIn(db.queue)
        /\ db.queue # <<>> /\ db.queue[1].claim # 0 => q # <<>> /\ q[1] = db.queue[1]
    BY <1>2, CalmMeans, ReorderingBacked, ReorderedTidy
  <1>4. OwnsHead(eng, q)
    BY <1>3 DEF Calm, Orderly, OwnsHead
  <1>5. UNCHANGED <<palazzo, tel, stop, edit, claims, minted>>
    BY DEF Reorder
  <1>6. IdsIn(q) \subseteq minted'
    BY <1>3, <1>5 DEF Calm, Stocked
  <1>7. Calm' /\ db'.queue = q
    BY <1>1, <1>3, <1>4, <1>5, <1>6, QueueCalm
  <1> QED BY <1>3, <1>7, NothingLeaves

\* A mixer save reads and writes the playlist of the row, never its queue.
LEMMA EditReadsCalm ==
    ASSUME IInv, Calm, NEW saves, saves = None, EditReads(saves)
    PROVE  Calm' /\ Leaving
  <1>1. edit' = edit \cup {[saves |-> None, row |-> db]}
    BY DEF EditReads
  <1>2. \A e \in edit' : e.saves = None
    BY <1>1 DEF Calm, Undisturbed
  <1>3. UNCHANGED <<eng, db, palazzo, tel, stop, claims, minted>>
    BY DEF EditReads
  <1>4. Stocked' /\ Orderly(eng', db'.queue)
    BY <1>3 DEF Calm, Stocked
  <1> QED BY <1>2, <1>3, <1>4, CalmKept, NothingLeaves

LEMMA EditWritesCalm ==
    ASSUME IInv, Calm, NEW e \in edit, EditWrites(e)
    PROVE  Calm' /\ Leaving
  <1>1. e.saves = None
    BY DEF Calm, Undisturbed
  <1>2. /\ db' = [db EXCEPT !.seq = e.row.seq] /\ edit' = edit \ {e}
        /\ UNCHANGED <<eng, palazzo, tel, stop, claims, minted>>
    BY <1>1 DEF EditWrites
  <1>3. db'.queue = db.queue
    BY <1>2 DEF IInv, BackedRow
  <1>4. Stocked' /\ Orderly(eng', db'.queue) /\ \A f \in edit' : f.saves = None
    BY <1>2, <1>3 DEF Calm, Stocked, Undisturbed
  <1> QED BY <1>2, <1>3, <1>4, CalmKept, NothingLeaves

\* The restarted engine takes its queue from the row.
LEMMA BootedOrderly ==
    ASSUME NEW cl, NEW seq \in Sequence, NEW q \in Seq(Backed(cl)), Tidy(q), NEW n \in Nat
    PROVE  /\ Orderly(Booted(seq, q, n), q) /\ NoConsume(Booted(seq, q, n))
           /\ ~Booted(seq, q, n).reconciled
  <1>1. PICK t : t = Booted(seq, q, n)
    OBVIOUS
  <1>2. /\ t.queue = NormalizeQueue(q) /\ ~t.frozen /\ ~t.reconciled /\ ~t.transitioning
        /\ t.active = NoSong /\ t.tasks = <<>> /\ t.bumpers = {}
    BY <1>1 DEF Booted
  <1>3. t.queue = q
    BY <1>2, TidyIsNormal
  <1>4. AtRest(t) /\ NoConsume(t)
    BY <1>2, RestHasNoConsume DEF AtRest
  <1>5. OwnsHead(t, q)
    BY <1>2 DEF OwnsHead, NoSong
  <1> QED BY <1>1, <1>2, <1>3, <1>4, <1>5 DEF Orderly, OneTurn

LEMMA OfflineWired ==
    ASSUME tel = Offline, palazzo.seq \in Nat
    PROVE  Wired
  <1>1. tel.wire = <<>> /\ tel.sse = FALSE /\ Len(tel.wire) = 0 /\ tel.last = 0
    BY EmptySeq DEF Offline
  <1> QED BY <1>1 DEF Wired

LEMMA RestartCalm ==
    ASSUME IInv, Calm, Restart
    PROVE  Calm' /\ Leaving
  <1>1. /\ eng' = Booted(db.seq, db.queue, eng.issued) /\ tel' = Offline /\ stop' = NoStop
        /\ edit' = {} /\ UNCHANGED <<db, palazzo, claims, minted>>
    BY DEF Restart
  <1>2. db.seq \in Sequence /\ eng.issued \in Nat
    BY DEF IInv, BackedRow, Engine
  <1>3. Orderly(eng', db.queue) /\ NoConsume(eng') /\ ~eng'.reconciled
    BY <1>1, <1>2, CalmMeans, BootedOrderly
  <1>4. Undisturbed' /\ Stocked' /\ Heard'
    BY <1>1 DEF Calm, Undisturbed, Stocked, Heard, Offline, NoStop
  <1>5. Spent'
    BY <1>3 DEF Spent, NoConsume
  <1>6. /\ tel'.wire = <<>> /\ tel'.sse = FALSE /\ Len(tel'.wire) = 0 /\ tel'.last = 0
        /\ palazzo'.seq \in Nat
    BY <1>1, EmptySeq DEF Offline, IInv, Appliance
  <1>7. Wired'
    BY <1>6 DEF Wired
  <1> QED BY <1>1, <1>3, <1>4, <1>5, <1>7, NothingLeaves DEF Calm

LEMMA InitCalm == Init => Calm
  <1> SUFFICES ASSUME Init PROVE Calm
    OBVIOUS
  <1>1. <<>> \in Seq(Backed(claims)) /\ Len(<<>>) = 0
    BY EmptySeq
  <1>2. Tidy(<<>>) /\ IdsIn(<<>>) = {}
    BY <1>1 DEF Tidy, IdsIn
  <1>3. Orderly(eng, db.queue) /\ NoConsume(eng) /\ ~eng.reconciled
    BY <1>1, <1>2, BootedOrderly, EngineAssumption DEF Init
  <1>4. Undisturbed /\ Stocked /\ Heard
    BY <1>2 DEF Init, Undisturbed, Stocked, Heard, Offline, NoStop, Idle
  <1>5. Wired
    BY OfflineWired DEF Init
  <1> QED BY <1>3, <1>4, <1>5 DEF Calm, Spent, NoConsume

--------------------------------------------------------------------------------
\* Palazzo and its stream

\* What a switch announces: the end of the track that was on air, then the start of the next.
LEMMA SwitchAnnounces ==
    ASSUME palazzo \in Appliance, tel \in Link, NEW track \in Track, Switch(track)
    PROVE  \E frames \in Seq(Frame) :
              /\ palazzo' = [onAir |-> track, seen |-> palazzo.seen \cup ({track.req} \ {0}),
                             seq |-> palazzo.seq + Len(frames)]
              /\ tel' = [tel EXCEPT !.wire = IF tel.sse THEN @ \o frames ELSE @]
              /\ \A j \in 1..Len(frames) :
                    /\ frames[j].kind # "snapshot" /\ frames[j].seq = palazzo.seq + j
                    /\ frames[j].kind = "ended" => frames[j].track = palazzo.onAir
  <1>1. PICK ended : ended = [kind |-> "ended", track |-> palazzo.onAir, seq |-> palazzo.seq + 1]
    OBVIOUS
  <1>2. PICK begun : begun = [kind |-> "started", track |-> track, seq |-> palazzo.seq + 1]
    OBVIOUS
  <1>3. PICK after : after = [begun EXCEPT !.seq = @ + 1]
    OBVIOUS
  <1>4. /\ ended \in Frame /\ ended.kind = "ended" /\ ended.seq = palazzo.seq + 1
        /\ ended.track = palazzo.onAir
        /\ begun \in Frame /\ begun.kind = "started" /\ begun.seq = palazzo.seq + 1
        /\ after \in Frame /\ after.kind = "started" /\ after.seq = palazzo.seq + 2
    BY <1>1, <1>2, <1>3 DEF Appliance, Frame
  <1>5. PICK frames : frames = IF palazzo.onAir = Idle THEN <<begun>>
                               ELSE IF track = Idle THEN <<ended>> ELSE <<ended, after>>
    OBVIOUS
  <1>6. /\ palazzo' = [onAir |-> track, seen |-> palazzo.seen \cup ({track.req} \ {0}),
                       seq |-> palazzo.seq + Len(frames)]
        /\ tel' = [tel EXCEPT !.wire = IF tel.sse THEN @ \o frames ELSE @]
    BY <1>1, <1>2, <1>3, <1>5 DEF Switch
  <1>7. /\ frames \in Seq(Frame)
        /\ \A j \in 1..Len(frames) :
              /\ frames[j].kind # "snapshot" /\ frames[j].seq = palazzo.seq + j
              /\ frames[j].kind = "ended" => frames[j].track = palazzo.onAir
    BY <1>4, <1>5
  <1> QED BY <1>6, <1>7

\* A switch to a request Palazzo has not heard of.
LEMMA SwitchCalm ==
    ASSUME IInv, Heard, Wired, NEW track \in Track, track.req \notin palazzo.seen, Switch(track),
           eng'.reconciled = eng.reconciled
    PROVE  Heard' /\ Wired' /\ \A req : Over(req) => Over(req)'
  <1>1. palazzo \in Appliance /\ tel \in Link /\ eng.reconciled \in BOOLEAN
    BY DEF IInv, Engine
  <1>2. PICK frames \in Seq(Frame) :
           /\ palazzo' = [onAir |-> track, seen |-> palazzo.seen \cup ({track.req} \ {0}),
                          seq |-> palazzo.seq + Len(frames)]
           /\ tel' = [tel EXCEPT !.wire = IF tel.sse THEN @ \o frames ELSE @]
           /\ \A j \in 1..Len(frames) :
                 /\ frames[j].kind # "snapshot" /\ frames[j].seq = palazzo.seq + j
                 /\ frames[j].kind = "ended" => frames[j].track = palazzo.onAir
    BY <1>1, SwitchAnnounces
  <1>3. /\ palazzo'.onAir = track /\ palazzo'.seq = palazzo.seq + Len(frames)
        /\ palazzo'.seen = palazzo.seen \cup ({track.req} \ {0})
    BY <1>2
  <1>4. Heard'
    BY <1>3 DEF Heard
  <1>5. ASSUME NEW req, Over(req) PROVE Over(req)'
    BY <1>3, <1>5 DEF Over, Heard
  <1>0. PICK aired : aired = palazzo.onAir.req
    OBVIOUS
  <1>6. aired = 0 \/ Over(aired)'
    BY <1>0, <1>3 DEF Over, Heard
  <1>7. CASE ~tel.sse
    <2>1. tel' = tel /\ tel.wire = <<>> /\ tel.last <= palazzo.seq
      BY <1>1, <1>2, <1>7 DEF Wired, Link
    <2>2. Len(tel'.wire) = 0
      BY <2>1, EmptySeq
    <2>3. tel'.last <= palazzo'.seq
      <3>1. tel.last \in Nat /\ palazzo.seq \in Nat /\ Len(frames) \in Nat
        BY <1>1, LenProperties DEF Link, Appliance
      <3> QED BY <1>3, <2>1, <3>1
    <2> QED BY <1>4, <1>5, <1>7, <2>1, <2>2, <2>3 DEF Wired
  <1>8. CASE tel.sse
    <2>1. tel.wire \in Seq(Frame) /\ Len(tel.wire) \in Nat /\ Len(frames) \in Nat
      BY <1>1, LenProperties DEF Link
    <2>2. PICK wire : wire = tel.wire \o frames
      OBVIOUS
    <2>3. /\ Len(wire) = Len(tel.wire) + Len(frames)
          /\ \A i \in 1..(Len(tel.wire) + Len(frames)) :
                wire[i] = IF i <= Len(tel.wire) THEN tel.wire[i] ELSE frames[i - Len(tel.wire)]
      BY <2>1, <2>2, ConcatProperties
    <2>4. tel'.wire = wire /\ tel'.sse = tel.sse /\ tel'.last = tel.last
      BY <1>1, <1>2, <1>8, <2>2 DEF Link
    <2>5. palazzo.seq \in Nat /\ tel.last \in Nat
      BY <1>1 DEF Appliance, Link
    <2>6. palazzo'.seq - Len(wire) = palazzo.seq - Len(tel.wire)
      BY <1>3, <2>1, <2>3, <2>5
    <2>7. ASSUME NEW i \in 1..Len(wire)
          PROVE  /\ wire[i].kind = "snapshot" => i = 1
                 /\ wire[i].seq = palazzo'.seq - Len(wire) + i
                 /\ wire[i].kind = "ended" => wire[i].track.req = 0 \/ Over(wire[i].track.req)'
      <3>1. CASE i <= Len(tel.wire)
        <4>1. i \in 1..Len(tel.wire) /\ wire[i] = tel.wire[i]
          BY <2>1, <2>3, <3>1
        <4>2. /\ tel.wire[i].kind = "snapshot" => i = 1
              /\ tel.wire[i].seq = palazzo.seq - Len(tel.wire) + i
              /\ tel.wire[i].kind = "ended"
                    => tel.wire[i].track.req = 0 \/ Over(tel.wire[i].track.req)
          BY <4>1 DEF Wired
        <4>3. PICK r : r = tel.wire[i].track.req
          OBVIOUS
        <4>4. Over(r) => Over(r)'
          BY <1>5
        <4> QED BY <2>6, <4>1, <4>2, <4>3, <4>4
      <3>2. CASE ~(i <= Len(tel.wire))
        <4>0. i - Len(tel.wire) \in 1..Len(frames)
          BY <2>1, <2>3, <3>2
        <4>1. PICK j \in 1..Len(frames) : j = i - Len(tel.wire)
          BY <4>0
        <4>2. wire[i] = frames[j]
          BY <2>1, <2>3, <3>2, <4>1
        <4>3. /\ frames[j].kind # "snapshot" /\ frames[j].seq = palazzo.seq + j
              /\ frames[j].kind = "ended" => frames[j].track = palazzo.onAir
          BY <1>2
        <4>5. palazzo.seq + j = palazzo'.seq - Len(wire) + i
          BY <2>1, <2>3, <2>5, <2>6, <4>1
        <4>6. wire[i].kind = "ended" => wire[i].track.req = 0 \/ Over(wire[i].track.req)'
          BY <1>0, <1>6, <4>2, <4>3
        <4> QED BY <4>2, <4>3, <4>5, <4>6
      <3> QED BY <3>1, <3>2
    <2>8. SnapshotAhead => wire # <<>> /\ wire[1].kind = "snapshot"
      <3>1. SnapshotAhead => Len(tel.wire) # 0
        BY <2>1, EmptySeq DEF SnapshotAhead
      <3>2. wire = <<>> => Len(wire) = 0
        BY EmptySeq
      <3>3. Len(tel.wire) # 0 => wire[1] = tel.wire[1] /\ Len(wire) # 0
        BY <2>1, <2>3
      <3> QED BY <3>1, <3>2, <3>3 DEF SnapshotAhead
    <2>9. /\ tel'.last <= palazzo'.seq
          /\ SnapshotAhead' \/ (eng'.reconciled /\ palazzo'.seq - Len(tel'.wire) <= tel'.last)
      <3>1. tel.last <= palazzo.seq
        BY DEF Wired
      <3>2. SnapshotAhead \/ (eng.reconciled /\ palazzo.seq - Len(tel.wire) <= tel.last)
        BY <1>8 DEF Wired
      <3> QED BY <1>3, <2>1, <2>4, <2>5, <2>6, <2>8, <3>1, <3>2 DEF SnapshotAhead
    <2>10. Wired'
      BY <1>8, <2>4, <2>7, <2>9 DEF Wired, Over
    <2> QED BY <1>4, <1>5, <2>10
  <1> QED BY <1>7, <1>8

LEMMA SongEndsCalm ==
    ASSUME IInv, Calm, SongEnds
    PROVE  Calm' /\ Leaving
  <1>1. Switch(Idle) /\ UNCHANGED <<eng, db, stop, edit, claims, minted>>
    BY DEF SongEnds
  <1>2. Idle.req \notin palazzo.seen
    BY DEF Calm, Heard, Idle
  <1>3. Heard' /\ Wired' /\ \A req : Over(req) => Over(req)'
    BY <1>1, <1>2, SwitchCalm, IdleType DEF Calm
  <1>4. tel'.poll = tel.poll
    BY <1>1 DEF Switch, IInv, Link
  <1>5. Undisturbed' /\ Stocked' /\ Orderly(eng', db'.queue)
    BY <1>1, <1>4 DEF Calm, Undisturbed, Stocked
  <1>6. Spent'
    BY <1>1, <1>3 DEF Calm, Spent
  <1> QED BY <1>1, <1>3, <1>5, <1>6, NothingLeaves DEF Calm

LEMMA CommandArrivesCalm ==
    ASSUME IInv, Calm, NEW c, CommandArrives(c)
    PROVE  Calm' /\ Leaving
  <1>1. PICK sends : sends = (eng.sends \ {c}) \cup {[c EXCEPT !.stage = "accepted"]}
    OBVIOUS
  <1>2. c \in Send /\ eng.sends \in SUBSET Send /\ eng \in Engine(claims)
    BY DEF IInv, CommandArrives, Engine
  <1>3. sends \in SUBSET Send
    BY <1>1, <1>2, Restaged
  <1>4. eng' = [eng EXCEPT !.sends = sends]
    BY <1>1 DEF CommandArrives
  <1>5. Orderly(eng', db.queue) /\ eng'.reconciled = eng.reconciled /\ eng'.tasks = eng.tasks
    BY <1>2, <1>3, <1>4, SendsOrderly DEF Calm
  <1>6. UNCHANGED <<db, stop, edit, claims, minted, left>>
    BY DEF CommandArrives
  <1>7. CASE c.req \in palazzo.seen
    BY <1>5, <1>6, <1>7, EngineCalm DEF CommandArrives
  <1>8. CASE c.req \notin palazzo.seen
    <2>1. PICK track : track = [req |-> c.req, item |-> c.item]
      OBVIOUS
    <2>2. track \in Track /\ track.req = c.req
      BY <1>2, <2>1 DEF Send, Track
    <2>3. Switch(track)
      BY <1>8, <2>1 DEF CommandArrives
    <2>4. Heard' /\ Wired' /\ \A req : Over(req) => Over(req)'
      BY <1>5, <1>8, <2>2, <2>3, SwitchCalm DEF Calm
    <2>5. tel'.poll = tel.poll
      BY <2>3 DEF Switch, IInv, Link
    <2>6. Undisturbed' /\ Stocked' /\ Orderly(eng', db'.queue)
      BY <1>5, <1>6, <2>5 DEF Calm, Undisturbed, Stocked
    <2>7. Spent'
      BY <1>5, <1>6, <2>4 DEF Calm, Spent
    <2> QED BY <1>6, <2>4, <2>6, <2>7, NothingLeaves DEF Calm
  <1> QED BY <1>7, <1>8

LEMMA StreamOpensCalm ==
    ASSUME IInv, Calm, StreamOpens
    PROVE  Calm' /\ Leaving
  <1>1. /\ ~tel.sse /\ tel' = [tel EXCEPT !.sse = TRUE, !.wire = <<PalazzoNow>>]
        /\ UNCHANGED <<eng, db, palazzo, stop, edit, claims, minted>>
    BY DEF StreamOpens
  <1>2. PICK frame : frame = PalazzoNow
    OBVIOUS
  <1>3. PICK wire : wire = <<frame>>
    OBVIOUS
  <1>4. /\ tel'.wire = wire /\ tel'.sse /\ tel'.last = tel.last /\ tel'.poll = tel.poll
        /\ frame.kind = "snapshot" /\ frame.seq = palazzo.seq
    BY <1>1, <1>2, <1>3 DEF IInv, Link, PalazzoNow
  <1>5. Len(wire) = 1 /\ wire[1] = frame /\ wire # <<>>
    BY <1>3
  <1>6. palazzo.seq \in Nat /\ tel.last <= palazzo.seq
    BY DEF Calm, Wired, IInv, Appliance
  <1>7. \A i \in 1..Len(wire) : i = 1 /\ wire[i] = frame
    BY <1>5
  <1>8. palazzo.seq - Len(wire) + 1 = palazzo.seq
    BY <1>5, <1>6
  <1>9. Wired'
    BY <1>1, <1>4, <1>5, <1>6, <1>7, <1>8 DEF Wired, SnapshotAhead
  <1>10. Undisturbed' /\ Stocked' /\ Orderly(eng', db'.queue) /\ Spent' /\ Heard'
    BY <1>1, <1>4 DEF Calm, Undisturbed, Stocked, Spent, Heard, Over
  <1> QED BY <1>1, <1>9, <1>10, NothingLeaves DEF Calm

\* A stream that breaks or closes takes its frames with it; the engine only hears of its status.
LEMMA StreamBreaks ==
    ASSUME IInv, Calm, StreamFails \/ StreamCloses
    PROVE  /\ eng' = eng \/ \E status \in Statuses \ {"unavailable"} :
                               eng' = StatusChanged(eng, status, tel.snapped)
           /\ ~tel'.sse /\ tel'.wire = <<>> /\ Len(tel'.wire) = 0
           /\ tel'.last = tel.last /\ tel'.poll = tel.poll
           /\ UNCHANGED <<db, palazzo, stop, edit, claims, minted>>
  <1>1. tel \in Link
    BY DEF IInv
  <1>2. /\ ~tel'.sse /\ tel'.wire = <<>> /\ tel'.last = tel.last /\ tel'.poll = tel.poll
    BY <1>1 DEF StreamFails, StreamCloses, Link
  <1>3. eng' = eng \/ \E status \in Statuses \ {"unavailable"} :
                         eng' = StatusChanged(eng, status, tel.snapped)
    BY DEF StreamFails, StreamCloses, Statuses
  <1>4. Len(tel'.wire) = 0
    BY <1>2, EmptySeq
  <1> QED BY <1>2, <1>3, <1>4 DEF StreamFails, StreamCloses

LEMMA StreamBreaksCalm ==
    ASSUME IInv, Calm, StreamFails \/ StreamCloses
    PROVE  Calm' /\ Leaving /\ eng' \in Engine(claims) /\ Unturned(eng, eng')
  <1>1. /\ eng \in Engine(claims) /\ Orderly(eng, db.queue) /\ ~eng.frozen
        /\ tel.snapped \in BOOLEAN
    BY DEF Calm, IInv, Link, Orderly
  <1>2. Unturned(eng, eng)
    BY DEF Unturned, Alike
  <1>3. eng' \in Engine(claims) /\ Unturned(eng, eng')
    BY <1>1, <1>2, StreamBreaks, StatusHeard
  <1>4. /\ ~tel'.sse /\ tel'.wire = <<>> /\ Len(tel'.wire) = 0
        /\ tel'.last = tel.last /\ tel'.poll = tel.poll
        /\ UNCHANGED <<db, palazzo, stop, edit, claims, minted>>
    BY StreamBreaks
  <1>5. Wired'
    BY <1>4 DEF Calm, Wired
  <1>6. Orderly(eng', db.queue)
    BY <1>1, <1>3, UnturnedOrderly
  <1>7. Undisturbed' /\ Stocked' /\ Orderly(eng', db'.queue) /\ Spent' /\ Heard'
    BY <1>3, <1>4, <1>6 DEF Calm, Undisturbed, Stocked, Spent, Heard, Over, Unturned, Alike
  <1> QED BY <1>3, <1>4, <1>5, <1>7, NothingLeaves DEF Calm

\* Taking the next frame off the wire.
LEMMA WireShortens ==
    ASSUME IInv, Wired, tel.wire # <<>>, NEW wire, wire = Tail(tel.wire)
    PROVE  /\ Len(tel.wire) \in Nat \ {0} /\ Len(wire) = Len(tel.wire) - 1
           /\ palazzo.seq \in Nat /\ tel.last \in Nat
           /\ Head(tel.wire) = tel.wire[1] /\ 1 \in 1..Len(tel.wire)
           /\ \A i \in 1..Len(wire) :
                 /\ wire[i].kind # "snapshot"
                 /\ wire[i].seq = palazzo.seq - Len(wire) + i
                 /\ wire[i].kind = "ended" => wire[i].track.req = 0 \/ Over(wire[i].track.req)
  <1>1. tel.wire \in Seq(Frame) /\ palazzo.seq \in Nat /\ tel.last \in Nat
    BY DEF IInv, Link, Appliance
  <1>2. /\ Len(tel.wire) \in Nat \ {0} /\ Len(wire) = Len(tel.wire) - 1
        /\ \A i \in 1..Len(wire) : wire[i] = tel.wire[i + 1]
    BY <1>1, EmptySeq, HeadTailProperties
  <1>3. ASSUME NEW i \in 1..Len(wire)
        PROVE  /\ wire[i].kind # "snapshot"
               /\ wire[i].seq = palazzo.seq - Len(wire) + i
               /\ wire[i].kind = "ended" => wire[i].track.req = 0 \/ Over(wire[i].track.req)
    <2>1. i + 1 \in 1..Len(tel.wire) /\ i + 1 # 1 /\ wire[i] = tel.wire[i + 1]
      BY <1>2
    <2>2. palazzo.seq - Len(tel.wire) + (i + 1) = palazzo.seq - Len(wire) + i
      <3>1. Len(tel.wire) = Len(wire) + 1 /\ Len(wire) \in Nat /\ i \in Nat /\ palazzo.seq \in Nat
        BY <1>1, <1>2
      <3> QED BY <3>1
    <2> QED BY <2>1, <2>2 DEF Wired
  <1>4. Head(tel.wire) = tel.wire[1] /\ 1 \in 1..Len(tel.wire)
    BY <1>1, <1>2
  <1> QED BY <1>1, <1>2, <1>3, <1>4, Zenon

LEMMA ReadFrameCalm ==
    ASSUME IInv, Calm, ReadFrame, FindsItsSong
    PROVE  Calm' /\ Leaving
  <1>1. tel.wire # <<>> /\ UNCHANGED <<db, palazzo, stop, edit, claims, minted, left>>
    BY DEF ReadFrame
  <1>2. PICK frame : frame = Head(tel.wire)
    OBVIOUS
  <1>3. PICK wire : wire = Tail(tel.wire)
    OBVIOUS
  <1>4. /\ Len(tel.wire) \in Nat \ {0} /\ Len(wire) = Len(tel.wire) - 1
        /\ palazzo.seq \in Nat /\ tel.last \in Nat
        /\ frame = tel.wire[1] /\ 1 \in 1..Len(tel.wire)
        /\ \A i \in 1..Len(wire) :
              /\ wire[i].kind # "snapshot"
              /\ wire[i].seq = palazzo.seq - Len(wire) + i
              /\ wire[i].kind = "ended" => wire[i].track.req = 0 \/ Over(wire[i].track.req)
    BY <1>1, <1>2, <1>3, WireShortens DEF Calm
  <1>5. /\ frame.kind # "snapshot" => eng.reconciled /\ palazzo.seq - Len(tel.wire) <= tel.last
        /\ frame.seq = palazzo.seq - Len(wire) /\ tel.last <= palazzo.seq
        /\ frame.kind = "ended" => frame.track.req = 0 \/ Over(frame.track.req)
    <2>1. palazzo.seq - Len(tel.wire) + 1 = palazzo.seq - Len(wire)
      BY <1>4
    <2>2. tel.sse
      BY <1>1 DEF Calm, Wired
    <2> QED BY <1>4, <2>1, <2>2 DEF Calm, Wired, SnapshotAhead
  <1>6. frame \in Frame /\ eng \in Engine(claims) /\ tel \in Link /\ tel.sse
    <2>1. tel.wire \in Seq(Frame) /\ tel \in Link /\ eng \in Engine(claims)
      BY DEF IInv, Link
    <2>2. frame \in Frame
      BY <1>1, <1>2, <2>1, HeadTailProperties
    <2>3. tel.sse
      BY <1>1 DEF Calm, Wired
    <2> QED BY <2>1, <2>2, <2>3
  <1>7. ASSUME tel'.wire = wire, tel'.sse = tel.sse, tel'.poll = tel.poll, eng'.reconciled,
               palazzo.seq - Len(wire) <= tel'.last, tel'.last <= palazzo.seq,
               Orderly(eng', db.queue), Spent'
        PROVE  Calm' /\ Leaving
    <2>1. Wired'
      BY <1>1, <1>4, <1>6, <1>7 DEF Wired, Over
    <2>2. Undisturbed' /\ Stocked' /\ Heard'
      BY <1>1, <1>7 DEF Calm, Undisturbed, Stocked, Heard
    <2> QED BY <1>1, <1>7, <2>1, <2>2, NothingLeaves DEF Calm
  <1>8. CASE SnapshotFrame(frame) /\ frame.kind = "snapshot"
    <2>1. PICK state \in {frame, PalazzoNow} :
             /\ state = IF frame.track = Idle THEN frame ELSE PalazzoNow
             /\ tel' = [tel EXCEPT !.wire = wire, !.last = state.seq, !.snapped = TRUE]
             /\ eng' = Snapshot(StatusChanged(eng, "connected", TRUE), state.track)
      BY <1>3, <1>8 DEF SnapshotFrame
    <2>2. state \in Frame
      <3>1. PalazzoNow \in Frame
        BY PalazzoNowType DEF IInv
      <3> QED BY <1>6, <2>1, <3>1
    <2>3. state.track \in Track /\ state.seq \in Nat
      BY <2>2 DEF Frame
    <2>4. state.seq = palazzo.seq \/ state.seq = palazzo.seq - Len(wire)
      BY <1>5, <2>1 DEF PalazzoNow
    <2>5. palazzo.seq - Len(wire) <= state.seq /\ state.seq <= palazzo.seq
      BY <1>4, <2>4
    <2>6. tel'.wire = wire /\ tel'.sse = tel.sse /\ tel'.poll = tel.poll /\ tel'.last = state.seq
      BY <1>6, <2>1 DEF Link
    <2>7. CASE ~eng.reconciled
      <3>1. Onward(eng', db.queue)
        BY <1>6, <2>1, <2>3, <2>7, SnapshotOrderly DEF Calm
      <3>2. Spent'
        BY <3>1 DEF Onward, NoConsume, Spent
      <3> QED BY <1>7, <2>5, <2>6, <3>1, <3>2 DEF Onward
    <2>8. CASE eng.reconciled
      <3>1. Rereads
        BY <1>2, <1>8, <2>8 DEF Rereads
      <3>2. state.track = Reread
        BY <1>2, <2>1 DEF Reread, PalazzoNow
      <3>3. /\ state.track.req # 0 => eng.active.req = state.track.req
            /\ state.track.req = 0 /\ eng.active # NoSong => Over(eng.active.req)
        BY <3>1, <3>2 DEF FindsItsSong
      <3>4. /\ Orderly(eng', db.queue) /\ eng'.reconciled
            /\ \/ eng'.tasks = eng.tasks
               \/ NoConsume(eng')
               \/ /\ state.track.req = 0 /\ eng.active # NoSong
                  /\ Consumes(eng', eng.active.entry, eng.active.req)
        BY <1>6, <2>1, <2>8, <3>3, RereadOrderly DEF Calm
      <3>5. CASE eng'.tasks = eng.tasks \/ NoConsume(eng')
        <4>1. Spent'
          BY <1>1, <3>5 DEF Calm, Spent, NoConsume, Over
        <4> QED BY <1>7, <2>5, <2>6, <3>4, <4>1
      <3>6. CASE /\ state.track.req = 0 /\ eng.active # NoSong
                 /\ Consumes(eng', eng.active.entry, eng.active.req)
        <4>1. PICK req : req = eng.active.req
          OBVIOUS
        <4>2. eng.active.entry # None => <<eng.active.entry, req>> \in claims
          BY <1>6, <4>1 DEF Engine, Claimed
        <4>3. Over(req)' /\ claims' = claims
          BY <1>1, <3>6, <3>3, <4>1 DEF Over
        <4>4. Spent'
          BY <3>6, <4>1, <4>2, <4>3 DEF Spent, Consumes
        <4> QED BY <1>7, <2>5, <2>6, <3>4, <4>4
      <3> QED BY <3>4, <3>5, <3>6
    <2> QED BY <2>7, <2>8
  <1>9. CASE StaleFrame(frame) /\ frame.kind # "snapshot"
    <2>1. tel' = [tel EXCEPT !.wire = wire] /\ eng' = eng /\ frame.seq <= tel.last
      BY <1>3, <1>9 DEF StaleFrame
    <2>2. tel'.wire = wire /\ tel'.sse = tel.sse /\ tel'.poll = tel.poll /\ tel'.last = tel.last
      BY <1>6, <2>1 DEF Link
    <2>3. Orderly(eng', db.queue) /\ Spent'
      BY <1>1, <2>1 DEF Calm, Spent, Over
    <2> QED BY <1>4, <1>5, <1>7, <1>9, <2>1, <2>2, <2>3
  <1>10. CASE LifecycleFrame(frame) /\ frame.kind # "snapshot"
    <2>1. PICK req : req = frame.track.req
      OBVIOUS
    <2>2. req \in Nat
      BY <1>6, <2>1 DEF Frame, Track
    <2>3. /\ tel' = [tel EXCEPT !.wire = wire, !.last = frame.seq]
          /\ eng' = IF frame.kind = "started" THEN TrackStarted(eng, req) ELSE TrackEnded(eng, req)
      BY <1>3, <1>10, <2>1 DEF LifecycleFrame
    <2>4. /\ tel'.wire = wire /\ tel'.sse = tel.sse /\ tel'.poll = tel.poll
          /\ tel'.last = frame.seq /\ frame.seq \in Nat
      BY <1>6, <2>3 DEF Link, Frame
    <2>5. palazzo.seq - Len(wire) <= frame.seq /\ frame.seq <= palazzo.seq
      BY <1>4, <1>5, <2>4
    <2>6. CASE frame.kind = "started"
      <3>1. eng' = eng \/ eng' = [eng EXCEPT !.pending = @ \ {req}]
        BY <2>3, <2>6 DEF TrackStarted
      <3>2. /\ eng'.queue = eng.queue /\ eng'.frozen = eng.frozen
            /\ eng'.reconciled = eng.reconciled /\ eng'.transitioning = eng.transitioning
            /\ eng'.active = eng.active /\ eng'.tasks = eng.tasks /\ eng'.bumpers = eng.bumpers
        BY <1>6, <3>1 DEF Engine
      <3>3. Orderly(eng', db.queue)
        BY <3>2 DEF Calm, Orderly, OwnsHead, OneTurn, AtRest
      <3>4. Spent'
        BY <1>1, <3>2 DEF Calm, Spent, Over
      <3> QED BY <1>5, <1>7, <1>10, <2>4, <2>5, <3>2, <3>3, <3>4
    <2>7. CASE frame.kind = "ended"
      <3>1. eng' = TrackEnded(eng, req)
        BY <2>3, <2>7
      <3>2. /\ Orderly(eng', db.queue) /\ eng'.reconciled = eng.reconciled
            /\ \/ eng'.tasks = eng.tasks
               \/ /\ req # 0 /\ eng.active.req = req
                  /\ Consumes(eng', eng.active.entry, req)
        BY <1>6, <2>2, <3>1, TrackEndedOrderly DEF Calm
      <3>3. CASE eng'.tasks = eng.tasks
        <4>1. Spent'
          BY <1>1, <3>3 DEF Calm, Spent, Over
        <4> QED BY <1>5, <1>7, <1>10, <2>4, <2>5, <3>2, <4>1
      <3>4. CASE req # 0 /\ eng.active.req = req /\ Consumes(eng', eng.active.entry, req)
        <4>1. Over(req)
          BY <1>5, <2>1, <2>7, <3>4
        <4>2. eng.active.entry # None => <<eng.active.entry, req>> \in claims
          BY <1>6, <3>4 DEF Engine, Claimed
        <4>3. Over(req)' /\ claims' = claims
          BY <1>1, <4>1 DEF Over
        <4>4. Spent'
          BY <3>4, <4>2, <4>3 DEF Spent, Consumes
        <4> QED BY <1>5, <1>7, <1>10, <2>4, <2>5, <3>2, <4>4
      <3> QED BY <3>2, <3>3, <3>4
    <2>8. frame.kind \in {"started", "ended"}
      BY <1>6, <1>10 DEF Frame
    <2> QED BY <2>6, <2>7, <2>8
  <1>11. CASE GapFrame(frame) /\ frame.kind # "snapshot"
    <2>1. frame.seq > tel.last + 1
      BY <1>11 DEF GapFrame
    <2>2. palazzo.seq - Len(tel.wire) <= tel.last
      BY <1>5, <1>11
    <2> QED BY <1>4, <1>5, <2>1, <2>2
  <1> QED BY <1>2, <1>8, <1>9, <1>10, <1>11 DEF ReadFrame

--------------------------------------------------------------------------------
\* Every step

LEMMA NextCalm ==
    ASSUME IInv, Calm, Next, OnlyTheQueue, FindsItsSong
    PROVE  Calm' /\ Leaving
  <1>1. CASE \E c \in eng.sends : PostCommand(c) \/ CommandArrives(c) \/ CommandSucceeds(c)
    BY <1>1, PostCommandCalm, CommandArrivesCalm, CommandSucceedsCalm
  <1>2. CASE RunTask
    BY <1>2, RunClaimCalm, RunReleaseCalm, RunConsumeCalm, RunSaveCalm DEF RunTask
  <1>3. CASE \E cont \in eng.bumpers : BumperEnds(cont)
    BY <1>3, BumperEndsCalm
  <1>4. CASE StreamOpens \/ StreamFails \/ StreamCloses \/ ReadFrame \/ SongEnds
    BY <1>4, StreamOpensCalm, StreamBreaksCalm, ReadFrameCalm, SongEndsCalm
  <1>5. CASE PollReplies \/ PollFails \/ PollReads
    BY <1>5 DEF OnlyTheQueue, Calm, Undisturbed, PollReplies, PollFails
  <1>6. CASE \/ \E item \in Items : Enqueue(item)
             \/ \E e \in Entries : RemoveEntry(e)
             \/ Reorder
    BY <1>6, EnqueueCalm, RemoveEntryCalm, ReorderCalm
  <1>7. CASE \/ \E item \in Items \cup {None} : PlayManually(item)
             \/ \E full \in BOOLEAN : StopReads(full)
    BY <1>7 DEF OnlyTheQueue
  <1>8. CASE StopWrites \/ StopArrives \/ StopSucceeds \/ StopFails
    BY <1>8 DEF Calm, Undisturbed, StopWrites, StopArrives, StopSucceeds, StopFails
  <1>9. CASE \E saves \in Edits \cup {None} : EditReads(saves)
    <2>1. PICK saves \in Edits \cup {None} : EditReads(saves)
      BY <1>9
    <2>2. saves = None
      BY <2>1 DEF OnlyTheQueue
    <2> QED BY <2>1, <2>2, EditReadsCalm
  <1>10. CASE \E e \in edit : EditWrites(e)
    BY <1>10, EditWritesCalm
  <1>11. CASE \E c \in eng.sends : CommandFails(c)
    BY <1>11, CommandFailsCalm
  <1>12. CASE TaskFails \/ Restart
    BY <1>12, TaskFailsCalm, RestartCalm
  <1> QED BY <1>1, <1>2, <1>3, <1>4, <1>5, <1>6, <1>7, <1>8, <1>9, <1>10, <1>11, <1>12
          DEF Next, Internal, Telemetry, Operator, Failure

LEMMA StutterCalm ==
    ASSUME Calm, UNCHANGED vars
    PROVE  Calm'
  BY DEF Calm, Undisturbed, Stocked, Spent, Heard, Wired, SnapshotAhead, Over, vars

LEMMA CalmAlways == Spec /\ [][OnlyTheQueue /\ FindsItsSong]_vars => [](IInv /\ Calm)
  <1>1. Init => IInv /\ Calm
    BY InitIInv, InitCalm
  <1>2. IInv /\ Calm /\ [Next]_vars /\ [OnlyTheQueue /\ FindsItsSong]_vars => (IInv /\ Calm)'
    BY NextIInv, NextCalm, StutterCalm
  <1> QED BY <1>1, <1>2, PTL DEF Spec

\* While operators use nothing but the queue and a stream that comes back finds the song of the engine
\* or its end, the stored head is the entry on air under its very request, however often the stream
\* breaks, whatever commands and writes fail and whenever the backend restarts: claimQueueHead,
\* releaseQueueClaim and persistQueueConsumption never act on another entry.
THEOREM HeadIsOnAir == Spec /\ [][OnlyTheQueue /\ FindsItsSong]_vars => []ActiveEntryOwnsHead
  <1>1. IInv /\ Calm => ActiveEntryOwnsHead
    BY CalmMeans DEF Calm, Orderly, OwnsHead, ActiveEntryOwnsHead
  <1> QED BY <1>1, CalmAlways, PTL

\* On the same terms no failed command, failed write or restart loses a song: an entry leaves the
\* stored queue because an operator removed it or because its claimed request is over on Palazzo.
THEOREM NoSongIsLost == Spec /\ [][OnlyTheQueue /\ FindsItsSong]_vars => EntryLeavesAfterItsEnd
  <1>1. IInv /\ Calm /\ [Next]_vars /\ [OnlyTheQueue /\ FindsItsSong]_vars => [Leaving]_vars
    BY NextCalm
  <1>2. [][Leaving]_vars => EntryLeavesAfterItsEnd
    BY DEF Leaving, EntryLeavesAfterItsEnd
  <1> QED BY <1>1, <1>2, CalmAlways, PTL DEF Spec

\* And a settled engine with nothing on air is not stuck in a transition: a transition always has
\* exactly one task or bumper left that ends it.
THEOREM SettledIsReady ==
    Spec /\ [][OnlyTheQueue /\ FindsItsSong]_vars => []SettledRests /\ NeverStranded
  <1>1. IInv /\ Calm => SettledRests
    BY DEF Calm, Orderly, AtRest, SettledRests, Settled
  <1>2. IInv /\ Calm => ~Stranded
    BY DEF Calm, Orderly, AtRest, Stranded
  <1>3. (~Stranded)' => [Stranded' => Stranded \/ eng.frozen]_vars
    OBVIOUS
  <1> QED BY <1>1, <1>2, <1>3, CalmAlways, PTL DEF NeverStranded

--------------------------------------------------------------------------------
\* The station while nothing but a few writes fails: one request after the other

\* The one command that has not reached Palazzo is that of the song on air, which Palazzo has not seen.
OnTheWay(s, S) ==
    \A c \in s.sends :
        /\ ~c.manual
        /\ c.stage # "accepted" =>
              /\ s.active # NoSong /\ c.req = s.active.req /\ c.req \notin S
              /\ \A d \in s.sends : d = c \/ d.stage = "accepted"

\* The song on air has a request of its own; until Palazzo has seen it its command is on the way.
Airing(s, S) ==
    s.active # NoSong =>
        /\ s.active.req \in 1..s.issued
        /\ s.active.req \notin S => \E c \in s.sends : c.req = s.active.req /\ c.stage # "accepted"

\* What ended was seen, and is not on air.
Past(s, S) == \A i \in 1..Len(s.ended) : s.ended[i] \in S /\ s.ended[i] # s.active.req

\* The request a claim waits to be written for is new.
Claiming(s, S) ==
    \A i \in 1..Len(s.tasks) :
        s.tasks[i].op = "claim" => s.tasks[i].req \in 1..s.issued /\ s.tasks[i].req \notin S

\* The engine after a station whose Palazzo has seen the requests S.
Honest(s, S) ==
    /\ S \subseteq 1..s.issued
    /\ OnTheWay(s, S) /\ Airing(s, S) /\ Past(s, S) /\ Claiming(s, S)
    /\ ~s.reconciled => s.sends = {} /\ S = {}

\* A claimed head of q is on air, or its end waits to be written, or its request was never commanded.
Due(s, q, S) ==
    q # <<>> /\ q[1].claim # 0 =>
        /\ q[1].claim <= s.issued
        /\ s.active.entry = None => s.active = NoSong
        /\ \/ q[1].claim \notin S
           \/ s.active.entry # None
           \/ \E i \in 1..Len(s.tasks) :
                 s.tasks[i].op = "consume" /\ s.tasks[i].cont.entry = q[1].id

\* The song on air stays, or one that Palazzo has not seen follows a silence.
Follows(s, t, S) ==
    /\ t.reconciled = s.reconciled
    /\ \/ t.active = s.active
       \/ s.active = NoSong /\ s.reconciled /\ t.active # NoSong /\ t.active.req \notin S

LEMMA AlikeHonest ==
    ASSUME NEW s, NEW t, Alike(s, t), NEW S
    PROVE  /\ Honest(s, S) => Honest(t, S)
           /\ \A q : Due(s, q, S) => Due(t, q, S)
           /\ Follows(s, t, S)
  BY DEF Alike, Honest, OnTheWay, Airing, Past, Claiming, Due, Follows

\* A new request, or one whose claim was never commanded, goes on air.
LEMMA CommandedHonest ==
    ASSUME NEW cl, NEW s \in Engine(cl), NEW S, Honest(s, S), s.active = NoSong, s.reconciled,
           NEW t \in Engine(cl), NEW req, NEW entry, Commanded(s, t, req, entry, FALSE),
           t.issued >= s.issued, req \in 1..t.issued, req \notin S
    PROVE  Honest(t, S) /\ Follows(s, t, S) /\ t.active # NoSong
  <1>1. /\ t.active.req = req /\ t.tasks = s.tasks /\ t.ended = s.ended
        /\ t.reconciled = s.reconciled
    BY DEF Commanded, Kept
  <1>9. PICK send : /\ t.sends = s.sends \cup {send}
                    /\ send.req = req /\ send.manual = FALSE /\ send.stage = "lookup"
    BY DEF Commanded, Adds
  <1>2. s.issued \in Nat /\ t.issued \in Nat
    BY DEF Engine
  <1>3. t.active # NoSong
    BY <1>1, <1>2 DEF NoSong
  <1>4. S \subseteq 1..t.issued
    BY <1>2 DEF Honest
  <1>5. OnTheWay(t, S)
    <2>1. \A c \in s.sends : ~c.manual /\ c.stage = "accepted"
      BY DEF OnTheWay, Honest
    <2> QED BY <1>1, <1>3, <1>9, <2>1 DEF OnTheWay
  <1>6. Airing(t, S)
    BY <1>1, <1>9 DEF Airing
  <1>7. Past(t, S)
    BY <1>1 DEF Past, Honest
  <1>8. Claiming(t, S)
    BY <1>1, <1>2 DEF Claiming, Honest
  <1> QED BY <1>1, <1>3, <1>4, <1>5, <1>6, <1>7, <1>8 DEF Honest, Follows

\* A task is asked for, from rest.
LEMMA AskedHonest ==
    ASSUME NEW cl, NEW s \in Engine(cl), NEW S, Honest(s, S), AtRest(s),
           NEW t \in Engine(cl), NEW task, Asks(s, t, task), t.issued >= s.issued,
           task.op = "claim" => task.req \in 1..t.issued /\ task.req \notin S
    PROVE  Honest(t, S) /\ Follows(s, t, S)
  <1>1. /\ t.active = s.active /\ t.sends = s.sends /\ t.ended = s.ended
        /\ t.reconciled = s.reconciled /\ t.tasks = Append(s.tasks, task) /\ t.bumpers = s.bumpers
    BY DEF Asks, Kept
  <1>2. s.issued \in Nat /\ t.issued \in Nat
    BY DEF Engine
  <1>3. Len(t.tasks) = 1 /\ t.tasks[1] = task
    BY <1>1, AskedInTurn
  <1>4. Claiming(t, S)
    BY <1>3 DEF Claiming
  <1>5. S \subseteq 1..t.issued
    BY <1>2 DEF Honest
  <1>6. OnTheWay(t, S) /\ Airing(t, S) /\ Past(t, S)
    BY <1>1, <1>2 DEF OnTheWay, Airing, Past, Honest
  <1> QED BY <1>1, <1>4, <1>5, <1>6 DEF Honest, Follows

\* playNext commands nothing that Palazzo has seen.
LEMMA PlayNextHonest ==
    ASSUME NEW cl, NEW s \in Engine(cl), NEW S, Honest(s, S), Due(s, s.queue, S),
           s.active = NoSong, AtRest(s), s.reconciled, NEW t, t = PlayNext(s)
    PROVE  Honest(t, S) /\ Due(t, s.queue, S) /\ Follows(s, t, S)
  <1>0. t \in Engine(cl) /\ s.issued \in Nat /\ NoSong.entry = None /\ Len(s.tasks) = 0
    BY PlayNextType, EmptySeq DEF Engine, NoSong, AtRest
  <1>1. CASE t = s
    BY <1>1 DEF Follows
  <1>2. CASE s.queue # <<>> /\ s.queue[1].claim = 0 /\ t = BeginClaim(s)
    <2>1. PICK task : task = [op |-> "claim", entry |-> s.queue[1].id, req |-> s.issued + 1]
      OBVIOUS
    <2>2. Asks(s, t, task) /\ t.issued = s.issued + 1
      BY <1>2, <2>1, BeginClaimKeeps
    <2>3. /\ t.issued >= s.issued /\ task.req \in 1..t.issued /\ task.req \notin S
      BY <1>0, <2>1, <2>2 DEF Honest
    <2>4. Honest(t, S) /\ Follows(s, t, S)
      BY <1>0, <2>2, <2>3, AskedHonest
    <2> QED BY <1>2, <2>4 DEF Due
  <1>3. CASE s.queue # <<>> /\ s.queue[1].claim # 0 /\ t = CommandHead(s)
    <2>1. Commanded(s, t, s.queue[1].claim, s.queue[1].id, FALSE) /\ t.issued = s.issued
      BY <1>3, CommandHeadKeeps
    <2>2. s.queue[1].claim \in Nat /\ s.queue[1].id \in Entries
      BY <1>3, HeadBacked DEF Engine
    <2>3. s.queue[1].claim <= s.issued /\ s.queue[1].claim \notin S
      BY <1>0, <1>3 DEF Due
    <2>6. t.issued >= s.issued /\ s.queue[1].claim \in 1..t.issued
      BY <1>0, <1>3, <2>1, <2>2, <2>3
    <2>4. Honest(t, S) /\ Follows(s, t, S)
      BY <1>0, <2>1, <2>3, <2>6, CommandedHonest
    <2>5. t.active.entry # None
      BY <2>1, <2>2, QueueAssumption DEF Commanded
    <2> QED BY <2>1, <2>3, <2>4, <2>5 DEF Due
  <1>4. CASE s.queue = <<>> /\ t = CommandPlaylist(s)
    <2>1. Commanded(s, t, s.issued + 1, None, FALSE) /\ t.issued = s.issued + 1
      BY <1>4, CommandPlaylistKeeps
    <2>2. s.issued + 1 \notin S /\ s.issued + 1 \in 1..t.issued /\ t.issued >= s.issued
      BY <1>0, <2>1 DEF Honest
    <2>3. Honest(t, S) /\ Follows(s, t, S)
      BY <1>0, <2>1, <2>2, CommandedHonest
    <2> QED BY <1>4, <2>3 DEF Due
  <1> QED BY <1>1, <1>2, <1>3, <1>4, PlayNextCases, Zenon

LEMMA MaybeStartHonest ==
    ASSUME NEW cl, NEW s \in Engine(cl), NEW q, Orderly(s, q), NEW S, Honest(s, S), Due(s, q, S),
           NEW t, t = MaybeStart(s)
    PROVE  Honest(t, S) /\ Due(t, q, S) /\ Follows(s, t, S)
  <1>1. CASE ~MayStart(s)
    BY <1>1 DEF MaybeStart, Follows
  <1>2. CASE MayStart(s)
    <2>1. s.active = NoSong /\ s.reconciled /\ AtRest(s) /\ s.queue = q
      BY <1>2 DEF MayStart, Orderly
    <2>2. t = PlayNext(s)
      BY <1>2 DEF MaybeStart
    <2> QED BY <2>1, <2>2, PlayNextHonest
  <1> QED BY <1>1, <1>2

\* A queue write.
LEMMA ApplyQueueHonest ==
    ASSUME NEW cl, NEW s \in Engine(cl), NEW p, Orderly(s, p), NEW q \in Seq(Backed(cl)),
           OwnsHead(s, q), NEW S, Honest(s, S), Due(s, q, S), NEW t, t = ApplyQueue(s, q)
    PROVE  Honest(t, S) /\ Due(t, q, S) /\ Follows(s, t, S)
  <1>1. PICK u : u = [s EXCEPT !.queue = q, !.blocked = FALSE]
    OBVIOUS
  <1>2. u \in Engine(cl)
    BY <1>1 DEF Engine
  <1>3. /\ u.queue = q /\ u.frozen = s.frozen /\ u.transitioning = s.transitioning
        /\ u.bumpers = s.bumpers /\ Alike(s, u)
    BY <1>1 DEF Engine, Alike
  <1>4. Orderly(u, q)
    BY <1>3 DEF Orderly, OwnsHead, OneTurn, AtRest, Alike
  <1>5. Honest(u, S) /\ Due(u, q, S)
    BY <1>3, AlikeHonest
  <1>6. t = IF q = <<>> THEN u ELSE MaybeStart(u)
    BY <1>1 DEF ApplyQueue
  <1>7. Honest(t, S) /\ Due(t, q, S) /\ Follows(u, t, S)
    BY <1>2, <1>4, <1>5, <1>6, MaybeStartHonest DEF Follows
  <1> QED BY <1>3, <1>7 DEF Follows, Alike

\* The same for the handler of the task or bumper that has the turn.
HonestTurn(s, t, q, S) == Honest(t, S) /\ Due(t, q, S) /\ Follows(s, t, S)

LEMMA HonestAfter ==
    ASSUME NEW s, NEW u, Alike(s, u), NEW t, NEW q, NEW S, HonestTurn(u, t, q, S)
    PROVE  HonestTurn(s, t, q, S)
  BY DEF Alike, HonestTurn, Follows

LEMMA AlikeTurn ==
    ASSUME NEW s, NEW t, Alike(s, t), NEW q, NEW S, Honest(s, S), Due(s, q, S)
    PROVE  HonestTurn(s, t, q, S)
  BY AlikeHonest DEF HonestTurn

LEMMA ApplyQueueAlike ==
    ASSUME NEW cl, NEW s \in Engine(cl), InTurn(s), NEW q \in Seq(Backed(cl)),
           NEW t, t = ApplyQueue(s, q)
    PROVE  Alike(s, t)
  <1>1. PICK u : u = [s EXCEPT !.queue = q, !.blocked = FALSE]
    OBVIOUS
  <1>2. Alike(s, u) /\ u.transitioning
    BY <1>1 DEF Engine, Alike, InTurn
  <1>3. MaybeStart(u) = u
    BY <1>2 DEF MaybeStart, MayStart
  <1>4. t = u
    BY <1>1, <1>3 DEF ApplyQueue
  <1> QED BY <1>2, <1>4

LEMMA TurnOverAlike ==
    ASSUME NEW cl, NEW s \in Engine(cl), NEW block
    PROVE  /\ Alike(s, [s EXCEPT !.transitioning = FALSE])
           /\ Alike(s, [s EXCEPT !.transitioning = FALSE, !.blocked = block])
  BY DEF Engine, Alike

\* A release or a write of the cursor is asked for, from rest.
LEMMA AskedTurn ==
    ASSUME NEW cl, NEW s \in Engine(cl), AtRest(s), NEW q, NEW S, Honest(s, S), Due(s, q, S),
           NEW t \in Engine(cl), NEW task, Asks(s, t, task), t.issued = s.issued, task.op # "claim"
    PROVE  HonestTurn(s, t, q, S)
  <1>1. s.issued \in Nat /\ Len(s.tasks) = 0 /\ t.active = s.active
    BY EmptySeq DEF Engine, AtRest, Asks
  <1>2. Due(t, q, S)
    BY <1>1 DEF Due
  <1>3. t.issued >= s.issued
    BY <1>1
  <1> QED BY <1>2, <1>3, AskedHonest DEF HonestTurn

LEMMA PlayNextTurn ==
    ASSUME NEW cl, NEW s \in Engine(cl), AtRest(s), s.active = NoSong, s.reconciled,
           NEW S, Honest(s, S), Due(s, s.queue, S), NEW t, t = PlayNext(s)
    PROVE  HonestTurn(s, t, s.queue, S)
  BY PlayNextHonest DEF HonestTurn

LEMMA ClaimWonHonest ==
    ASSUME NEW cl, NEW s \in Engine(cl), InTurn(s), NEW q \in Seq(Backed(cl)), q # <<>>,
           NEW S, Honest(s, S), Due(s, q, S), NEW t, t = ClaimWon(s, q)
    PROVE  HonestTurn(s, t, q, S)
  <1>1. PICK u : u = ApplyQueue(s, q)
    OBVIOUS
  <1>2. u \in Engine(cl) /\ InTurn(u) /\ u.queue = q /\ Alike(s, u)
    BY <1>1, ApplyQueueInTurn, ApplyQueueAlike
  <1>3. PICK v : v = [u EXCEPT !.transitioning = FALSE]
    OBVIOUS
  <1>4. /\ v \in Engine(cl) /\ Orderly(v, q) /\ v.active = NoSong
        /\ ~v.transitioning /\ v.reconciled /\ v.queue = q
    BY <1>2, <1>3, TurnRests
  <1>5. Alike(u, v) /\ AtRest(v)
    BY <1>2, <1>3, <1>4, TurnOverAlike DEF Orderly
  <1>6. Alike(s, v)
    BY <1>2, <1>5 DEF Alike
  <1>7. Honest(v, S) /\ Due(v, q, S)
    BY <1>6, AlikeHonest
  <1>8. t = IF CanPlayNext(v) THEN PlayNext(v) ELSE ReleaseClaim(v, q[1].id, TRUE)
    BY <1>1, <1>3 DEF ClaimWon
  <1>9. CASE t = PlayNext(v)
    <2>1. HonestTurn(v, t, q, S)
      BY <1>4, <1>5, <1>7, <1>9, PlayNextTurn
    <2> QED BY <1>6, <2>1, HonestAfter
  <1>10. CASE t = ReleaseClaim(v, q[1].id, TRUE)
    <2>1. PICK task : task = [op |-> "release", entry |-> q[1].id, block |-> TRUE]
      OBVIOUS
    <2>2. Asks(v, t, task) /\ t.issued = v.issued /\ task.op # "claim"
      <3>1. /\ Asks(v, ReleaseClaim(v, q[1].id, TRUE), [op |-> "release", entry |-> q[1].id, block |-> TRUE])
            /\ ReleaseClaim(v, q[1].id, TRUE).issued = v.issued
        BY <1>4, ReleaseClaimKeeps
      <3>2. task.op # "claim"
        BY <2>1
      <3> QED BY <1>10, <2>1, <3>1, <3>2, Zenon
    <2>3. t \in Engine(cl)
      BY ClaimWonType
    <2>4. HonestTurn(v, t, q, S)
      BY <1>4, <1>5, <1>7, <2>2, <2>3, AskedTurn
    <2> QED BY <1>6, <2>4, HonestAfter
  <1> QED BY <1>8, <1>9, <1>10

LEMMA ClaimLostHonest ==
    ASSUME NEW cl, NEW s \in Engine(cl), InTurn(s), NEW q \in Seq(Backed(cl)),
           NEW S, Honest(s, S), Due(s, q, S), NEW t, t = ClaimLost(s, q)
    PROVE  HonestTurn(s, t, q, S)
  <1>1. PICK u : u = ApplyQueue(s, q)
    OBVIOUS
  <1>2. u \in Engine(cl) /\ InTurn(u) /\ u.queue = q /\ Alike(s, u)
    BY <1>1, ApplyQueueInTurn, ApplyQueueAlike
  <1>3. PICK v : v = [u EXCEPT !.transitioning = FALSE]
    OBVIOUS
  <1>4. v \in Engine(cl) /\ Orderly(v, q)
    BY <1>2, <1>3, TurnRests
  <1>5. Alike(s, v)
    BY <1>2, <1>3, TurnOverAlike DEF Alike
  <1>6. Honest(v, S) /\ Due(v, q, S)
    BY <1>5, AlikeHonest
  <1>7. t = MaybeStart(v)
    BY <1>1, <1>3 DEF ClaimLost
  <1>8. HonestTurn(v, t, q, S)
    BY <1>4, <1>6, <1>7, MaybeStartHonest DEF HonestTurn
  <1> QED BY <1>5, <1>8, HonestAfter

LEMMA ClaimReleasedHonest ==
    ASSUME NEW cl, NEW s \in Engine(cl), InTurn(s), NEW q \in Seq(Backed(cl)), NEW block \in BOOLEAN,
           NEW S, Honest(s, S), Due(s, q, S), NEW t, t = ClaimReleased(s, q, block)
    PROVE  HonestTurn(s, t, q, S)
  <1>1. PICK u : u = ApplyQueue(s, q)
    OBVIOUS
  <1>2. u \in Engine(cl) /\ Alike(s, u)
    BY <1>1, ApplyQueueInTurn, ApplyQueueAlike
  <1>3. t = [u EXCEPT !.transitioning = FALSE, !.blocked = block]
    BY <1>1 DEF ClaimReleased
  <1>4. Alike(s, t)
    BY <1>2, <1>3, TurnOverAlike DEF Alike
  <1> QED BY <1>4, AlikeTurn

LEMMA BlockQueueHonest ==
    ASSUME NEW cl, NEW s \in Engine(cl), NEW q, NEW S, Honest(s, S), Due(s, q, S)
    PROVE  HonestTurn(s, BlockQueue(s), q, S)
  BY TurnOverAlike, AlikeTurn DEF BlockQueue

LEMMA ResumeQueueHonest ==
    ASSUME NEW cl, NEW s \in Engine(cl), InTurn(s), NEW S, Honest(s, S), Due(s, s.queue, S),
           NEW t, t = ResumeQueue(s)
    PROVE  HonestTurn(s, t, s.queue, S)
  <1>1. PICK v : v = [s EXCEPT !.transitioning = FALSE]
    OBVIOUS
  <1>2. /\ v \in Engine(cl) /\ Orderly(v, s.queue) /\ v.active = NoSong
        /\ ~v.transitioning /\ v.reconciled /\ v.queue = s.queue
    BY <1>1, TurnRests
  <1>3. Alike(s, v) /\ AtRest(v)
    BY <1>1, <1>2, TurnOverAlike DEF Orderly
  <1>4. Honest(v, S) /\ Due(v, s.queue, S)
    BY <1>3, AlikeHonest
  <1>5. t = PlayNext(v) \/ t = [v EXCEPT !.blocked = TRUE]
    BY <1>1 DEF ResumeQueue
  <1>6. CASE t = PlayNext(v)
    <2>1. HonestTurn(v, t, s.queue, S)
      BY <1>2, <1>3, <1>4, <1>6, PlayNextTurn
    <2> QED BY <1>3, <2>1, HonestAfter
  <1>7. CASE t = [v EXCEPT !.blocked = TRUE]
    <2>1. Alike(v, t)
      BY <1>2, <1>7 DEF Engine, Alike
    <2>2. HonestTurn(v, t, s.queue, S)
      BY <1>4, <2>1, AlikeTurn
    <2> QED BY <1>3, <2>2, HonestAfter
  <1> QED BY <1>5, <1>6, <1>7

LEMMA ResumeRotationHonest ==
    ASSUME NEW cl, NEW s \in Engine(cl), InTurn(s), NEW S, Honest(s, S), Due(s, s.queue, S),
           NEW cont, NEW t, t = ResumeRotation(s, cont)
    PROVE  HonestTurn(s, t, s.queue, S)
  <1>1. PICK v : v = [s EXCEPT !.transitioning = FALSE]
    OBVIOUS
  <1>2. /\ v \in Engine(cl) /\ Orderly(v, s.queue) /\ v.active = NoSong
        /\ ~v.transitioning /\ v.reconciled /\ v.queue = s.queue
    BY <1>1, TurnRests
  <1>3. Alike(s, v) /\ AtRest(v)
    BY <1>1, <1>2, TurnOverAlike DEF Orderly
  <1>4. Honest(v, S) /\ Due(v, s.queue, S)
    BY <1>3, AlikeHonest
  <1>5. t = PlayNext(v) \/ t = v
    BY <1>1 DEF ResumeRotation
  <1>6. CASE t = PlayNext(v)
    <2>1. HonestTurn(v, t, s.queue, S)
      BY <1>2, <1>3, <1>4, <1>6, PlayNextTurn
    <2> QED BY <1>3, <2>1, HonestAfter
  <1>7. CASE t = v
    BY <1>3, <1>7, AlikeTurn
  <1> QED BY <1>5, <1>6, <1>7

LEMMA AfterBumperHonest ==
    ASSUME NEW cl, NEW s \in Engine(cl), InTurn(s), NEW cont \in Continuation,
           NEW S, Honest(s, S), Due(s, s.queue, S), NEW t, t = AfterBumper(s, cont)
    PROVE  HonestTurn(s, t, s.queue, S)
  <1>1. PICK task : task = [op |-> "saveThenPlay", cont |-> cont]
    OBVIOUS
  <1>2. PICK v : v = [s EXCEPT !.tasks = Append(@, task)]
    OBVIOUS
  <1>3. Asks(s, v, task) /\ v.issued = s.issued /\ task.op # "claim"
    BY <1>1, <1>2 DEF Asks, Kept, Engine, InTurn
  <1>4. s.active = NoSong /\ ~s.frozen /\ AtRest(s)
    BY DEF InTurn
  <1>5. t = IF s.queue = <<>> THEN ResumeRotation(s, cont)
            ELSE IF cont.entry = None /\ ~cont.saved THEN v ELSE ResumeQueue(s)
    BY <1>1, <1>2, <1>4 DEF AfterBumper
  <1>6. CASE t = v
    <2>1. t \in Engine(cl)
      BY AfterBumperType
    <2> QED BY <1>3, <1>4, <1>6, <2>1, AskedTurn
  <1> QED BY <1>5, <1>6, ResumeRotationHonest, ResumeQueueHonest

\* The cursor written for the queue, with the bumper or the queue to follow.
LEMMA CursorSavedAlike ==
    ASSUME NEW cl, NEW s \in Engine(cl), InTurn(s), NEW seq \in Sequence,
           NEW t, t = CursorSaved(s, seq)
    PROVE  Alike(s, t) /\ InTurn(t) /\ t \in Engine(cl) /\ t.queue = s.queue
  <1>1. PICK u : u = [s EXCEPT !.seq = seq]
    OBVIOUS
  <1>2. u \in Engine(cl) /\ Alike(s, u) /\ InTurn(u) /\ u.queue = s.queue
    BY <1>1 DEF Engine, Alike, InTurn, AtRest
  <1>3. u.queue \in Seq(Backed(cl))
    BY <1>2 DEF Engine
  <1>4. t = ApplyQueue(u, s.queue)
    BY <1>1 DEF CursorSaved
  <1>5. Alike(u, t) /\ InTurn(t) /\ t \in Engine(cl) /\ t.queue = s.queue
    BY <1>2, <1>3, <1>4, ApplyQueueAlike, ApplyQueueInTurn
  <1> QED BY <1>2, <1>5 DEF Alike

\* endedRequestIds holds what it held, or the new end.
LEMMA RememberHolds ==
    ASSUME NEW ended \in Seq(Nat), NEW req \in Nat, NEW r, r = Remember(ended, req)
    PROVE  \A i \in 1..Len(r) : r[i] = req \/ \E j \in 1..Len(ended) : r[i] = ended[j]
  <1>1. PICK a : a = Append(ended, req)
    OBVIOUS
  <1>2. /\ a \in Seq(Nat) /\ Len(a) = Len(ended) + 1 /\ Len(ended) \in Nat /\ a # <<>>
        /\ \A i \in 1..Len(a) : a[i] = req \/ \E j \in 1..Len(ended) : a[i] = ended[j]
    BY <1>1, AppendProperties, LenProperties
  <1>3. Len(Tail(a)) = Len(a) - 1 /\ \A i \in 1..Len(Tail(a)) : Tail(a)[i] = a[i + 1]
    BY <1>2, HeadTailProperties
  <1>4. \A i \in 1..Len(Tail(a)) : i + 1 \in 1..Len(a)
    BY <1>2, <1>3
  <1>5. r = a \/ r = Tail(a)
    BY <1>1 DEF Remember
  <1>6. CASE r = a
    BY <1>2, <1>6
  <1>7. CASE r = Tail(a)
    <2> SUFFICES ASSUME NEW i \in 1..Len(Tail(a))
                 PROVE  a[i + 1] = req \/ \E j \in 1..Len(ended) : a[i + 1] = ended[j]
      BY <1>3, <1>7
    <2> QED BY <1>2, <1>4
  <1> QED BY <1>5, <1>6, <1>7

\* The end of the song on air: it takes the turn.
LEMMA ActiveEnds ==
    ASSUME NEW cl, NEW s \in Engine(cl), NEW req \in Nat, s.active.req = req, req # 0,
           ~Remembers(s, req), ~s.frozen, NEW t, t = TrackEnded(s, req)
    PROVE  \E u \in Engine(cl) :
              /\ Ends(u, t, s.active)
              /\ u.reconciled = s.reconciled /\ u.sends = s.sends /\ u.issued = s.issued
              /\ u.tasks = s.tasks /\ u.bumpers = s.bumpers
              /\ u.ended = Remember(s.ended, req)
  <1>1. \/ (req = 0 \/ Remembers(s, req)) /\ t = s
        \/ s.active.req # req \/ s.frozen
        \/ \E u \in Engine(cl) :
              /\ Ends(u, t, s.active)
              /\ u.queue = s.queue /\ u.frozen = s.frozen /\ u.reconciled = s.reconciled
              /\ u.sends = s.sends /\ u.issued = s.issued
              /\ u.tasks = s.tasks /\ u.bumpers = s.bumpers
              /\ u.ended = Remember(s.ended, req)
    BY TrackEndedCases
  <1> QED BY <1>1

LEMMA EndsInTurn ==
    ASSUME NEW u, AtRest(u), NEW t, NEW song, Ends(u, t, song)
    PROVE  \/ /\ Len(t.tasks) = 1
              /\ t.tasks[1].op \in {"consume", "save"}
              /\ t.tasks[1].op = "consume" <=> song.entry # None
              /\ t.tasks[1].cont.entry = song.entry
           \/ song.entry = None /\ Len(t.tasks) = 0
  <1>1. Len(u.tasks) = 0
    BY EmptySeq DEF AtRest
  <1>2. ASSUME NEW task, t.tasks = Append(u.tasks, task), t.bumpers = u.bumpers
        PROVE  Len(t.tasks) = 1 /\ t.tasks[1] = task
    BY <1>2, AskedInTurn
  <1> QED BY <1>1, <1>2 DEF Ends

\* The end of the song on air, which Palazzo has seen.
LEMMA TrackEndedHonest ==
    ASSUME NEW cl, NEW s \in Engine(cl), NEW q, Orderly(s, q), NEW S, Honest(s, S), Due(s, q, S),
           s.active # NoSong, s.active.req \in S, NEW t, t = TrackEnded(s, s.active.req)
    PROVE  Honest(t, S) /\ Due(t, q, S) /\ t.active = NoSong /\ t.reconciled = s.reconciled
  <1>1. PICK req : req = s.active.req
    OBVIOUS
  <1>2. req \in 1..s.issued /\ req \in S /\ s.issued \in Nat /\ req \in Nat /\ s.ended \in Seq(Nat)
    BY <1>1 DEF Honest, Airing, Engine
  <1>3. ~Remembers(s, req)
    BY <1>1 DEF Honest, Past, Remembers
  <1>4. AtRest(s) /\ ~s.frozen /\ s.reconciled /\ OwnsHead(s, q)
    BY DEF Orderly
  <1>5. PICK u : /\ Ends(u, t, s.active)
                 /\ u.reconciled = s.reconciled /\ u.sends = s.sends /\ u.issued = s.issued
                 /\ u.tasks = s.tasks /\ u.bumpers = s.bumpers
                 /\ u.ended = Remember(s.ended, req)
    <2>1. t = TrackEnded(s, req) /\ s.active.req = req /\ req # 0 /\ ~s.frozen
      BY <1>1, <1>2, <1>4
    <2> QED BY <1>2, <1>3, <2>1, ActiveEnds
  <1>6. /\ t.active = NoSong /\ t.sends = s.sends /\ t.issued = s.issued
        /\ t.reconciled = s.reconciled /\ t.ended = Remember(s.ended, req)
    BY <1>5 DEF Ends
  <1>7. AtRest(u)
    BY <1>4, <1>5 DEF AtRest
  <1>8. \/ /\ Len(t.tasks) = 1
           /\ t.tasks[1].op \in {"consume", "save"}
           /\ t.tasks[1].op = "consume" <=> s.active.entry # None
           /\ t.tasks[1].cont.entry = s.active.entry
        \/ s.active.entry = None /\ Len(t.tasks) = 0
    BY <1>5, <1>7, EndsInTurn
  <1>9. S \subseteq 1..t.issued /\ NoSong.req = 0 /\ NoSong.entry = None
    BY <1>6 DEF Honest, NoSong
  <1>10. OnTheWay(t, S)
    BY <1>1, <1>2, <1>6 DEF OnTheWay, Honest
  <1>11. Airing(t, S)
    BY <1>6 DEF Airing
  <1>12. Past(t, S)
    <2>1. \A i \in 1..Len(t.ended) : t.ended[i] \in S
      <3>1. \A i \in 1..Len(t.ended) :
               t.ended[i] = req \/ \E j \in 1..Len(s.ended) : t.ended[i] = s.ended[j]
        <4>1. PICK r : r = Remember(s.ended, req)
          OBVIOUS
        <4>2. \A i \in 1..Len(r) : r[i] = req \/ \E j \in 1..Len(s.ended) : r[i] = s.ended[j]
          BY <1>2, <4>1, RememberHolds
        <4> QED BY <1>6, <4>1, <4>2
      <3>2. \A j \in 1..Len(s.ended) : s.ended[j] \in S
        BY DEF Honest, Past
      <3> QED BY <1>2, <3>1, <3>2
    <2> QED BY <1>2, <1>6, <1>9, <2>1 DEF Past
  <1>13. Claiming(t, S)
    BY <1>8 DEF Claiming
  <1>14. Due(t, q, S)
    <2>1. SUFFICES ASSUME q # <<>>, q[1].claim # 0
                   PROVE  /\ q[1].claim <= s.issued
                          /\ \E i \in 1..Len(t.tasks) :
                                t.tasks[i].op = "consume" /\ t.tasks[i].cont.entry = q[1].id
      BY <1>6 DEF Due
    <2>2. s.active.entry # None /\ q[1].claim <= s.issued
      BY <2>1 DEF Due
    <2>3. q[1].id = s.active.entry
      BY <1>4, <2>2 DEF OwnsHead
    <2>4. /\ 1 \in 1..Len(t.tasks) /\ t.tasks[1].op = "consume"
          /\ t.tasks[1].cont.entry = s.active.entry
      BY <1>8, <2>2
    <2> QED BY <2>2, <2>3, <2>4
  <1> QED BY <1>4, <1>6, <1>9, <1>10, <1>11, <1>12, <1>13, <1>14 DEF Honest

\* The start of a track changes nothing of it.
LEMMA TrackStartedAlike ==
    ASSUME NEW cl, NEW s \in Engine(cl), NEW req, NEW t, t = TrackStarted(s, req)
    PROVE  Alike(s, t)
  BY DEF TrackStarted, Engine, Alike

\* The first snapshot, of a Palazzo that has played nothing.
LEMMA SnapshotHonest ==
    ASSUME NEW cl, NEW s \in Engine(cl), NEW q, Orderly(s, q), ~s.reconciled,
           NEW S, Honest(s, S), Due(s, q, S), NEW track, track.req = 0,
           NEW t, t = Snapshot(StatusChanged(s, "connected", TRUE), track)
    PROVE  /\ Honest(t, S) /\ Due(t, q, S) /\ t.reconciled
           /\ t.active = NoSong \/ t.active.req \notin S
  <1>1. s.active = NoSong /\ ~s.transitioning /\ AtRest(s) /\ s.queue = q /\ s.frozen = FALSE
    BY DEF Orderly, Engine
  <1>2. PICK b \in BOOLEAN : b = (s.reconciled /\ ~s.frozen)
    OBVIOUS
  <1>3. PICK w : w = [s EXCEPT !.status = "connected", !.snapped = TRUE, !.frozen = FALSE,
                               !.reconciled = TRUE, !.pending = {}, !.foreign = FALSE]
    OBVIOUS
  <1>4. /\ w \in Engine(cl) /\ w.queue = q /\ ~w.frozen /\ ~w.transitioning /\ w.reconciled
        /\ w.active = NoSong /\ w.tasks = s.tasks /\ w.bumpers = s.bumpers
        /\ w.sends = s.sends /\ w.ended = s.ended /\ w.issued = s.issued
    BY <1>1, <1>3 DEF Engine, Statuses
  <1>5. t = MaybeStart(w)
    <2>1. PICK v : v = StatusChanged(s, "connected", TRUE)
      OBVIOUS
    <2>2. v = [s EXCEPT !.status = "connected", !.snapped = TRUE, !.frozen = FALSE, !.reconciled = b]
      BY <1>2, <2>1 DEF StatusChanged, Engine
    <2>3. PICK u : u = [v EXCEPT !.reconciled = TRUE, !.frozen = FALSE]
      OBVIOUS
    <2>4. u = [s EXCEPT !.status = "connected", !.snapped = TRUE, !.frozen = FALSE,
                        !.reconciled = TRUE] /\ u.active = NoSong
      BY <1>1, <2>2, <2>3 DEF Engine
    <2>5. w = [u EXCEPT !.pending = {}, !.foreign = FALSE]
      BY <1>3, <2>4 DEF Engine
    <2> QED BY <2>1, <2>3, <2>4, <2>5 DEF Snapshot, ReconcileIdle
  <1>6. AtRest(w)
    BY <1>1, <1>4 DEF AtRest
  <1>7. Orderly(w, q)
    BY <1>4, <1>6 DEF Orderly, OneTurn, OwnsHead, NoSong
  <1>8. Honest(w, S) /\ Due(w, q, S)
    BY <1>1, <1>4 DEF Honest, OnTheWay, Airing, Past, Claiming, Due
  <1>9. Honest(t, S) /\ Due(t, q, S) /\ Follows(w, t, S)
    BY <1>4, <1>5, <1>7, <1>8, MaybeStartHonest
  <1> QED BY <1>4, <1>9 DEF Follows

\* The snapshot of a reconnection, with the song on air seen by Palazzo.
Recognises(s, track, S) ==
    /\ track.req # 0 => s.active.req = track.req
    /\ s.active # NoSong => s.active.req \in S

\* It leaves the song on air, or ends it, and what starts then is new.
Concludes(s, t, track, S) ==
    IF track.req # 0 THEN t.active = s.active ELSE t.active = NoSong \/ t.active.req \notin S

LEMMA RereadHonest ==
    ASSUME NEW cl, NEW s \in Engine(cl), NEW q, Orderly(s, q), s.reconciled,
           NEW S, Honest(s, S), Due(s, q, S), NEW track, Recognises(s, track, S),
           NEW t, t = Snapshot(StatusChanged(s, "connected", TRUE), track)
    PROVE  Honest(t, S) /\ Due(t, q, S) /\ Concludes(s, t, track, S)
  <1>1. ~s.frozen
    BY DEF Orderly
  <1>2. PICK u \in Engine(cl) :
           /\ t = IF track.req # 0 THEN ReconcilePlaying(u, track) ELSE ReconcileIdle(u)
           /\ Unturned(s, u)
    BY <1>1, SnapshotHeard
  <1>3. Alike(s, u) /\ u.active = s.active /\ u.reconciled
    BY <1>2 DEF Unturned, Alike
  <1>4. Honest(u, S) /\ Due(u, q, S)
    BY <1>3, AlikeHonest
  <1>5. Orderly(u, q)
    BY <1>2, UnturnedOrderly
  <1>6. CASE track.req # 0
    <2>1. Unturned(u, t)
      BY <1>2, <1>3, <1>6, SnapshotAgrees DEF Recognises
    <2>2. Alike(u, t)
      BY <2>1 DEF Unturned
    <2>3. Honest(t, S) /\ Due(t, q, S)
      BY <1>4, <2>2, AlikeHonest
    <2> QED BY <1>3, <1>6, <2>2, <2>3 DEF Alike, Concludes
  <1>7. CASE track.req = 0 /\ s.active = NoSong
    <2>1. u.active = NoSong /\ t = ReconcileIdle(u)
      BY <1>2, <1>3, <1>7
    <2>2. PICK w \in Engine(cl) : t = MaybeStart(w) /\ Unturned(u, w)
      BY <2>1, SnapshotRests
    <2>3. Alike(u, w) /\ Orderly(w, q) /\ w.active = NoSong
      BY <1>5, <2>1, <2>2, UnturnedOrderly DEF Unturned, Alike
    <2>4. Honest(w, S) /\ Due(w, q, S)
      BY <1>4, <2>3, AlikeHonest
    <2>5. Honest(t, S) /\ Due(t, q, S) /\ Follows(w, t, S)
      BY <2>2, <2>3, <2>4, MaybeStartHonest
    <2> QED BY <1>7, <2>3, <2>5 DEF Follows, Concludes
  <1>8. CASE track.req = 0 /\ s.active # NoSong
    <2>1. t = TrackEnded(u, u.active.req) /\ u.active # NoSong /\ u.active.req \in S
      BY <1>2, <1>3, <1>8 DEF ReconcileIdle, Recognises
    <2>2. Honest(t, S) /\ Due(t, q, S) /\ t.active = NoSong
      BY <1>4, <1>5, <2>1, TrackEndedHonest
    <2> QED BY <1>8, <2>2 DEF Concludes
  <1> QED BY <1>6, <1>7, <1>8

\* The end of a track that is not on air, which Palazzo has seen: at most it is remembered.
LEMMA OtherEndHonest ==
    ASSUME NEW cl, NEW s \in Engine(cl), NEW q, NEW S, Honest(s, S), Due(s, q, S), NEW req \in Nat,
           req = 0 \/ (req \in S /\ req # s.active.req), NEW t, t = TrackEnded(s, req)
    PROVE  Honest(t, S) /\ Due(t, q, S) /\ t.active = s.active
  <1>1. CASE t = s
    BY <1>1
  <1>2. CASE /\ t # s /\ t.reconciled = s.reconciled /\ t.sends = s.sends /\ t.issued = s.issued
             /\ t.active = s.active /\ t.tasks = s.tasks /\ t.ended = Remember(s.ended, req)
    <2>1. req # 0
      <3>1. SUFFICES ASSUME req = 0 PROVE t = s
        BY <1>2
      <3> QED BY <3>1 DEF TrackEnded
    <2>2. req \in S /\ req # s.active.req
      BY <2>1
    <2>3. PICK r : r = Remember(s.ended, req)
      OBVIOUS
    <2>4. \A i \in 1..Len(r) : r[i] = req \/ \E j \in 1..Len(s.ended) : r[i] = s.ended[j]
      <3>1. s.ended \in Seq(Nat)
        BY DEF Engine
      <3> QED BY <2>3, <3>1, RememberHolds
    <2>5. \A j \in 1..Len(s.ended) : s.ended[j] \in S /\ s.ended[j] # s.active.req
      BY DEF Honest, Past
    <2>6. Past(t, S)
      BY <1>2, <2>2, <2>3, <2>4, <2>5 DEF Past
    <2>7. OnTheWay(t, S) /\ Airing(t, S) /\ Claiming(t, S)
      BY <1>2 DEF Honest, OnTheWay, Airing, Claiming
    <2>8. Due(t, q, S)
      BY <1>2 DEF Due
    <2> QED BY <1>2, <2>6, <2>7, <2>8 DEF Honest
  <1>3. s.active.req # req \/ req = 0
    OBVIOUS
  <1> QED BY <1>1, <1>2, <1>3, TrackEndedCases

--------------------------------------------------------------------------------
\* The claimed head under the operations on the queue

\* A claimed head of r is the claimed head of q.
SameClaim(q, r) == r # <<>> /\ r[1].claim # 0 => q # <<>> /\ r[1] = q[1]

LEMMA DueSame ==
    ASSUME NEW s, NEW q, NEW r, SameClaim(q, r), NEW S, Due(s, q, S)
    PROVE  Due(s, r, S)
  BY DEF Due, SameClaim

LEMMA EnqueuedSame ==
    ASSUME NEW cl, NEW q \in Seq(Backed(cl)), NEW e, NEW item
    PROVE  SameClaim(q, Enqueued(q, e, item))
  <1>1. PICK entry : entry = [id |-> e, item |-> item, claim |-> 0]
    OBVIOUS
  <1>2. PICK r : r = Append(q, entry)
    OBVIOUS
  <1>3. q \in Seq(Backed(cl) \cup {entry})
    BY SeqMonotonic
  <1>4. /\ Len(r) = Len(q) + 1 /\ r[Len(q) + 1] = entry /\ Len(q) \in Nat
        /\ \A i \in 1..Len(q) : r[i] = q[i]
    BY <1>2, <1>3, AppendProperties, LenProperties
  <1>5. CASE Len(q) = 0
    BY <1>1, <1>2, <1>4, <1>5 DEF SameClaim, Enqueued
  <1>6. CASE Len(q) # 0
    <2>1. q # <<>> /\ r[1] = q[1]
      BY <1>4, <1>6, EmptySeq
    <2> QED BY <1>1, <1>2, <2>1 DEF SameClaim, Enqueued
  <1> QED BY <1>5, <1>6

\* And the entry removed is another.
LEMMA WithoutSame ==
    ASSUME NEW cl, NEW q \in Seq(Backed(cl)), Tidy(q), NEW e, NEW r, r = Without(q, e)
    PROVE  /\ SameClaim(q, r)
           /\ r # <<>> /\ r[1].claim # 0 => q[1].id # e
  <1>1. r \in Seq(Backed(cl)) /\ Len(q) \in Nat /\ Len(r) \in Nat
    BY WithoutBacked, LenProperties
  <1>2. SUFFICES ASSUME r # <<>>, r[1].claim # 0
                 PROVE  q # <<>> /\ r[1] = q[1] /\ q[1].id # e
    BY DEF SameClaim
  <1>3. 1 \in 1..Len(r)
    BY <1>1, <1>2, EmptySeq
  <1>4. CASE r = q /\ \A i \in 1..Len(q) : q[i].id # e
    BY <1>2, <1>3, <1>4
  <1>5. CASE \E i \in 1..Len(q) :
                /\ q[i].id = e /\ Len(r) = Len(q) - 1
                /\ \A k \in 1..Len(r) : r[k] = IF k < i THEN q[k] ELSE q[k + 1]
    <2>1. PICK i \in 1..Len(q) :
                /\ q[i].id = e /\ Len(r) = Len(q) - 1
                /\ \A k \in 1..Len(r) : r[k] = IF k < i THEN q[k] ELSE q[k + 1]
      BY <1>5
    <2>2. 1 \in 1..Len(q) /\ 2 \in 2..Len(q)
      BY <1>1, <1>3, <2>1
    <2>3. q # <<>>
      BY <2>2, EmptySeq
    <2>4. 1 < i
      <3>1. SUFFICES ASSUME ~(1 < i) PROVE FALSE
        OBVIOUS
      <3>2. r[1] = q[2]
        BY <1>3, <2>1, <3>1
      <3> QED BY <1>2, <2>2, <3>2 DEF Tidy
    <2>5. r[1] = q[1]
      BY <1>3, <2>1, <2>4
    <2>6. q[1].id # e
      BY <2>1, <2>2, <2>4 DEF Tidy
    <2> QED BY <2>3, <2>5, <2>6
  <1> QED BY <1>4, <1>5, WithoutIs

LEMMA ReorderedSame ==
    ASSUME NEW cl, NEW q \in Seq(Backed(cl)), Tidy(q), NEW playing, NEW r \in Reorderings(q, playing)
    PROVE  SameClaim(q, r)
  <1>1. r \in [1..Len(q) -> {q[i] : i \in 1..Len(q)}]
    BY Zenon DEF Reorderings
  <1>2. r \in Seq(Backed(cl)) /\ Len(q) \in Nat
    BY ReorderingBacked, LenProperties
  <1>3. Len(r) = Len(q)
    BY <1>1, <1>2, LenProperties
  <1>4. SUFFICES ASSUME r # <<>>, r[1].claim # 0
                 PROVE  q # <<>> /\ r[1] = q[1]
    BY DEF SameClaim
  <1>5. 1 \in 1..Len(q)
    BY <1>2, <1>3, <1>4, EmptySeq
  <1>6. PICK i \in 1..Len(q) : r[1] = q[i]
    BY <1>1, <1>5
  <1>7. i = 1
    BY <1>2, <1>4, <1>6 DEF Tidy
  <1> QED BY <1>5, <1>6, <1>7, EmptySeq

LEMMA ReleasedSame ==
    ASSUME NEW cl, NEW q \in Seq(Backed(cl)), NEW e
    PROVE  SameClaim(q, Released(q, e))
  <1>1. PICK r : r = Released(q, e)
    OBVIOUS
  <1>2. r \in Seq(Backed(cl)) /\ Len(q) \in Nat
    BY <1>1, ReleasedBacked, LenProperties
  <1>3. r = [i \in 1..Len(q) |-> IF q[i].id = e THEN [q[i] EXCEPT !.claim = 0] ELSE q[i]]
    BY <1>1 DEF Released
  <1>4. Len(r) = Len(q)
    BY <1>2, <1>3, LenProperties
  <1>5. SUFFICES ASSUME r # <<>>, r[1].claim # 0
                 PROVE  q # <<>> /\ r[1] = q[1]
    BY <1>1 DEF SameClaim
  <1>6. 1 \in 1..Len(q) /\ q # <<>>
    BY <1>2, <1>4, <1>5, EmptySeq
  <1>7. q[1] \in Entry
    BY <1>6, HeadBacked DEF Backed
  <1>8. q[1].id # e
    BY <1>3, <1>5, <1>6, <1>7 DEF Entry
  <1> QED BY <1>3, <1>6, <1>8

--------------------------------------------------------------------------------
\* The station in step with Palazzo

\* Nothing fails but writes of claims, releases and cursors.
Uninterrupted ==
    /\ \A c \in eng.sends : ~CommandFails(c)
    /\ ~Restart
    /\ TaskFails => NextTask.op # "consume"

\* The engine reads the snapshot of a reconnection while no command is on its way, and one that said
\* Palazzo was idle is still true.
InTime ==
    Rereads => /\ \A c \in eng.sends : c.stage = "accepted"
               /\ Head(tel.wire).track = Idle => palazzo.onAir = Idle

\* The frame i of the wire tells of the song on air.
Tells(i, kind) == tel.wire[i].kind = kind /\ tel.wire[i].track.req = eng.active.req

\* The engine is going to hear that the song on air is over.
EndComes ==
    \/ ~tel.sse
    \/ SnapshotAhead
    \/ \E i \in 1..Len(tel.wire) : Tells(i, "ended") /\ tel.wire[i].seq > tel.last

\* What Palazzo plays is the song on air, and the engine is at most one end behind Palazzo.
InStep ==
    /\ palazzo.onAir # Idle => eng.active # NoSong /\ eng.active.req = palazzo.onAir.req
    /\ eng.active # NoSong /\ Over(eng.active.req) => EndComes

Quiet == Honest(eng, palazzo.seen) /\ Due(eng, db.queue, palazzo.seen) /\ InStep

\* Palazzo forgets no request, and what it plays is played to its end.
Gentle ==
    /\ palazzo.seen \subseteq palazzo'.seen
    /\ palazzo.onAir # Idle => palazzo'.onAir \in {palazzo.onAir, Idle}

LEMMA QuietMeans ==
    ASSUME IInv, Calm, Quiet
    PROVE  /\ eng \in Engine(claims) /\ Orderly(eng, db.queue)
           /\ Honest(eng, palazzo.seen) /\ Due(eng, db.queue, palazzo.seen)
           /\ palazzo \in Appliance /\ tel \in Link
           /\ tel.wire \in Seq(Frame) /\ Len(tel.wire) \in Nat
           /\ palazzo.seq \in Nat /\ tel.last \in Nat
           /\ eng.sends # {} => eng.reconciled
           /\ eng.active # NoSong => eng.reconciled /\ eng.active.req # 0
           /\ palazzo.onAir # Idle => palazzo.onAir.req # 0 /\ ~Over(palazzo.onAir.req)
  <1>1. eng \in Engine(claims) /\ palazzo \in Appliance /\ tel \in Link
    BY DEF IInv
  <1>2. /\ tel.wire \in Seq(Frame) /\ Len(tel.wire) \in Nat
        /\ palazzo.seq \in Nat /\ tel.last \in Nat
    BY <1>1, LenProperties DEF Link, Appliance
  <1>3. /\ Orderly(eng, db.queue) /\ Honest(eng, palazzo.seen) /\ Due(eng, db.queue, palazzo.seen)
    BY DEF Calm, Quiet
  <1>4. eng.active # NoSong => eng.reconciled /\ eng.active.req # 0
    BY <1>3 DEF Orderly, Honest, Airing
  <1>5. eng.sends # {} => eng.reconciled
    BY DEF Quiet, Honest
  <1>6. palazzo.onAir # Idle => palazzo.onAir.req # 0 /\ ~Over(palazzo.onAir.req)
    BY <1>4 DEF Quiet, InStep, Over
  <1> QED BY <1>1, <1>2, <1>3, <1>4, <1>5, <1>6

\* A step of the engine alone: the song on air stays, or one starts in silence.
LEMMA QuietKept ==
    ASSUME Quiet, UNCHANGED <<palazzo, tel>>, HonestTurn(eng, eng', db'.queue, palazzo.seen)
    PROVE  Quiet' /\ Gentle
  <1>1. palazzo' = palazzo /\ tel' = tel /\ palazzo'.seen = palazzo.seen
    OBVIOUS
  <1>2. Honest(eng', palazzo'.seen) /\ Due(eng', db'.queue, palazzo'.seen)
    BY <1>1 DEF HonestTurn
  <1>3. /\ eng'.reconciled = eng.reconciled
        /\ \/ eng'.active = eng.active
           \/ eng.active = NoSong /\ eng'.active.req \notin palazzo.seen
    BY DEF HonestTurn, Follows
  <1>4. InStep'
    <2>1. CASE eng'.active = eng.active
      <3>1. Over(eng.active.req)' => Over(eng.active.req)
        BY <1>1, <2>1 DEF Over
      <3>2. EndComes => EndComes'
        BY <1>1, <2>1 DEF EndComes, SnapshotAhead, Tells
      <3> QED BY <1>1, <2>1, <3>1, <3>2 DEF Quiet, InStep
    <2>2. CASE eng.active = NoSong /\ eng'.active.req \notin palazzo.seen
      BY <1>1, <2>2 DEF Quiet, InStep, Over
    <2> QED BY <1>3, <2>1, <2>2
  <1> QED BY <1>1, <1>2, <1>4 DEF Quiet, Gentle

\* The commands on their way.
LEMMA PostCommandQuiet ==
    ASSUME IInv, Calm, Quiet, NEW c, PostCommand(c)
    PROVE  Quiet' /\ Gentle
  <1>1. c \in eng.sends /\ c.stage = "lookup" /\ c \in Send /\ eng \in Engine(claims)
    BY DEF IInv, PostCommand, Engine
  <1>2. /\ ~c.manual /\ eng.active # NoSong /\ c.req = eng.active.req /\ c.req \notin palazzo.seen
        /\ \A d \in eng.sends : d = c \/ d.stage = "accepted"
    BY <1>1 DEF Quiet, Honest, OnTheWay
  <1>3. PICK d : d = [c EXCEPT !.stage = "posted"]
    OBVIOUS
  <1>4. d.req = c.req /\ d.manual = c.manual /\ d.stage = "posted"
    BY <1>1, <1>3 DEF Send
  <1>5. eng' = [eng EXCEPT !.sends = (eng.sends \ {c}) \cup {d}]
    BY <1>1, <1>2, <1>3 DEF PostCommand
  <1>6. /\ eng'.sends = (eng.sends \ {c}) \cup {d} /\ eng'.active = eng.active
        /\ eng'.ended = eng.ended /\ eng'.reconciled = eng.reconciled
        /\ eng'.issued = eng.issued /\ eng'.tasks = eng.tasks
    BY <1>1, <1>5 DEF Engine
  <1>7. OnTheWay(eng', palazzo.seen)
    BY <1>2, <1>4, <1>6 DEF Quiet, Honest, OnTheWay
  <1>8. Airing(eng', palazzo.seen)
    BY <1>2, <1>4, <1>6 DEF Quiet, Honest, Airing
  <1>9. Past(eng', palazzo.seen) /\ Claiming(eng', palazzo.seen)
    BY <1>6 DEF Quiet, Honest, Past, Claiming
  <1>10. Honest(eng', palazzo.seen)
    BY <1>1, <1>6, <1>7, <1>8, <1>9 DEF Quiet, Honest
  <1>11. Due(eng', db.queue, palazzo.seen) /\ Follows(eng, eng', palazzo.seen)
    BY <1>6 DEF Quiet, Due, Follows
  <1>12. UNCHANGED <<db, palazzo, tel>>
    BY DEF PostCommand
  <1> QED BY <1>10, <1>11, <1>12, QuietKept DEF HonestTurn

LEMMA CommandSucceedsQuiet ==
    ASSUME IInv, Calm, Quiet, NEW c, CommandSucceeds(c)
    PROVE  Quiet' /\ Gentle
  <1>1. c \in eng.sends /\ c.stage = "accepted" /\ eng \in Engine(claims)
    BY DEF IInv, CommandSucceeds
  <1>2. eng' = [eng EXCEPT !.sends = eng.sends \ {c}]
    BY DEF CommandSucceeds
  <1>3. /\ eng'.sends = eng.sends \ {c} /\ eng'.active = eng.active
        /\ eng'.ended = eng.ended /\ eng'.reconciled = eng.reconciled
        /\ eng'.issued = eng.issued /\ eng'.tasks = eng.tasks
    BY <1>1, <1>2 DEF Engine
  <1>4. OnTheWay(eng', palazzo.seen)
    BY <1>3 DEF Quiet, Honest, OnTheWay
  <1>5. Airing(eng', palazzo.seen)
    BY <1>1, <1>3 DEF Quiet, Honest, Airing
  <1>6. Past(eng', palazzo.seen) /\ Claiming(eng', palazzo.seen)
    BY <1>3 DEF Quiet, Honest, Past, Claiming
  <1>7. Honest(eng', palazzo.seen)
    BY <1>1, <1>3, <1>4, <1>5, <1>6 DEF Quiet, Honest
  <1>8. Due(eng', db.queue, palazzo.seen) /\ Follows(eng, eng', palazzo.seen)
    BY <1>3 DEF Quiet, Due, Follows
  <1>9. UNCHANGED <<db, palazzo, tel>>
    BY DEF CommandSucceeds
  <1> QED BY <1>7, <1>8, <1>9, QuietKept DEF HonestTurn

\* The engine that gave its only task the turn.
LEMMA UnlockedHonest ==
    ASSUME IInv, Calm, Quiet, eng.tasks # <<>>
    PROVE  /\ Honest(Unlocked, palazzo.seen) /\ Follows(eng, Unlocked, palazzo.seen)
           /\ NextTask.op = "claim" => NextTask.req \in 1..Unlocked.issued /\ NextTask.req \notin palazzo.seen
           /\ NextTask.op # "consume" => Due(Unlocked, db.queue, palazzo.seen)
           /\ NextTask.op = "consume" /\ db.queue # <<>> /\ db.queue[1].claim # 0
                 => \/ NextTask.cont.entry = db.queue[1].id
                    \/ db.queue[1].claim <= Unlocked.issued /\ db.queue[1].claim \notin palazzo.seen
           /\ \A t, q : HonestTurn(Unlocked, t, q, palazzo.seen) => HonestTurn(eng, t, q, palazzo.seen)
  <1>1. /\ Unlocked \in Engine(claims) /\ InTurn(Unlocked) /\ Unlocked.queue = db.queue
        /\ NextTask = eng.tasks[1] /\ 1 \in 1..Len(eng.tasks) /\ NextTask \in Task
    BY UnlockedInTurn DEF Calm
  <1>2. PICK u : u = Unlocked
    OBVIOUS
  <1>3. /\ u.sends = eng.sends /\ u.active = eng.active /\ u.ended = eng.ended
        /\ u.reconciled = eng.reconciled /\ u.issued = eng.issued
    BY <1>2 DEF Unlocked, IInv, Engine
  <1>4. u.tasks = <<>> /\ u.active = NoSong /\ Len(u.tasks) = 0
    BY <1>1, <1>2, EmptySeq DEF InTurn, AtRest
  <1>5. \A i \in 1..Len(eng.tasks) : eng.tasks[i] = NextTask
    <2>1. Len(eng.tasks) = 1
      BY DEF Calm, Orderly, OneTurn, AtRest
    <2> QED BY <1>1, <2>1
  <1>6. Honest(u, palazzo.seen) /\ Follows(eng, u, palazzo.seen)
    BY <1>3, <1>4 DEF Quiet, Honest, OnTheWay, Airing, Past, Claiming, Follows
  <1>7. NextTask.op = "claim" => NextTask.req \in 1..u.issued /\ NextTask.req \notin palazzo.seen
    BY <1>1, <1>3 DEF Quiet, Honest, Claiming
  <1>8. NoSong.entry = None
    BY DEF NoSong
  <1>9. ASSUME db.queue # <<>>, db.queue[1].claim # 0
        PROVE  /\ db.queue[1].claim <= u.issued
               /\ \/ db.queue[1].claim \notin palazzo.seen
                  \/ NextTask.op = "consume" /\ NextTask.cont.entry = db.queue[1].id
    BY <1>3, <1>4, <1>5, <1>8, <1>9 DEF Quiet, Due
  <1>10. NextTask.op # "consume" => Due(u, db.queue, palazzo.seen)
    BY <1>4, <1>9 DEF Due
  <1>11. ASSUME NEW t, NEW q, HonestTurn(u, t, q, palazzo.seen)
         PROVE  HonestTurn(eng, t, q, palazzo.seen)
    BY <1>3, <1>11 DEF HonestTurn, Follows
  <1> QED BY <1>2, <1>6, <1>7, <1>9, <1>10, <1>11

LEMMA RunClaimQuiet ==
    ASSUME IInv, Calm, Quiet, RunTask, RunClaim
    PROVE  Quiet' /\ Gentle
  <1>1. /\ Unlocked \in Engine(claims) /\ InTurn(Unlocked) /\ Unlocked.queue = db.queue
        /\ NextTask \in Task /\ eng.tasks # <<>> /\ NextTask.op = "claim"
    BY UnlockedInTurn DEF Calm, RunTask, RunClaim
  <1>2. PICK entry, req : entry = NextTask.entry /\ req = NextTask.req
    OBVIOUS
  <1>3. entry \in Entries /\ req \in Nat
    BY <1>1, <1>2 DEF Task
  <1>4. /\ Honest(Unlocked, palazzo.seen) /\ Due(Unlocked, db.queue, palazzo.seen)
        /\ req \in 1..Unlocked.issued /\ req \notin palazzo.seen
        /\ \A t, q : HonestTurn(Unlocked, t, q, palazzo.seen) => HonestTurn(eng, t, q, palazzo.seen)
    BY <1>1, <1>2, UnlockedHonest
  <1>5. UNCHANGED <<palazzo, tel>>
    BY DEF RunTask
  <1>6. CASE Stored # <<>> /\ Stored[1].id = entry /\ Stored[1].claim = 0
    <2>1. PICK q : q = HeadClaimed(db.queue, req)
      OBVIOUS
    <2>2. /\ db' = [db EXCEPT !.queue = q] /\ eng' = ClaimWon(Unlocked, q)
          /\ claims' = claims \cup {<<entry, req>>}
      BY <1>2, <1>6, <2>1, CalmMeans DEF RunClaim
    <2>3. q \in Seq(Backed(claims')) /\ q # <<>>
      BY <1>3, <1>6, <2>1, <2>2, CalmMeans, HeadClaimedBacked, HeadClaimedTidy
    <2>4. Unlocked \in Engine(claims')
      BY <1>1, <2>2, EngineGrows
    <2>5. q[1].claim = req
      <3>1. 1 \in 1..Len(db.queue) /\ db.queue[1] \in Entry
        <4>1. db.queue # <<>> /\ db.queue \in Seq(Backed(claims))
          BY <1>6, CalmMeans
        <4>2. 1 \in 1..Len(db.queue)
          BY <4>1, EmptySeq, LenProperties
        <4>3. db.queue[1] \in Backed(claims)
          BY <4>1, HeadBacked
        <4> QED BY <4>2, <4>3 DEF Backed
      <3> QED BY <2>1, <3>1, CalmMeans DEF HeadClaimed, Entry
    <2>6. Due(Unlocked, q, palazzo.seen)
      BY <1>1, <1>4, <2>5 DEF Due, InTurn
    <2>7. HonestTurn(Unlocked, eng', q, palazzo.seen)
      BY <1>1, <1>4, <2>2, <2>3, <2>4, <2>6, ClaimWonHonest
    <2>8. db'.queue = q
      BY <2>2 DEF IInv, BackedRow
    <2> QED BY <1>4, <1>5, <2>7, <2>8, QuietKept
  <1>7. CASE ~(Stored # <<>> /\ Stored[1].id = entry /\ Stored[1].claim = 0)
    <2>1. eng' = ClaimLost(Unlocked, db.queue) /\ db' = db
      BY <1>2, <1>7, CalmMeans DEF RunClaim
    <2>2. HonestTurn(Unlocked, eng', db.queue, palazzo.seen)
      BY <1>1, <1>4, <2>1, CalmMeans, ClaimLostHonest
    <2> QED BY <1>4, <1>5, <2>1, <2>2, QuietKept
  <1> QED BY <1>6, <1>7

LEMMA RunReleaseQuiet ==
    ASSUME IInv, Calm, Quiet, RunTask, RunRelease
    PROVE  Quiet' /\ Gentle
  <1>1. /\ Unlocked \in Engine(claims) /\ InTurn(Unlocked) /\ NextTask \in Task
        /\ eng.tasks # <<>> /\ NextTask.op = "release"
    BY UnlockedInTurn DEF Calm, RunTask, RunRelease
  <1>2. PICK q : q = Released(db.queue, NextTask.entry)
    OBVIOUS
  <1>3. q \in Seq(Backed(claims)) /\ SameClaim(db.queue, q)
    BY <1>2, CalmMeans, ReleasedBacked, ReleasedSame
  <1>4. NextTask.block \in BOOLEAN
    BY <1>1 DEF Task
  <1>5. /\ db' = IF q = db.queue THEN db ELSE [db EXCEPT !.queue = q]
        /\ eng' = ClaimReleased(Unlocked, q, NextTask.block)
    BY <1>2, CalmMeans DEF RunRelease
  <1>6. db'.queue = q
    BY <1>5 DEF IInv, BackedRow
  <1>7. /\ Honest(Unlocked, palazzo.seen) /\ Due(Unlocked, db.queue, palazzo.seen)
        /\ \A t, r : HonestTurn(Unlocked, t, r, palazzo.seen) => HonestTurn(eng, t, r, palazzo.seen)
    BY <1>1, UnlockedHonest
  <1>8. Due(Unlocked, q, palazzo.seen)
    BY <1>3, <1>7, DueSame
  <1>9. HonestTurn(Unlocked, eng', q, palazzo.seen)
    BY <1>1, <1>3, <1>4, <1>5, <1>7, <1>8, ClaimReleasedHonest
  <1>10. UNCHANGED <<palazzo, tel>>
    BY DEF RunTask
  <1> QED BY <1>6, <1>7, <1>9, <1>10, QuietKept

\* The entry consumed is the head whose request Palazzo has played: it is not commanded again.
LEMMA RunConsumeQuiet ==
    ASSUME IInv, Calm, Quiet, RunTask, RunConsume
    PROVE  Quiet' /\ Gentle
  <1>1. /\ Unlocked \in Engine(claims) /\ InTurn(Unlocked) /\ NextTask \in Task
        /\ eng.tasks # <<>> /\ NextTask.op = "consume"
    BY UnlockedInTurn DEF Calm, RunTask, RunConsume
  <1>2. PICK cont : cont = NextTask.cont
    OBVIOUS
  <1>3. PICK q : q = Without(db.queue, cont.entry)
    OBVIOUS
  <1>4. /\ q \in Seq(Backed(claims)) /\ SameClaim(db.queue, q)
        /\ q # <<>> /\ q[1].claim # 0 => db.queue[1].id # cont.entry
    BY <1>3, CalmMeans, WithoutBacked, WithoutSame
  <1>5. /\ Honest(Unlocked, palazzo.seen)
        /\ db.queue # <<>> /\ db.queue[1].claim # 0
              => \/ cont.entry = db.queue[1].id
                 \/ db.queue[1].claim <= Unlocked.issued /\ db.queue[1].claim \notin palazzo.seen
        /\ \A t, r : HonestTurn(Unlocked, t, r, palazzo.seen) => HonestTurn(eng, t, r, palazzo.seen)
    BY <1>1, <1>2, UnlockedHonest
  <1>6. Due(Unlocked, q, palazzo.seen)
    BY <1>1, <1>4, <1>5 DEF Due, InTurn, SameClaim
  <1>7. PICK t : t = ApplyQueue(Unlocked, q)
    OBVIOUS
  <1>8. t \in Engine(claims) /\ Alike(Unlocked, t)
    BY <1>1, <1>4, <1>7, ApplyQueueInTurn, ApplyQueueAlike
  <1>9. db' = [db EXCEPT !.queue = q] /\ eng' = [t EXCEPT !.bumpers = @ \cup {cont}]
    BY <1>2, <1>3, <1>7, CalmMeans DEF RunConsume
  <1>10. Alike(Unlocked, eng')
    BY <1>8, <1>9 DEF Engine, Alike
  <1>11. HonestTurn(Unlocked, eng', q, palazzo.seen)
    BY <1>5, <1>6, <1>10, AlikeTurn
  <1>12. db'.queue = q
    BY <1>9 DEF IInv, BackedRow
  <1>13. UNCHANGED <<palazzo, tel>>
    BY DEF RunTask
  <1> QED BY <1>5, <1>11, <1>12, <1>13, QuietKept

LEMMA RunSaveQuiet ==
    ASSUME IInv, Calm, Quiet, RunTask, RunSave
    PROVE  Quiet' /\ Gentle
  <1>1. /\ Unlocked \in Engine(claims) /\ InTurn(Unlocked) /\ Unlocked.queue = db.queue
        /\ NextTask \in Task /\ eng.tasks # <<>> /\ NextTask.op \in {"save", "saveThenPlay"}
    BY UnlockedInTurn DEF Calm, RunTask, RunSave
  <1>2. NextTask.cont.next \in Sequence
    BY <1>1 DEF Task, Continuation
  <1>3. PICK t : t = CursorSaved(Unlocked, NextTask.cont.next)
    OBVIOUS
  <1>4. Alike(Unlocked, t) /\ InTurn(t) /\ t \in Engine(claims) /\ t.queue = db.queue
    BY <1>1, <1>2, <1>3, CursorSavedAlike
  <1>5. /\ Honest(Unlocked, palazzo.seen) /\ Due(Unlocked, db.queue, palazzo.seen)
        /\ \A v, r : HonestTurn(Unlocked, v, r, palazzo.seen) => HonestTurn(eng, v, r, palazzo.seen)
    BY <1>1, UnlockedHonest
  <1>6. Honest(t, palazzo.seen) /\ Due(t, db.queue, palazzo.seen)
    BY <1>4, <1>5, AlikeHonest
  <1>7. /\ db' = [db EXCEPT !.seq = NextTask.cont.next]
        /\ \/ eng' = [t EXCEPT !.bumpers = @ \cup {[NextTask.cont EXCEPT !.saved = TRUE]}]
           \/ eng' = ResumeQueue(t)
    BY <1>3 DEF RunSave
  <1>8. HonestTurn(Unlocked, eng', db.queue, palazzo.seen)
    <2>1. CASE eng' = [t EXCEPT !.bumpers = @ \cup {[NextTask.cont EXCEPT !.saved = TRUE]}]
      <3>1. Alike(Unlocked, eng')
        BY <1>4, <2>1 DEF Engine, Alike
      <3> QED BY <1>5, <3>1, AlikeTurn
    <2>2. CASE eng' = ResumeQueue(t)
      <3>1. HonestTurn(t, eng', db.queue, palazzo.seen)
        BY <1>4, <1>6, <2>2, ResumeQueueHonest
      <3> QED BY <1>4, <3>1, HonestAfter
    <2> QED BY <1>7, <2>1, <2>2
  <1>9. db'.queue = db.queue
    BY <1>7 DEF IInv, BackedRow
  <1>10. UNCHANGED <<palazzo, tel>>
    BY DEF RunTask
  <1> QED BY <1>5, <1>8, <1>9, <1>10, QuietKept

LEMMA TaskFailsQuiet ==
    ASSUME IInv, Calm, Quiet, TaskFails, NextTask.op # "consume"
    PROVE  Quiet' /\ Gentle
  <1>1. Unlocked \in Engine(claims) /\ eng.tasks # <<>>
    BY UnlockedInTurn DEF Calm, TaskFails
  <1>2. /\ Honest(Unlocked, palazzo.seen) /\ Due(Unlocked, db.queue, palazzo.seen)
        /\ \A t, q : HonestTurn(Unlocked, t, q, palazzo.seen) => HonestTurn(eng, t, q, palazzo.seen)
    BY <1>1, UnlockedHonest
  <1>3. HonestTurn(Unlocked, eng', db.queue, palazzo.seen)
    BY <1>1, <1>2, BlockQueueHonest DEF TaskFails
  <1> QED BY <1>2, <1>3, QuietKept DEF TaskFails

LEMMA BumperEndsQuiet ==
    ASSUME IInv, Calm, Quiet, NEW cont, BumperEnds(cont)
    PROVE  Quiet' /\ Gentle
  <1>1. eng \in Engine(claims) /\ cont \in Continuation
    BY DEF IInv, Engine, BumperEnds
  <1>2. ~AtRest(eng) /\ eng.tasks = <<>> /\ eng.bumpers = {cont}
    <2>1. ~AtRest(eng)
      BY DEF BumperEnds, AtRest
    <2> QED BY <2>1 DEF Calm, Orderly, OneTurn, BumperEnds
  <1>3. PICK u : u = [eng EXCEPT !.bumpers = @ \ {cont}]
    OBVIOUS
  <1>4. /\ u \in Engine(claims) /\ u.queue = eng.queue /\ u.frozen = eng.frozen
        /\ u.transitioning = eng.transitioning /\ u.tasks = <<>> /\ u.bumpers = {}
        /\ u.reconciled = eng.reconciled /\ u.active = eng.active /\ Alike(eng, u)
    BY <1>1, <1>2, <1>3 DEF Engine, Alike
  <1>5. InTurn(u) /\ u.queue = db.queue
    BY <1>2, <1>4 DEF InTurn, AtRest, Calm, Orderly
  <1>6. Honest(u, palazzo.seen) /\ Due(u, u.queue, palazzo.seen)
    BY <1>4, <1>5, AlikeHonest DEF Quiet
  <1>7. eng' = AfterBumper(u, cont)
    BY <1>3 DEF BumperEnds
  <1>8. HonestTurn(u, eng', db.queue, palazzo.seen)
    BY <1>1, <1>4, <1>5, <1>6, <1>7, AfterBumperHonest
  <1>9. HonestTurn(eng, eng', db.queue, palazzo.seen)
    BY <1>4, <1>8, HonestAfter
  <1> QED BY <1>9, QuietKept DEF BumperEnds

\* A write to the queue that keeps the active entry and the claim at its head.
LEMMA QueueQuiet ==
    ASSUME IInv, Calm, Quiet, NEW q \in Seq(Backed(claims)), OwnsHead(eng, q), SameClaim(db.queue, q),
           db' = [db EXCEPT !.queue = q], eng' = ApplyQueue(eng, q), UNCHANGED <<palazzo, tel>>
    PROVE  Quiet' /\ Gentle
  <1>1. db'.queue = q
    BY DEF IInv, BackedRow
  <1>2. Due(eng, q, palazzo.seen)
    BY QuietMeans, DueSame
  <1>3. HonestTurn(eng, eng', q, palazzo.seen)
    BY <1>2, QuietMeans, ApplyQueueHonest DEF HonestTurn
  <1> QED BY <1>1, <1>3, QuietKept

LEMMA EnqueueQuiet ==
    ASSUME IInv, Calm, Quiet, NEW item \in Items, Enqueue(item)
    PROVE  Quiet' /\ Gentle
  <1>1. PICK e : e = CHOOSE x \in Entries : x \notin minted
    OBVIOUS
  <1>2. e \in Entries /\ e \notin minted
    BY <1>1 DEF IInv, Enqueue
  <1>3. e \notin IdsIn(db.queue)
    BY <1>2 DEF Calm, Stocked
  <1>4. PICK q : q = Enqueued(db.queue, e, item)
    OBVIOUS
  <1>5. q \in Seq(Backed(claims)) /\ (db.queue # <<>> => q[1] = db.queue[1]) /\ q # <<>>
    BY <1>2, <1>3, <1>4, CalmMeans, EnqueuedBacked, EnqueuedTidy
  <1>6. SameClaim(db.queue, q)
    BY <1>4, CalmMeans, EnqueuedSame
  <1>7. OwnsHead(eng, q)
    BY <1>5 DEF Calm, Orderly, OwnsHead
  <1>8. /\ db' = [db EXCEPT !.queue = q] /\ eng' = ApplyQueue(eng, q) /\ UNCHANGED <<palazzo, tel>>
    BY <1>1, <1>4, CalmMeans DEF Enqueue
  <1> QED BY <1>5, <1>6, <1>7, <1>8, QueueQuiet

\* Removing an unclaimed entry leaves the active one, which is claimed.
LEMMA RemovalKeepsHead ==
    ASSUME IInv, Calm, NEW e, RemoveEntry(e), NEW q, q = Without(db.queue, e)
    PROVE  OwnsHead(eng, q)
  <1>1. db.queue # <<>> /\ db.queue[1].id # e => q # <<>> /\ q[1] = db.queue[1]
    BY CalmMeans, WithoutTidy
  <1>2. PICK i \in 1..Len(db.queue) : db.queue[i].id = e /\ db.queue[i].claim = 0
    BY CalmMeans DEF RemoveEntry, PositionsOf
  <1>3. Len(db.queue) \in Nat
    BY CalmMeans, LenProperties
  <1>4. OwnsHead(eng, db.queue)
    BY DEF Calm, Orderly
  <1>5. ASSUME eng.active.entry # None PROVE db.queue[1].id # e
    <2>1. db.queue[1].claim # 0 /\ 1 \in 1..Len(db.queue)
      BY <1>2, <1>3, <1>4, <1>5 DEF OwnsHead
    <2>2. ASSUME db.queue[1].id = e PROVE FALSE
      <3>1. i = 1
        BY <1>2, <2>1, <2>2, CalmMeans DEF Tidy
      <3> QED BY <1>2, <2>1, <3>1
    <2> QED BY <2>2
  <1> QED BY <1>1, <1>4, <1>5 DEF OwnsHead

LEMMA RemoveEntryQuiet ==
    ASSUME IInv, Calm, Quiet, NEW e, RemoveEntry(e)
    PROVE  Quiet' /\ Gentle
  <1>1. PICK q : q = Without(db.queue, e)
    OBVIOUS
  <1>2. /\ q \in Seq(Backed(claims)) /\ SameClaim(db.queue, q)
        /\ db.queue # <<>> /\ db.queue[1].id # e => q # <<>> /\ q[1] = db.queue[1]
    BY <1>1, CalmMeans, WithoutBacked, WithoutTidy, WithoutSame
  <1>3. OwnsHead(eng, q)
    BY <1>1, RemovalKeepsHead
  <1>4. /\ db' = [db EXCEPT !.queue = q] /\ eng' = ApplyQueue(eng, q) /\ UNCHANGED <<palazzo, tel>>
    BY <1>1, CalmMeans DEF RemoveEntry
  <1> QED BY <1>2, <1>3, <1>4, QueueQuiet

LEMMA ReorderQuiet ==
    ASSUME IInv, Calm, Quiet, Reorder
    PROVE  Quiet' /\ Gentle
  <1>1. PICK q \in Reorderings(db.queue, Playing) :
           db' = [db EXCEPT !.queue = q] /\ eng' = ApplyQueue(eng, q)
    BY CalmMeans DEF Reorder
  <1>2. db.queue # <<>> /\ db.queue[1].claim # 0 => Playing = db.queue[1].id
    BY CalmMeans DEF Playing
  <1>3. /\ q \in Seq(Backed(claims)) /\ SameClaim(db.queue, q)
        /\ db.queue # <<>> /\ db.queue[1].claim # 0 => q # <<>> /\ q[1] = db.queue[1]
    BY <1>2, CalmMeans, ReorderingBacked, ReorderedTidy, ReorderedSame
  <1>4. OwnsHead(eng, q)
    BY <1>3 DEF Calm, Orderly, OwnsHead
  <1>5. UNCHANGED <<palazzo, tel>>
    BY DEF Reorder
  <1> QED BY <1>1, <1>3, <1>4, <1>5, QueueQuiet

\* What leaves the engine, the queue and Palazzo alone.
LEMMA MixerQuiet ==
    ASSUME Quiet, UNCHANGED <<eng, palazzo, tel>>, db'.queue = db.queue
    PROVE  Quiet' /\ Gentle
  <1>1. HonestTurn(eng, eng', db'.queue, palazzo.seen)
    BY DEF Quiet, HonestTurn, Follows
  <1> QED BY <1>1, QuietKept

LEMMA EditWritesQuiet ==
    ASSUME IInv, Calm, Quiet, NEW e \in edit, EditWrites(e)
    PROVE  Quiet' /\ Gentle
  <1>1. e.saves = None
    BY DEF Calm, Undisturbed
  <1>2. db' = [db EXCEPT !.seq = e.row.seq] /\ UNCHANGED <<eng, palazzo, tel>>
    BY <1>1 DEF EditWrites
  <1>3. db'.queue = db.queue
    BY <1>2 DEF IInv, BackedRow
  <1> QED BY <1>2, <1>3, MixerQuiet

--------------------------------------------------------------------------------
\* Palazzo and its stream, in step

LEMMA SongEndsQuiet ==
    ASSUME IInv, Calm, Quiet, SongEnds
    PROVE  Quiet' /\ Gentle
  <1>1. palazzo.onAir # Idle /\ Switch(Idle) /\ eng' = eng /\ db' = db
    BY DEF SongEnds
  <1>2. eng.active # NoSong /\ eng.active.req = palazzo.onAir.req
    BY <1>1 DEF Quiet, InStep
  <1>3. PICK ended : ended = [kind |-> "ended", track |-> palazzo.onAir, seq |-> palazzo.seq + 1]
    OBVIOUS
  <1>4. PICK frames : frames = <<ended>>
    OBVIOUS
  <1>5. Len(frames) = 1 /\ frames[1] = ended /\ frames \in Seq(Frame)
    <2>1. ended \in Frame
      BY <1>3, QuietMeans DEF Appliance, Frame
    <2> QED BY <1>4, <2>1
  <1>6. /\ palazzo' = [onAir |-> Idle, seen |-> palazzo.seen \cup ({Idle.req} \ {0}),
                       seq |-> palazzo.seq + Len(frames)]
        /\ tel' = [tel EXCEPT !.wire = IF tel.sse THEN @ \o frames ELSE @]
    BY <1>1, <1>3, <1>4 DEF Switch
  <1>7. palazzo'.onAir = Idle /\ palazzo'.seen = palazzo.seen
    BY <1>6 DEF Idle
  <1>8. tel.sse => EndComes'
    <2>1. SUFFICES ASSUME tel.sse PROVE EndComes'
      OBVIOUS
    <2>2. PICK wire : wire = tel.wire \o frames
      OBVIOUS
    <2>3. tel'.wire = wire /\ tel'.last = tel.last
      BY <1>6, <2>1, <2>2, QuietMeans DEF Link
    <2>4. PICK n \in Nat : n = Len(tel.wire)
      BY QuietMeans
    <2>5. /\ Len(wire) = n + 1
          /\ \A i \in 1..(n + 1) : wire[i] = IF i <= n THEN tel.wire[i] ELSE frames[i - n]
      <3>1. tel.wire \in Seq(Frame)
        BY QuietMeans
      <3>2. /\ Len(wire) = Len(tel.wire) + Len(frames)
            /\ \A i \in 1..(Len(tel.wire) + Len(frames)) :
                  wire[i] = IF i <= Len(tel.wire) THEN tel.wire[i] ELSE frames[i - Len(tel.wire)]
        BY <1>5, <2>2, <3>1, ConcatProperties
      <3> QED BY <1>5, <2>4, <3>2
    <2>6. n + 1 \in 1..Len(wire) /\ wire[n + 1] = ended
      BY <1>5, <2>4, <2>5
    <2>7. ended.kind = "ended" /\ ended.track.req = eng'.active.req /\ ended.seq > tel.last
      <3>1. palazzo.seq \in Nat /\ tel.last \in Nat /\ tel.last <= palazzo.seq
        BY QuietMeans DEF Calm, Wired
      <3> QED BY <1>1, <1>2, <1>3, <3>1
    <2> QED BY <2>3, <2>6, <2>7 DEF EndComes, Tells
  <1>9. ~tel.sse => EndComes'
    BY <1>6, QuietMeans DEF EndComes, Link
  <1>10. InStep'
    BY <1>7, <1>8, <1>9 DEF InStep
  <1> QED BY <1>1, <1>7, <1>10 DEF Quiet, Gentle

\* A command arrives in silence.
LEMMA CommandArrivesQuiet ==
    ASSUME IInv, Calm, Quiet, NEW c, CommandArrives(c)
    PROVE  Quiet' /\ Gentle
  <1>1. c \in eng.sends /\ c.stage = "posted" /\ c \in Send /\ eng \in Engine(claims)
    BY DEF IInv, CommandArrives, Engine
  <1>2. /\ ~c.manual /\ eng.active # NoSong /\ c.req = eng.active.req /\ c.req \notin palazzo.seen
        /\ \A d \in eng.sends : d = c \/ d.stage = "accepted"
    BY <1>1 DEF Quiet, Honest, OnTheWay
  <1>3. eng.reconciled /\ palazzo.onAir = Idle
    <2>1. palazzo.onAir.req = 0 \/ palazzo.onAir.req \in palazzo.seen
      BY DEF Calm, Heard
    <2>2. palazzo.onAir # Idle => palazzo.onAir.req \in palazzo.seen
      BY <2>1, QuietMeans
    <2>3. eng.sends # {}
      BY <1>1
    <2> QED BY <1>2, <2>2, <2>3, QuietMeans DEF Quiet, InStep
  <1>4. PICK track : track = [req |-> c.req, item |-> c.item]
    OBVIOUS
  <1>5. track.req = c.req /\ Switch(track)
    BY <1>2, <1>4 DEF CommandArrives
  <1>6. palazzo'.onAir = track /\ palazzo'.seen = palazzo.seen \cup ({track.req} \ {0})
    BY <1>5 DEF Switch
  <1>7. eng.active.req \in 1..eng.issued /\ eng.issued \in Nat
    BY <1>1, <1>2 DEF Quiet, Honest, Airing, Engine
  <1>8. PICK S : S = palazzo.seen \cup {c.req}
    OBVIOUS
  <1>9. palazzo'.onAir = track /\ palazzo'.seen = S
    <2>1. c.req # 0
      BY <1>2, <1>7
    <2> QED BY <1>5, <1>6, <1>8, <2>1
  <1>10. PICK d : d = [c EXCEPT !.stage = "accepted"]
    OBVIOUS
  <1>11. d.req = c.req /\ d.manual = c.manual /\ d.stage = "accepted"
    BY <1>1, <1>10 DEF Send
  <1>12. eng' = [eng EXCEPT !.sends = (eng.sends \ {c}) \cup {d}]
    BY <1>10 DEF CommandArrives
  <1>13. /\ eng'.sends = (eng.sends \ {c}) \cup {d} /\ eng'.active = eng.active
         /\ eng'.ended = eng.ended /\ eng'.reconciled = eng.reconciled
         /\ eng'.issued = eng.issued /\ eng'.tasks = eng.tasks
    BY <1>1, <1>12 DEF Engine
  <1>14. Honest(eng', S)
    <2>1. S \subseteq 1..eng'.issued
      BY <1>2, <1>7, <1>8, <1>13 DEF Quiet, Honest
    <2>2. OnTheWay(eng', S)
      BY <1>2, <1>11, <1>13 DEF Quiet, Honest, OnTheWay
    <2>3. Airing(eng', S)
      BY <1>2, <1>7, <1>8, <1>13 DEF Airing
    <2>4. Past(eng', S)
      BY <1>8, <1>13 DEF Quiet, Honest, Past
    <2>5. Claiming(eng', S)
      <3>1. Len(eng.tasks) = 0
        <4>1. AtRest(eng)
          BY <1>2 DEF Calm, Orderly
        <4> QED BY <4>1, EmptySeq DEF AtRest
      <3> QED BY <1>13, <3>1 DEF Claiming
    <2> QED BY <1>3, <1>13, <2>1, <2>2, <2>3, <2>4, <2>5 DEF Honest
  <1>15. Due(eng', db.queue, S)
    <2>1. SUFFICES ASSUME db.queue # <<>>, db.queue[1].claim # 0
                   PROVE  db.queue[1].claim <= eng'.issued /\ eng'.active.entry # None
      BY DEF Due
    <2> QED BY <1>2, <1>13, <2>1 DEF Quiet, Due
  <1>16. InStep'
    BY <1>2, <1>5, <1>9, <1>13 DEF InStep, Over
  <1>17. Gentle
    BY <1>3, <1>8, <1>9 DEF Gentle
  <1>18. db' = db
    BY DEF CommandArrives
  <1> QED BY <1>9, <1>14, <1>15, <1>16, <1>17, <1>18 DEF Quiet

LEMMA StreamOpensQuiet ==
    ASSUME IInv, Calm, Quiet, StreamOpens
    PROVE  Quiet' /\ Gentle
  <1>1. tel' = [tel EXCEPT !.sse = TRUE, !.wire = <<PalazzoNow>>] /\ UNCHANGED <<eng, db, palazzo>>
    BY DEF StreamOpens
  <1>2. PICK wire : wire = <<PalazzoNow>>
    OBVIOUS
  <1>3. tel'.wire = wire /\ Len(wire) = 1 /\ wire[1].kind = "snapshot"
    BY <1>1, <1>2, QuietMeans DEF Link, PalazzoNow
  <1>4. SnapshotAhead'
    BY <1>3, EmptySeq DEF SnapshotAhead
  <1>5. InStep'
    BY <1>1, <1>4 DEF Quiet, InStep, EndComes
  <1> QED BY <1>1, <1>5 DEF Quiet, Gentle

\* A connection lost leaves the end of the song on air to the next one.
LEMMA StreamBreaksQuiet ==
    ASSUME IInv, Calm, Quiet, StreamFails \/ StreamCloses
    PROVE  Quiet' /\ Gentle
  <1>1. Alike(eng, eng')
    BY StreamBreaksCalm DEF Unturned
  <1>2. ~tel'.sse /\ palazzo' = palazzo /\ db' = db
    BY StreamBreaks
  <1>3. Honest(eng', palazzo.seen) /\ Due(eng', db.queue, palazzo.seen)
    BY <1>1, QuietMeans, AlikeHonest
  <1>4. InStep'
    BY <1>1, <1>2 DEF Quiet, InStep, EndComes, Alike
  <1> QED BY <1>2, <1>3, <1>4 DEF Quiet, Gentle

\* The snapshot of a reconnection that comes in time finds the engine's song, or its end.
LEMMA InTimeFinds ==
    ASSUME IInv, Calm, Quiet, InTime, Rereads
    PROVE  /\ Reread = palazzo.onAir
           /\ Reread.req # 0 => eng.active.req = Reread.req
           /\ eng.active # NoSong => eng.active.req \in palazzo.seen
           /\ Reread.req = 0 /\ eng.active # NoSong => Over(eng.active.req)
  <1>1. Reread = palazzo.onAir
    BY DEF InTime, Reread
  <1>2. eng.active # NoSong => eng.active.req \in palazzo.seen
    BY DEF InTime, Quiet, Honest, Airing
  <1>3. Reread.req # 0 => eng.active.req = Reread.req
    BY <1>1 DEF Quiet, InStep, Idle
  <1>4. Reread.req = 0 /\ eng.active # NoSong => Over(eng.active.req)
    BY <1>1, <1>2, QuietMeans DEF Over
  <1> QED BY <1>1, <1>2, <1>3, <1>4

LEMMA InTimeSuffices ==
    ASSUME IInv, Calm, Quiet, InTime
    PROVE  FindsItsSong
  BY InTimeFinds DEF FindsItsSong

\* What the stream delivers keeps the engine in step: the first snapshot finds Palazzo idle, that of a
\* reconnection finds the engine's song or its end, and the frames that follow skip nothing.
LEMMA ReadFrameQuiet ==
    ASSUME IInv, Calm, Quiet, ReadFrame, InTime
    PROVE  /\ Quiet' /\ Gentle
           /\ TakesIdleSnapshot /\ eng.active # NoSong => eng'.active.req # eng.active.req
  <1>1. tel.wire # <<>> /\ palazzo' = palazzo /\ db' = db
    BY DEF ReadFrame
  <1>2. PICK frame : frame = Head(tel.wire)
    OBVIOUS
  <1>3. PICK wire : wire = Tail(tel.wire)
    OBVIOUS
  <1>4. PICK n \in Nat : /\ Len(tel.wire) = n + 1 /\ Len(wire) = n
                         /\ frame = tel.wire[1]
                         /\ \A i \in 1..n : wire[i] = tel.wire[i + 1]
    <2>1. /\ Len(tel.wire) \in Nat \ {0} /\ Len(wire) = Len(tel.wire) - 1
          /\ Head(tel.wire) = tel.wire[1]
      BY <1>1, <1>3, WireShortens DEF Calm
    <2>2. \A i \in 1..Len(wire) : wire[i] = tel.wire[i + 1]
      BY <1>1, <1>3, QuietMeans, HeadTailProperties
    <2>3. PICK n \in Nat : n = Len(wire)
      BY <2>1
    <2>4. Len(tel.wire) = n + 1
      BY <2>1, <2>3
    <2> QED BY <1>2, <2>1, <2>2, <2>3, <2>4
  <1>5. PICK S : S = palazzo.seen
    OBVIOUS
  <1>6. Gentle /\ palazzo'.seen = S
    BY <1>1, <1>5 DEF Gentle
  <1>7. CASE SnapshotFrame(frame) /\ frame.kind = "snapshot"
    <2>1. PICK state : /\ state = IF frame.track = Idle THEN frame ELSE PalazzoNow
                       /\ eng' = Snapshot(StatusChanged(eng, "connected", TRUE), state.track)
      BY <1>7 DEF SnapshotFrame
    <2>2. CASE ~eng.reconciled
      <3>1. eng.active = NoSong
        BY <2>2, QuietMeans
      <3>2. palazzo.onAir = Idle /\ Idle.req = 0
        BY <3>1 DEF Quiet, InStep, Idle
      <3>3. state.track.req = 0
        BY <2>1, <3>2 DEF PalazzoNow
      <3>4. /\ Honest(eng', S) /\ Due(eng', db.queue, S)
            /\ eng'.active = NoSong \/ eng'.active.req \notin S
        BY <1>5, <2>1, <2>2, <3>3, QuietMeans, SnapshotHonest
      <3>5. InStep'
        BY <1>1, <1>6, <3>2, <3>4 DEF InStep, Over
      <3> QED BY <1>1, <1>6, <3>1, <3>4, <3>5 DEF Quiet
    <2>3. CASE eng.reconciled
      <3>1. Rereads
        BY <1>2, <1>7, <2>3 DEF Rereads
      <3>2. state.track = Reread
        BY <1>2, <2>1 DEF Reread, PalazzoNow
      <3>3. PICK track : track = palazzo.onAir
        OBVIOUS
      <3>4. /\ state.track = track
            /\ track.req # 0 => eng.active.req = track.req
            /\ eng.active # NoSong => eng.active.req \in S
        BY <1>5, <3>1, <3>2, <3>3, InTimeFinds
      <3>5. eng' = Snapshot(StatusChanged(eng, "connected", TRUE), track)
        BY <2>1, <3>4
      <3>6. /\ Honest(eng', S) /\ Due(eng', db.queue, S)
            /\ track.req # 0 => eng'.active = eng.active
            /\ track.req = 0 => eng'.active = NoSong \/ eng'.active.req \notin S
        <4>1. /\ eng \in Engine(claims) /\ Orderly(eng, db.queue)
              /\ Honest(eng, S) /\ Due(eng, db.queue, S)
          BY <1>5, QuietMeans
        <4>2. Recognises(eng, track, S)
          BY <3>4 DEF Recognises
        <4>3. Honest(eng', S) /\ Due(eng', db.queue, S) /\ Concludes(eng, eng', track, S)
          BY <2>3, <3>5, <4>1, <4>2, RereadHonest
        <4> QED BY <4>3 DEF Concludes
      <3>7. palazzo.onAir = Idle => track.req = 0
        BY <3>3 DEF Idle
      <3>8. palazzo.onAir # Idle => track.req # 0 /\ eng.active # NoSong /\ eng.active.req = track.req
        BY <3>3, QuietMeans DEF Quiet, InStep
      <3>9. InStep'
        BY <1>1, <1>6, <3>3, <3>6, <3>7, <3>8 DEF InStep, Over
      <3>10. TakesIdleSnapshot => track.req = 0
        <4>1. tel.poll = {}
          BY DEF Calm, Undisturbed
        <4>2. TakesIdleSnapshot => frame.track = Idle
          BY <1>2, <4>1 DEF TakesIdleSnapshot, PollReplies
        <4> QED BY <2>1, <3>4, <4>2 DEF Idle
      <3>11. TakesIdleSnapshot /\ eng.active # NoSong => eng'.active.req # eng.active.req
        <4>1. NoSong.req = 0
          BY DEF NoSong
        <4> QED BY <3>4, <3>6, <3>10, <4>1, QuietMeans
      <3> QED BY <1>1, <1>6, <3>6, <3>9, <3>11 DEF Quiet
    <2> QED BY <2>2, <2>3
  <1>8. CASE frame.kind # "snapshot"
    <2>1. ~TakesIdleSnapshot
      <3>1. tel.poll = {}
        BY DEF Calm, Undisturbed
      <3> QED BY <1>2, <1>8, <3>1 DEF TakesIdleSnapshot, PollReplies
    <2>2. PICK k \in Nat : k = palazzo.seq
      BY QuietMeans
    <2>3. PICK last \in Nat : last = tel.last
      BY QuietMeans
    <2>4. /\ \A i \in 1..(n + 1) : tel.wire[i].seq = k - (n + 1) + i
          /\ k - (n + 1) <= last
      <3>1. ~SnapshotAhead /\ tel.sse
        BY <1>1, <1>4, <1>8 DEF SnapshotAhead, Calm, Wired
      <3> QED BY <1>4, <2>2, <2>3, <3>1 DEF Calm, Wired
    <2>5. frame.seq = k - (n + 1) + 1 /\ frame.seq <= last + 1
      BY <1>4, <2>4
    <2>6. StaleFrame(frame) \/ LifecycleFrame(frame)
      <3>1. ~GapFrame(frame)
        BY <2>3, <2>5 DEF GapFrame
      <3> QED BY <1>2, <1>8, <3>1 DEF ReadFrame
    <2>7. frame.kind = "ended" => frame.track.req = 0 \/ Over(frame.track.req)
      <3>1. 1 \in 1..Len(tel.wire)
        BY <1>4
      <3> QED BY <1>4, <3>1 DEF Calm, Wired
    <2>8. ASSUME Honest(eng', S), Due(eng', db.queue, S), eng'.active = eng.active,
                 tel'.wire = wire, tel'.last \in Nat, tel'.last <= last \/ tel'.last <= frame.seq,
                 frame.kind = "ended" => frame.track.req # eng.active.req \/ frame.seq <= last
          PROVE  Quiet'
      <3>1. Over(eng.active.req)' => Over(eng.active.req)
        BY <1>1, <2>8 DEF Over
      <3>2. ASSUME EndComes PROVE EndComes'
        <4>1. PICK i \in 1..(n + 1) : Tells(i, "ended") /\ tel.wire[i].seq > last
          <5>1. ~SnapshotAhead /\ tel.sse
            BY <1>1, <1>4, <1>8 DEF SnapshotAhead, Calm, Wired
          <5> QED BY <1>4, <2>3, <3>2, <5>1 DEF EndComes
        <4>2. i # 1
          <5>1. SUFFICES ASSUME i = 1 PROVE FALSE
            OBVIOUS
          <5>2. frame.kind = "ended" /\ frame.track.req = eng.active.req /\ frame.seq > last
            BY <1>4, <4>1, <5>1 DEF Tells
          <5> QED BY <2>3, <2>5, <2>8, <5>2
        <4>3. PICK j \in 1..n : i = j + 1
          BY <4>2
        <4>4. wire[j] = tel.wire[i]
          BY <1>4, <4>3
        <4>5. tel.wire[i].seq > tel'.last
          BY <2>2, <2>4, <2>5, <2>8, <4>1, <4>3
        <4>6. wire[j].kind = "ended" /\ wire[j].track.req = eng'.active.req /\ wire[j].seq > tel'.last
          BY <2>8, <4>1, <4>4, <4>5 DEF Tells
        <4> QED BY <1>4, <2>8, <4>6 DEF EndComes, Tells
      <3>3. InStep'
        BY <1>1, <2>8, <3>1, <3>2 DEF Quiet, InStep
      <3> QED BY <1>1, <1>6, <2>8, <3>3 DEF Quiet
    <2>9. CASE StaleFrame(frame)
      <3>1. /\ eng' = eng /\ tel'.wire = wire /\ tel'.last = tel.last /\ frame.seq <= last
        BY <1>3, <2>3, <2>9, QuietMeans DEF StaleFrame, Link
      <3> QED BY <1>5, <1>6, <2>1, <2>3, <2>8, <3>1, QuietMeans
    <2>10. CASE LifecycleFrame(frame)
      <3>1. PICK req : req = frame.track.req
        OBVIOUS
      <3>2. /\ tel'.wire = wire /\ tel'.last = frame.seq
            /\ eng' = IF frame.kind = "started" THEN TrackStarted(eng, req) ELSE TrackEnded(eng, req)
        BY <1>3, <2>10, <3>1, QuietMeans DEF LifecycleFrame, Link
      <3>3. frame \in Frame
        BY <1>1, <1>2, QuietMeans, HeadTailProperties
      <3>4. frame.kind \in {"started", "ended"} /\ req \in Nat /\ frame.seq \in Nat
        BY <1>8, <3>1, <3>3 DEF Frame, Track
      <3>5. CASE frame.kind = "started"
        <4>1. Alike(eng, eng')
          BY <3>2, <3>5, QuietMeans, TrackStartedAlike
        <4>2. Honest(eng', S) /\ Due(eng', db.queue, S) /\ eng'.active = eng.active
          BY <1>5, <4>1, QuietMeans, AlikeHonest DEF Alike
        <4>3. frame.kind # "ended" /\ tel'.last \in Nat /\ tel'.last <= frame.seq
          BY <3>2, <3>4, <3>5
        <4> QED BY <1>6, <2>1, <2>8, <3>2, <4>2, <4>3
      <3>6. CASE frame.kind = "ended" /\ (req # eng.active.req \/ eng.active = NoSong)
        <4>1. eng' = TrackEnded(eng, req)
          BY <3>2, <3>6
        <4>2. req = 0 \/ (req \in S /\ req # eng.active.req)
          BY <1>5, <2>7, <3>1, <3>6 DEF Over, NoSong
        <4>3. Honest(eng', S) /\ Due(eng', db.queue, S) /\ eng'.active = eng.active
          BY <1>5, <3>4, <4>1, <4>2, QuietMeans, OtherEndHonest
        <4>4. tel'.last \in Nat /\ tel'.last <= frame.seq
          BY <3>2, <3>4
        <4>5. CASE req # eng.active.req
          BY <1>6, <2>1, <2>8, <3>1, <3>2, <4>3, <4>4, <4>5
        <4>6. CASE eng.active = NoSong
          <5>1. InStep'
            BY <1>1, <4>3, <4>6 DEF Quiet, InStep
          <5> QED BY <1>1, <1>6, <2>1, <4>3, <5>1 DEF Quiet
        <4> QED BY <3>6, <4>5, <4>6
      <3>7. CASE frame.kind = "ended" /\ req = eng.active.req /\ eng.active # NoSong
        <4>1. Over(req) /\ req \in S
          BY <1>5, <2>7, <3>1, <3>7, QuietMeans DEF Over
        <4>2. eng' = TrackEnded(eng, eng.active.req)
          BY <3>2, <3>7
        <4>3. Honest(eng', S) /\ Due(eng', db.queue, S) /\ eng'.active = NoSong
          BY <1>5, <3>7, <4>1, <4>2, QuietMeans, TrackEndedHonest
        <4>4. palazzo.onAir = Idle
          BY <3>7, <4>1 DEF Quiet, InStep, Over
        <4>5. InStep'
          BY <1>1, <4>3, <4>4 DEF InStep
        <4> QED BY <1>1, <1>6, <2>1, <4>3, <4>5 DEF Quiet
      <3> QED BY <3>4, <3>5, <3>6, <3>7
    <2> QED BY <2>6, <2>9, <2>10
  <1> QED BY <1>2, <1>7, <1>8 DEF ReadFrame

--------------------------------------------------------------------------------
\* Every step of the station

LEMMA InitQuiet == Init => Quiet
  <1> SUFFICES ASSUME Init PROVE Quiet
    OBVIOUS
  <1>1. Len(<<>>) = 0
    BY EmptySeq
  <1>2. /\ eng.active = NoSong /\ eng.sends = {} /\ eng.ended = <<>> /\ eng.tasks = <<>>
        /\ ~eng.reconciled /\ db.queue = <<>> /\ tel.wire = <<>>
        /\ palazzo.onAir = Idle /\ palazzo.seen = {}
    BY DEF Init, Booted, Offline
  <1>3. Honest(eng, palazzo.seen)
    BY <1>1, <1>2 DEF Honest, OnTheWay, Airing, Past, Claiming
  <1>4. Due(eng, db.queue, palazzo.seen)
    BY <1>2 DEF Due
  <1>5. InStep
    BY <1>2 DEF InStep
  <1> QED BY <1>3, <1>4, <1>5 DEF Quiet

LEMMA NextQuiet ==
    ASSUME IInv, Calm, Quiet, Next, OnlyTheQueue, Uninterrupted, InTime
    PROVE  Quiet' /\ Gentle
  <1>1. CASE \E c \in eng.sends : PostCommand(c) \/ CommandArrives(c) \/ CommandSucceeds(c)
    BY <1>1, PostCommandQuiet, CommandArrivesQuiet, CommandSucceedsQuiet
  <1>2. CASE RunTask
    BY <1>2, RunClaimQuiet, RunReleaseQuiet, RunConsumeQuiet, RunSaveQuiet DEF RunTask
  <1>3. CASE \E cont \in eng.bumpers : BumperEnds(cont)
    BY <1>3, BumperEndsQuiet
  <1>4. CASE StreamOpens \/ StreamFails \/ StreamCloses \/ ReadFrame \/ SongEnds
    BY <1>4, StreamOpensQuiet, StreamBreaksQuiet, ReadFrameQuiet, SongEndsQuiet
  <1>5. CASE PollReplies \/ PollFails \/ PollReads
    BY <1>5 DEF OnlyTheQueue, Calm, Undisturbed, PollReplies, PollFails
  <1>6. CASE \/ \E item \in Items : Enqueue(item)
             \/ \E e \in Entries : RemoveEntry(e)
             \/ Reorder
    BY <1>6, EnqueueQuiet, RemoveEntryQuiet, ReorderQuiet
  <1>7. CASE \/ \E item \in Items \cup {None} : PlayManually(item)
             \/ \E full \in BOOLEAN : StopReads(full)
    BY <1>7 DEF OnlyTheQueue
  <1>8. CASE StopWrites \/ StopArrives \/ StopSucceeds \/ StopFails
    BY <1>8 DEF Calm, Undisturbed, StopWrites, StopArrives, StopSucceeds, StopFails
  <1>9. CASE \E saves \in Edits \cup {None} : EditReads(saves)
    BY <1>9, MixerQuiet DEF EditReads
  <1>10. CASE \E e \in edit : EditWrites(e)
    BY <1>10, EditWritesQuiet
  <1>11. CASE (\E c \in eng.sends : CommandFails(c)) \/ Restart
    BY <1>11 DEF Uninterrupted
  <1>12. CASE TaskFails
    BY <1>12, TaskFailsQuiet DEF Uninterrupted
  <1> QED BY <1>1, <1>2, <1>3, <1>4, <1>5, <1>6, <1>7, <1>8, <1>9, <1>10, <1>11, <1>12
          DEF Next, Internal, Telemetry, Operator, Failure

LEMMA StutterQuiet ==
    ASSUME Quiet, UNCHANGED vars
    PROVE  Quiet' /\ Gentle
  BY MixerQuiet DEF vars

LEMMA QuietAlways == Spec /\ [][OnlyTheQueue /\ Uninterrupted /\ InTime]_vars => [](IInv /\ Calm /\ Quiet)
  <1>1. Init => IInv /\ Calm /\ Quiet
    BY InitIInv, InitCalm, InitQuiet
  <1>2. /\ IInv /\ Calm /\ Quiet /\ [Next]_vars /\ [OnlyTheQueue /\ Uninterrupted /\ InTime]_vars
        => (IInv /\ Calm /\ Quiet)'
    BY NextIInv, NextCalm, StutterCalm, NextQuiet, StutterQuiet, InTimeSuffices
  <1> QED BY <1>1, <1>2, PTL DEF Spec

\* What NeverCommandsAgain, NeverCutsOff and the properties of idle snapshots say of one step.
NothingAgain == \A c \in NewCommands : ~Over(c.req)
NothingCut ==
    palazzo.onAir # Idle /\ palazzo'.onAir # Idle /\ palazzo'.onAir # palazzo.onAir
        => \E c \in eng.sends : c.req = palazzo'.onAir.req /\ c.manual
IdleEnds == TakesIdleSnapshot /\ eng.active # NoSong => eng'.active.req # eng.active.req
MissesOnlyNoted ==
    /\ TakesIdleSnapshot /\ eng.active # NoSong /\ ~Deaf => eng'.active.req # eng.active.req
    /\ Deaf' => \/ Deaf \/ eng.frozen \/ PollReplies
                \/ palazzo.onAir.req = eng'.active.req
                \/ \E c \in eng'.sends : c.req = eng'.active.req /\ c.stage = "lookup"

\* While operators use nothing but the queue, every command is answered, the backend stays up, the end
\* of a queued song gets written and a stream that comes back is read in time, no request that is over
\* on Palazzo is commanded again: playNext starts each song once, with a request of its own, whatever
\* claims, releases and cursors fail to be written, however often the stream breaks and however mixer
\* saves overlap it.
THEOREM NeverRepeated == Spec /\ [][OnlyTheQueue /\ Uninterrupted /\ InTime]_vars => NeverCommandsAgain
  <1>1. ASSUME Quiet', Gentle
        PROVE  NothingAgain
    <2> SUFFICES ASSUME NEW c \in NewCommands PROVE c.req \notin palazzo.seen
      BY DEF NothingAgain, Over
    <2>1. c \in eng'.sends /\ c.stage = "lookup"
      BY DEF NewCommands
    <2>2. OnTheWay(eng', palazzo'.seen)
      BY <1>1 DEF Quiet, Honest
    <2> QED BY <1>1, <2>1, <2>2 DEF OnTheWay, Gentle
  <1>2. IInv /\ Calm /\ Quiet /\ [Next]_vars /\ [OnlyTheQueue /\ Uninterrupted /\ InTime]_vars
        => [NothingAgain]_vars
    BY <1>1, NextQuiet
  <1>3. [][NothingAgain]_vars => NeverCommandsAgain
    BY DEF NothingAgain, NeverCommandsAgain
  <1> QED BY <1>2, <1>3, QuietAlways, PTL DEF Spec

\* On the same terms every track plays to its end: the automation commands a song only in silence.
THEOREM PlayedToTheEnd == Spec /\ [][OnlyTheQueue /\ Uninterrupted /\ InTime]_vars => NeverCutsOff
  <1>1. Gentle => NothingCut
    BY DEF Gentle, NothingCut
  <1>2. IInv /\ Calm /\ Quiet /\ [Next]_vars /\ [OnlyTheQueue /\ Uninterrupted /\ InTime]_vars
        => [NothingCut]_vars
    BY <1>1, NextQuiet
  <1>3. [][NothingCut]_vars => NeverCutsOff
    BY DEF NothingCut, NeverCutsOff
  <1> QED BY <1>2, <1>3, QuietAlways, PTL DEF Spec

\* And a settled engine shows the very request Palazzo plays, or that nothing plays: what is on air
\* and what the engine believes differ only by what is still on its way between them.
THEOREM SettledInStep == Spec /\ [][OnlyTheQueue /\ Uninterrupted /\ InTime]_vars => []SettledAgreement
  <1>1. ASSUME IInv, Calm, Quiet, Settled
        PROVE  eng.active.req = palazzo.onAir.req
    <2>1. eng.sends = {} /\ tel.sse /\ tel.wire = <<>> /\ Len(tel.wire) = 0
      BY <1>1, EmptySeq DEF Settled
    <2>2. ~EndComes
      BY <2>1 DEF EndComes, SnapshotAhead
    <2>3. CASE eng.active # NoSong
      <3>1. eng.active.req \in palazzo.seen
        BY <1>1, <2>1, <2>3 DEF Quiet, Honest, Airing
      <3>2. ~Over(eng.active.req)
        BY <1>1, <2>2, <2>3 DEF Quiet, InStep
      <3> QED BY <3>1, <3>2 DEF Over
    <2>4. CASE eng.active = NoSong
      <3>1. palazzo.onAir = Idle
        BY <1>1, <2>4 DEF Quiet, InStep
      <3> QED BY <2>4, <3>1 DEF Idle, NoSong
    <2> QED BY <2>3, <2>4
  <1>2. IInv /\ Calm /\ Quiet => SettledAgreement
    BY <1>1 DEF SettledAgreement
  <1> QED BY <1>2, QuietAlways, PTL

\* On the same terms an idle snapshot, be it that of a reconnection, ends the song the engine still
\* believes on air: the engine has never noted the end of that song before, so it takes none for a duplicate.
THEOREM IdleEndsItsSong ==
    Spec /\ [][OnlyTheQueue /\ Uninterrupted /\ InTime]_vars
        => []~Deaf /\ IdleEndsActiveSong /\ IdleMissesOnlyNotedEnds
  <1>1. ASSUME IInv, Calm, Quiet, InTime
        PROVE  IdleEnds
    <2>1. tel.poll = {}
      BY <1>1 DEF Calm, Undisturbed
    <2>2. TakesIdleSnapshot => ReadFrame
      BY <2>1 DEF TakesIdleSnapshot, PollReplies
    <2> QED BY <1>1, <2>2, ReadFrameQuiet DEF IdleEnds
  <1>2. IInv /\ Calm /\ Quiet /\ [OnlyTheQueue /\ Uninterrupted /\ InTime]_vars => [IdleEnds]_vars
    BY <1>1
  <1>3. [][IdleEnds]_vars => IdleEndsActiveSong
    BY DEF IdleEnds, IdleEndsActiveSong
  <1>4. Quiet => ~Deaf
    BY DEF Quiet, Honest, Past, Deaf, Remembers
  <1>5. (~Deaf)' /\ [IdleEnds]_vars => [MissesOnlyNoted]_vars
    BY DEF IdleEnds, MissesOnlyNoted
  <1>6. [][MissesOnlyNoted]_vars => IdleMissesOnlyNotedEnds
    BY DEF MissesOnlyNoted, IdleMissesOnlyNotedEnds
  <1> QED BY <1>2, <1>3, <1>4, <1>5, <1>6, QuietAlways, PTL
================================================================================
