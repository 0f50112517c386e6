--------------------------- MODULE SongEngineHandlers ---------------------------
(***************************************************************************)
(* The synchronous code of SongExecutionEngine for one radio program       *)
(* (backend/src/radio/song-execution.engine.ts), as operators from an      *)
(* engine state to the engine state the handler leaves.  Handlers call     *)
(* handlers (a queue write may start the rotation, which may claim the     *)
(* head, ...), so they compose here and SongExecutionEngine turns each     *)
(* entry point into one action.                                            *)
(*                                                                         *)
(* What a handler starts and does not wait for is part of the state:       *)
(*   sends    pushCommand calls, [req, item, manual, stage]                *)
(*   tasks    actions waiting for withQueueMutationLock, in FIFO order     *)
(*   bumpers  ends of a track that are inside `await maybeBumper`          *)
(* `status` and `snapped` are the telemetry supervisor's last status of    *)
(* the program, which isReconciled reads; `issued` counts randomUUID.      *)
(***************************************************************************)
EXTENDS SongQueue

CONSTANT MaxEnded           \* MAX_ENDED_REQUEST_IDS

ASSUME EndedAssumption == MaxEnded \in Nat \ {0}

Statuses == {"connecting", "connected", "polling", "unavailable"}

\* An active song; req = 0 stands for activeSong = null.
Song == [req : Nat, item : Items \cup {None}, entry : Entries \cup {None}]
NoSong == [req |-> 0, item |-> None, entry |-> None]

\* An end being continued: the ended request, its queue entry, the sequence
\* computed for it, whether that has a successor, and cursorPersisted.
Continuation == [req : Nat, entry : Entries \cup {None}, next : Sequence,
                 successor : BOOLEAN, saved : BOOLEAN]

Task ==      [op : {"claim"}, entry : Entries, req : Nat]
        \cup [op : {"release"}, entry : Entries, block : BOOLEAN]
        \cup [op : {"consume", "save", "saveThenPlay"}, cont : Continuation]

Send == [req : Nat, item : Items \cup {None}, manual : BOOLEAN,
         stage : {"lookup", "posted", "accepted"}]

EngineState ==
    [seq : Sequence, queue : Queue, active : Song, pending : SUBSET Nat,
     ended : Seq(Nat), frozen : BOOLEAN, reconciled : BOOLEAN, foreign : BOOLEAN,
     transitioning : BOOLEAN, blocked : BOOLEAN, status : Statuses, snapped : BOOLEAN,
     tasks : Seq(Task), bumpers : SUBSET Continuation, sends : SUBSET Send, issued : Nat]

\* onModuleInit: rebuilt from the row, nothing reconciled yet.
Booted(seq, queue, issued) ==
    [seq |-> NormalizeSequence(seq), queue |-> NormalizeQueue(queue), active |-> NoSong,
     pending |-> {}, ended |-> <<>>, frozen |-> FALSE, reconciled |-> FALSE,
     foreign |-> FALSE, transitioning |-> FALSE, blocked |-> FALSE,
     status |-> "connecting", snapped |-> FALSE,
     tasks |-> <<>>, bumpers |-> {}, sends |-> {}, issued |-> issued]

--------------------------------------------------------------------------------
\* Choosing and commanding the next song

HeadWaiting(s) == s.queue # <<>> /\ s.queue[1].claim = 0

\* The song playNext resolves once no head is waiting to be claimed.
NextItem(s) == IF s.queue # <<>> THEN FindLeaf(s.seq, s.queue[1].item)
               ELSE ResolveLeaf(s.seq)

\* Whether playNext returns true.
CanPlayNext(s) == /\ ~s.blocked
                  /\ HeadWaiting(s) \/ NextItem(s) # None

\* Activating a song and starting its pushCommand.
Command(s, song, manual) ==
    [s EXCEPT !.active = song,
              !.pending = @ \cup {song.req},
              !.sends = @ \cup {[req |-> song.req, item |-> song.item,
                                 manual |-> manual, stage |-> "lookup"]}]

\* playNext, not-yet-claimed head: take the lock to claim it first.
BeginClaim(s) ==
    [s EXCEPT !.transitioning = TRUE,
              !.issued = @ + 1,
              !.tasks = Append(@, [op |-> "claim", entry |-> s.queue[1].id,
                                   req |-> s.issued + 1])]

\* playNext, claimed head: command it with the request stored in the claim.
CommandHead(s) ==
    Command(s, [req |-> s.queue[1].claim, item |-> NextItem(s), entry |-> s.queue[1].id], FALSE)

\* playNext, empty queue: command the playlist song with a fresh request.
CommandPlaylist(s) ==
    Command([s EXCEPT !.issued = @ + 1],
            [req |-> s.issued + 1, item |-> NextItem(s), entry |-> None], FALSE)

PlayNext(s) ==
    IF ~CanPlayNext(s) THEN s
    ELSE IF HeadWaiting(s) THEN BeginClaim(s)
    ELSE IF s.queue # <<>> THEN CommandHead(s)
    ELSE CommandPlaylist(s)

\* PalazzoRadioTelemetryService.isReconciled
TelemetryReconciled(s) == s.status \in {"connected", "polling"} /\ s.snapped

\* Mutant of MayStart: an active song does not hold the start back.
MayStartOverSong(s) ==
    /\ s.seq.mode = "auto" /\ s.pending = {} /\ ~s.frozen /\ ~s.transitioning
    /\ ~s.blocked /\ s.reconciled /\ TelemetryReconciled(s) /\ ~s.foreign

\* The guards of maybeStartSequence.
MayStart(s) ==
    /\ s.seq.mode = "auto"
    /\ s.active = NoSong
    /\ s.pending = {}
    /\ ~s.frozen
    /\ ~s.transitioning
    /\ ~s.blocked
    /\ s.reconciled
    /\ TelemetryReconciled(s)
    /\ ~s.foreign

MaybeStart(s) == IF MayStart(s) THEN PlayNext(s) ELSE s

--------------------------------------------------------------------------------
\* Queue and sequence writes reaching the engine's memory

\* applyPersistedQueue, and handleQueueUpdated for a queue already normalized.
ApplyQueue(s, q) ==
    LET t == [s EXCEPT !.queue = q, !.blocked = FALSE]
    IN  IF q = <<>> THEN t ELSE MaybeStart(t)

\* handleSequenceUpdated
ApplySequence(s, seq) ==
    LET t == [s EXCEPT !.seq = NormalizeSequence(seq)]
    IN  IF seq.items = <<>> THEN t ELSE MaybeStart(t)

\* releaseQueueClaimAfterPlaybackStops
ReleaseClaim(s, entry, block) ==
    [s EXCEPT !.transitioning = TRUE,
              !.tasks = Append(@, [op |-> "release", entry |-> entry, block |-> block])]

\* blockQueueAfterPersistenceFailure
BlockQueue(s) == [s EXCEPT !.transitioning = FALSE, !.blocked = TRUE]

\* Mutant of ClaimLost: the rotation is not tried again.
ClaimLostQuietly(s, q) == [ApplyQueue(s, q) EXCEPT !.transitioning = FALSE]

\* claimQueueHead found another head, or one claimed for another request.
ClaimLost(s, q) == MaybeStart([ApplyQueue(s, q) EXCEPT !.transitioning = FALSE])

\* claimQueueHead persisted the claim; its continuation plays the head.
ClaimWon(s, q) ==
    LET t == [ApplyQueue(s, q) EXCEPT !.transitioning = FALSE]
    IN  IF CanPlayNext(t) THEN PlayNext(t) ELSE ReleaseClaim(t, q[1].id, TRUE)

\* Mutant of ClaimReleased: the transition is never ended.
ClaimReleasedInTransition(s, q, block) == [ApplyQueue(s, q) EXCEPT !.blocked = block]

\* The continuation of releaseQueueClaim.
ClaimReleased(s, q, block) ==
    [ApplyQueue(s, q) EXCEPT !.transitioning = FALSE, !.blocked = block]

--------------------------------------------------------------------------------
\* The end of a track

\* endedRequestIds keeps the most recent MaxEnded requests.
Remember(ended, req) ==
    IF Len(ended) < MaxEnded THEN Append(ended, req) ELSE Tail(Append(ended, req))

Remembers(s, req) == \E i \in 1..Len(s.ended) : s.ended[i] = req

\* The sequence after the end of `song`: a queue entry never moved the cursor.
SequenceAfter(s, song) ==
    LET seq == NormalizeSequence(s.seq)
    IN  IF song.entry = None /\ seq.mode = "auto" THEN AdvanceSequence(seq, song.item)
        ELSE seq

\* continueAfterAuthoritativeEnd up to its first wait on the lock or the bumper.
BeginContinuation(s, cont) ==
    IF cont.entry # None
    THEN [s EXCEPT !.tasks = Append(@, [op |-> "consume", cont |-> cont])]
    ELSE LET t == [s EXCEPT !.seq = cont.next]
         IN  IF t.queue # <<>>
             THEN [t EXCEPT !.tasks = Append(@, [op |-> "save", cont |-> cont])]
             ELSE [t EXCEPT !.bumpers = @ \cup {cont}]

\* Mutant of AdvancePast: the ended song stays active.
AdvancePastKeepingActive(s, song) ==
    LET next == SequenceAfter(s, song)
        cont == [req |-> song.req, entry |-> song.entry, next |-> next,
                 successor |-> next.mode = "auto" /\ next.cursor # None, saved |-> FALSE]
    IN  BeginContinuation([s EXCEPT !.pending = {}, !.foreign = FALSE,
                                    !.transitioning = TRUE], cont)

\* The matching branch of handleAuthoritativeTrackEnded.
AdvancePast(s, song) ==
    LET next == SequenceAfter(s, song)
        cont == [req |-> song.req, entry |-> song.entry, next |-> next,
                 successor |-> next.mode = "auto" /\ next.cursor # None, saved |-> FALSE]
    IN  BeginContinuation([s EXCEPT !.active = NoSong, !.pending = {}, !.foreign = FALSE,
                                    !.transitioning = TRUE], cont)

\* handleAuthoritativeTrackEnded
TrackEnded(s, req) ==
    IF req = 0 \/ Remembers(s, req) THEN s
    ELSE LET t == [s EXCEPT !.ended = Remember(@, req)]
         IN  IF s.frozen THEN t
             ELSE IF s.active.req = req THEN AdvancePast(t, s.active)
             ELSE [t EXCEPT !.pending = @ \ {req},
                            !.foreign = @ /\ s.active # NoSong]

\* continueAfterAuthoritativeEnd with queued songs to play.
ResumeQueue(s) ==
    LET t == [s EXCEPT !.transitioning = FALSE]
    IN  IF CanPlayNext(t) THEN PlayNext(t) ELSE [t EXCEPT !.blocked = TRUE]

\* continueAfterAuthoritativeEnd with the queue drained.
ResumeRotation(s, cont) ==
    LET t == [s EXCEPT !.transitioning = FALSE]
    IN  IF cont.successor /\ t.seq.mode = "auto" THEN PlayNext(t) ELSE t

\* Mutant of AfterBumper: a freeze during the bumper is not noticed.
AfterBumperFrozen(s, cont) ==
    IF s.active # NoSong THEN s
    ELSE IF s.queue = <<>> THEN ResumeRotation(s, cont)
    ELSE IF cont.entry = None /\ ~cont.saved
         THEN [s EXCEPT !.tasks = Append(@, [op |-> "saveThenPlay", cont |-> cont])]
         ELSE ResumeQueue(s)

\* continueAfterAuthoritativeEnd after the bumper.
AfterBumper(s, cont) ==
    IF s.active # NoSong \/ s.frozen THEN s
    ELSE IF s.queue = <<>> THEN ResumeRotation(s, cont)
    ELSE IF cont.entry = None /\ ~cont.saved
         THEN [s EXCEPT !.tasks = Append(@, [op |-> "saveThenPlay", cont |-> cont])]
         ELSE ResumeQueue(s)

\* persistPlaylistCursorForQueue in memory, once the row is written.
CursorSaved(s, seq) == ApplyQueue([s EXCEPT !.seq = seq], s.queue)

--------------------------------------------------------------------------------
\* Palazzo telemetry and command replies

\* handlePalazzoStatus
StatusChanged(s, status, snapped) ==
    LET t == [s EXCEPT !.status = status, !.snapped = snapped]
    IN  IF status = "unavailable" THEN [t EXCEPT !.frozen = TRUE]
        ELSE [t EXCEPT !.frozen = FALSE, !.reconciled = @ /\ ~s.frozen]

\* handlePalazzoEvent, track.started
TrackStarted(s, req) ==
    IF s.active.req = req THEN [s EXCEPT !.pending = @ \ {req}] ELSE s

\* Mutant of Adopted: the head is adopted by its item, whatever its claim.
AdoptedByItem(s, track) ==
    [req |-> track.req, item |-> track.item,
     entry |-> IF s.queue # <<>> /\ s.queue[1].item = track.item
               THEN s.queue[1].id ELSE None]

\* reconcilePlayingSnapshot: the head's entry is adopted with its own request.
Adopted(s, track) ==
    [req |-> track.req, item |-> track.item,
     entry |-> IF s.queue # <<>> /\ s.queue[1].claim = track.req
                                 /\ s.queue[1].item = track.item
               THEN s.queue[1].id ELSE None]

ReconcilePlaying(s, track) ==
    IF s.active.req = track.req THEN [s EXCEPT !.foreign = FALSE]
    ELSE IF track.req \in s.pending
    THEN [s EXCEPT !.pending = @ \ {track.req}, !.foreign = FALSE]
    ELSE IF FindLeaf(s.seq, track.item) # None
    THEN [s EXCEPT !.active = Adopted(s, track), !.foreign = FALSE]
    ELSE [s EXCEPT !.foreign = TRUE]

\* Mutant of ReconcileIdle: an active song is not ended.
ReconcileIdleWhilePlaying(s) == MaybeStart([s EXCEPT !.pending = {}, !.foreign = FALSE])

\* reconcileIdleSnapshot
ReconcileIdle(s) ==
    IF s.active # NoSong THEN TrackEnded(s, s.active.req)
    ELSE MaybeStart([s EXCEPT !.pending = {}, !.foreign = FALSE])

\* handlePalazzoSnapshot; track.req = 0 is an idle snapshot.
Snapshot(s, track) ==
    LET t == [s EXCEPT !.reconciled = TRUE, !.frozen = FALSE]
    IN  IF track.req # 0 THEN ReconcilePlaying(t, track) ELSE ReconcileIdle(t)

\* Mutant of CommandFailed: a claim is released for playlist songs too.
CommandFailedReleasing(s, req) ==
    LET t == [s EXCEPT !.pending = @ \ {req}]
        u == [t EXCEPT !.active = NoSong]
    IN  IF s.active.req # req THEN t ELSE ReleaseClaim(u, s.active.entry, FALSE)

\* handleCommandFailure
CommandFailed(s, req) ==
    LET t == [s EXCEPT !.pending = @ \ {req}]
        u == [t EXCEPT !.active = NoSong]
    IN  IF s.active.req # req THEN t
        ELSE IF s.active.entry = None THEN u
        ELSE ReleaseClaim(u, s.active.entry, FALSE)

\* handleManualSong: replaces whatever is active.
ManualSong(s, item) ==
    Command([s EXCEPT !.issued = @ + 1],
            [req |-> s.issued + 1, item |-> item, entry |-> None], TRUE)

\* handleStopSong
StopSong(s) ==
    LET t == [s EXCEPT !.active = NoSong, !.pending = {}, !.foreign = FALSE,
                       !.transitioning = FALSE]
    IN  IF s.active.entry = None THEN t ELSE ReleaseClaim(t, s.active.entry, FALSE)
================================================================================
