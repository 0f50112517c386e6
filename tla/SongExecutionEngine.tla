-------------------------- MODULE SongExecutionEngine --------------------------
(***************************************************************************)
(* Radio automation of one program: SongExecutionEngine, the ProgramState  *)
(* row it shares with ProgramService, the telemetry client that feeds it   *)
(* and the Palazzo appliance it commands.                                  *)
(*                                                                         *)
(*   eng      the engine's memory and the work it has in flight            *)
(*   db       ProgramState.songSequence / songQueue (survives a restart)   *)
(*   palazzo  what the appliance plays, the playback IDs it has seen, and  *)
(*            its event sequence number (external)                         *)
(*   tel      PalazzoProgramClient: the SSE stream (wire), the sequence    *)
(*            cursor, the poll timer and the poll reply in flight          *)
(*   stop     the last Stop request and how far it is                      *)
(*   edit     updateProgramAudioBus requests between their read and write  *)
(*   claims   every <<entry, request>> claim ever persisted (history)      *)
(*   minted   queue entry IDs handed out (history)                         *)
(*   left     how often the environment may still do each thing (bound)    *)
(*                                                                         *)
(* A locked queue mutation is one action: it reads the row and writes it   *)
(* back under withQueueMutationLock.  updateProgramAudioBus and Stop take   *)
(* no lock, so they have a read and a write step.  An operator mutation    *)
(* that runs ahead of waiting tasks is one that took the lock before they  *)
(* asked for it, so `tasks` holds only the engine's own.                   *)
(***************************************************************************)
EXTENDS SongEngineHandlers

CONSTANTS InitialSequence,  \* the playlist stored when the program starts
          Edits,            \* sequences an operator may save
          Budgets           \* the choices of how often each environment step may happen

Kinds == {"song", "enqueue", "remove", "reorder", "manual", "stop", "edit", "drop", "poll",
          "pollFail", "commandFail", "persistFail", "crash"}

ASSUME EngineAssumption == /\ InitialSequence \in Sequence
                           /\ Edits \subseteq Sequence
                           /\ Budgets \subseteq [Kinds -> Nat]

VARIABLES eng, db, palazzo, tel, stop, edit, claims, minted, left
vars == <<eng, db, palazzo, tel, stop, edit, claims, minted, left>>

Track == [req : Nat, item : Items \cup {None}]
Idle  == [req |-> 0, item |-> None]

\* A frame of the SSE stream or a reply of the state endpoint.
Frame == [kind : {"snapshot", "started", "ended"}, track : Track, seq : Nat]

Spend(kind) == left[kind] > 0 /\ left' = [left EXCEPT ![kind] = @ - 1]

NoStop == [stage |-> "none", full |-> FALSE, read |-> {}]

Offline == [sse |-> FALSE, wire |-> <<>>, last |-> 0, snapped |-> FALSE,
            polling |-> FALSE, poll |-> {}]

Init ==
    /\ db = [seq |-> InitialSequence, queue |-> <<>>]
    /\ eng = Booted(InitialSequence, <<>>, 0)
    /\ palazzo = [onAir |-> Idle, seen |-> {}, seq |-> 0]
    /\ tel = Offline
    /\ stop = NoStop
    /\ edit = {}
    /\ claims = {}
    /\ minted = {}
    /\ left \in Budgets

--------------------------------------------------------------------------------
\* Palazzo (external)

PalazzoNow == [kind |-> "snapshot", track |-> palazzo.onAir, seq |-> palazzo.seq]

\* Palazzo goes from the track it plays to `track`, telling the stream.
Switch(track) ==
    LET ended  == [kind |-> "ended", track |-> palazzo.onAir, seq |-> palazzo.seq + 1]
        begun  == [kind |-> "started", track |-> track, seq |-> palazzo.seq + 1]
        frames == IF palazzo.onAir = Idle THEN <<begun>>
                  ELSE IF track = Idle THEN <<ended>>
                  ELSE <<ended, [begun EXCEPT !.seq = @ + 1]>>
    IN  /\ palazzo' = [onAir |-> track, seen |-> palazzo.seen \cup ({track.req} \ {0}),
                       seq |-> palazzo.seq + Len(frames)]
        /\ tel' = [tel EXCEPT !.wire = IF tel.sse THEN @ \o frames ELSE @]

SongEnds ==
    /\ palazzo.onAir # Idle
    /\ Spend("song")
    /\ Switch(Idle)
    /\ UNCHANGED <<eng, db, stop, edit, claims, minted>>

\* The POST arrives.  Its idempotency key is the playback ID: a repeated one is
\* acknowledged as a duplicate and starts nothing.
CommandArrives(c) ==
    /\ c \in eng.sends /\ c.stage = "posted"
    /\ eng' = [eng EXCEPT !.sends = (@ \ {c}) \cup {[c EXCEPT !.stage = "accepted"]}]
    /\ IF c.req \in palazzo.seen THEN UNCHANGED <<palazzo, tel>>
       ELSE Switch([req |-> c.req, item |-> c.item])
    /\ UNCHANGED <<db, stop, edit, claims, minted, left>>

--------------------------------------------------------------------------------
\* pushCommand

\* The intro lookup returned: post, unless another song became active meanwhile.
PostCommand(c) ==
    /\ c \in eng.sends /\ c.stage = "lookup"
    /\ eng' = [eng EXCEPT !.sends =
                 IF eng.active.req = c.req
                 THEN (@ \ {c}) \cup {[c EXCEPT !.stage = "posted"]} ELSE @ \ {c}]
    /\ UNCHANGED <<db, palazzo, tel, stop, edit, claims, minted, left>>

CommandSucceeds(c) ==
    /\ c \in eng.sends /\ c.stage = "accepted"
    /\ eng' = [eng EXCEPT !.sends = @ \ {c}]
    /\ UNCHANGED <<db, palazzo, tel, stop, edit, claims, minted, left>>

\* Rejected, timed out, or unanswered after the retries: Palazzo may have it.
CommandFails(c) ==
    /\ c \in eng.sends /\ c.stage \in {"posted", "accepted"}
    /\ Spend("commandFail")
    /\ eng' = CommandFailed([eng EXCEPT !.sends = @ \ {c}], c.req)
    /\ UNCHANGED <<db, palazzo, tel, stop, edit, claims, minted>>

--------------------------------------------------------------------------------
\* The queue mutation lock

NextTask == Head(eng.tasks)
Unlocked == [eng EXCEPT !.tasks = Tail(@)]
Stored   == NormalizeQueue(db.queue)

RunClaim ==
    /\ NextTask.op = "claim"
    /\ IF Stored # <<>> /\ Stored[1].id = NextTask.entry /\ Stored[1].claim = 0
       THEN LET q == HeadClaimed(Stored, NextTask.req)
            IN  /\ db' = [db EXCEPT !.queue = q]
                /\ eng' = ClaimWon(Unlocked, q)
                /\ claims' = claims \cup {<<NextTask.entry, NextTask.req>>}
       ELSE /\ eng' = ClaimLost(Unlocked, Stored)
            /\ UNCHANGED <<db, claims>>

RunRelease ==
    /\ NextTask.op = "release"
    /\ LET q == Released(Stored, NextTask.entry)
       IN  /\ db' = IF q = Stored THEN db ELSE [db EXCEPT !.queue = q]
           /\ eng' = ClaimReleased(Unlocked, q, NextTask.block)
    /\ UNCHANGED claims

RunConsume ==
    /\ NextTask.op = "consume"
    /\ LET q == Without(Stored, NextTask.cont.entry)
           t == ApplyQueue(Unlocked, q)
       IN  /\ db' = [db EXCEPT !.queue = q]
           /\ eng' = [t EXCEPT !.bumpers = @ \cup {NextTask.cont}]
    /\ UNCHANGED claims

RunSave ==
    /\ NextTask.op \in {"save", "saveThenPlay"}
    /\ db' = [db EXCEPT !.seq = NextTask.cont.next]
    /\ LET t == CursorSaved(Unlocked, NextTask.cont.next)
       IN  eng' = IF NextTask.op = "save"
                  THEN [t EXCEPT !.bumpers = @ \cup {[NextTask.cont EXCEPT !.saved = TRUE]}]
                  ELSE ResumeQueue(t)
    /\ UNCHANGED claims

RunTask ==
    /\ eng.tasks # <<>>
    /\ RunClaim \/ RunRelease \/ RunConsume \/ RunSave
    /\ UNCHANGED <<palazzo, tel, stop, edit, minted, left>>

\* The database read or write of the task fails.
TaskFails ==
    /\ eng.tasks # <<>>
    /\ Spend("persistFail")
    /\ eng' = BlockQueue(Unlocked)
    /\ UNCHANGED <<db, palazzo, tel, stop, edit, claims, minted>>

\* The bumper, if one was due, has played.
BumperEnds(cont) ==
    /\ cont \in eng.bumpers
    /\ eng' = AfterBumper([eng EXCEPT !.bumpers = @ \ {cont}], cont)
    /\ UNCHANGED <<db, palazzo, tel, stop, edit, claims, minted, left>>

--------------------------------------------------------------------------------
\* The telemetry client

\* The stream opens; every connection begins with a complete snapshot.
StreamOpens ==
    /\ ~tel.sse
    /\ tel' = [tel EXCEPT !.sse = TRUE, !.wire = <<PalazzoNow>>]
    /\ UNCHANGED <<eng, db, palazzo, stop, edit, claims, minted, left>>

\* A connection attempt fails, or the open stream breaks with an error.
StreamFails ==
    /\ Spend("drop")
    /\ tel' = [tel EXCEPT !.sse = FALSE, !.wire = <<>>, !.polling = TRUE]
    /\ eng' = IF eng.status = "unavailable" THEN eng
              ELSE StatusChanged(eng, "connecting", tel.snapped)
    /\ UNCHANGED <<db, palazzo, stop, edit, claims, minted>>

\* The open stream ends cleanly: reported as connected until the next attempt.
StreamCloses ==
    /\ tel.sse
    /\ Spend("drop")
    /\ tel' = [tel EXCEPT !.sse = FALSE, !.wire = <<>>, !.polling = FALSE]
    /\ eng' = StatusChanged(eng, "connected", tel.snapped)
    /\ UNCHANGED <<db, palazzo, stop, edit, claims, minted>>

\* A snapshot frame.  Palazzo strips the URL of a playing track, so that frame
\* is replaced by a fetch of the state as it is now.
SnapshotFrame(frame) ==
    LET state == IF frame.track = Idle THEN frame ELSE PalazzoNow
    IN  /\ tel' = [tel EXCEPT !.wire = Tail(@), !.last = state.seq, !.snapped = TRUE]
        /\ eng' = Snapshot(StatusChanged(eng, "connected", TRUE), state.track)

\* A lifecycle event at or before the cursor is a duplicate or stale.
StaleFrame(frame) ==
    /\ frame.seq <= tel.last
    /\ tel' = [tel EXCEPT !.wire = Tail(@)]
    /\ UNCHANGED eng

\* A lifecycle event that follows the cursor.  Position and level events carry
\* sequence numbers too and move the cursor over a gap without reconciling.
LifecycleFrame(frame) ==
    /\ frame.seq > tel.last
    /\ tel' = [tel EXCEPT !.wire = Tail(@), !.last = frame.seq]
    /\ eng' = IF frame.kind = "started" THEN TrackStarted(eng, frame.track.req)
              ELSE TrackEnded(eng, frame.track.req)

\* reconcileGap: the event is dropped for a fetch of the state.
GapFrame(frame) ==
    /\ frame.seq > tel.last + 1
    /\ tel' = [tel EXCEPT !.wire = Tail(@), !.last = palazzo.seq]
    /\ eng' = Snapshot(eng, palazzo.onAir)

ReadFrame ==
    /\ tel.wire # <<>>
    /\ LET frame == Head(tel.wire)
       IN  IF frame.kind = "snapshot" THEN SnapshotFrame(frame)
           ELSE StaleFrame(frame) \/ LifecycleFrame(frame) \/ GapFrame(frame)
    /\ UNCHANGED <<db, palazzo, stop, edit, claims, minted, left>>

\* The state endpoint reads the state it is about to reply with.
PollReads ==
    /\ tel.polling /\ tel.poll = {} /\ eng.status # "connected"
    /\ Spend("poll")
    /\ tel' = [tel EXCEPT !.poll = {PalazzoNow}]
    /\ UNCHANGED <<eng, db, palazzo, stop, edit, claims, minted>>

\* The reply is accepted whatever the stream has delivered in the meantime.
PollReplies ==
    \E reply \in tel.poll :
        /\ tel' = [tel EXCEPT !.poll = {}, !.last = reply.seq, !.snapped = TRUE]
        /\ eng' = Snapshot(IF eng.status \in {"connecting", "unavailable"}
                           THEN StatusChanged(eng, "polling", TRUE) ELSE eng, reply.track)
        /\ UNCHANGED <<db, palazzo, stop, edit, claims, minted, left>>

\* The poll fails: unavailable, even when the stream has recovered since.
PollFails ==
    /\ tel.poll # {}
    /\ Spend("pollFail")
    /\ tel' = [tel EXCEPT !.poll = {}]
    /\ eng' = StatusChanged(eng, "unavailable", tel.snapped)
    /\ UNCHANGED <<db, palazzo, stop, edit, claims, minted>>

--------------------------------------------------------------------------------
\* Operators

Enqueue(item) ==
    /\ Spend("enqueue")
    /\ FindLeaf(db.seq, item) # None
    /\ Len(db.queue) < MaxQueueLength
    /\ minted # Entries
    /\ LET e == CHOOSE x \in Entries : x \notin minted
           q == Enqueued(Stored, e, item)
       IN  /\ minted' = minted \cup {e}
           /\ db' = [db EXCEPT !.queue = q]
           /\ eng' = ApplyQueue(eng, q)
    /\ UNCHANGED <<palazzo, tel, stop, edit, claims>>

RemoveEntry(e) ==
    /\ \E i \in PositionsOf(Stored, e) : Stored[i].claim = 0
    /\ Spend("remove")
    /\ db' = [db EXCEPT !.queue = Without(Stored, e)]
    /\ eng' = ApplyQueue(eng, Without(Stored, e))
    /\ UNCHANGED <<palazzo, tel, stop, edit, claims, minted>>

\* Mutant of Playing: no entry is pinned to the head.
PlayingUnpinned == None

Playing == IF Stored # <<>> /\ Stored[1].claim # 0 THEN Stored[1].id ELSE eng.active.entry

Reorder ==
    /\ Spend("reorder")
    /\ \E q \in Reorderings(Stored, Playing) :
          /\ db' = [db EXCEPT !.queue = q]
          /\ eng' = ApplyQueue(eng, q)
    /\ UNCHANGED <<palazzo, tel, stop, edit, claims, minted>>

\* A new operator instruction supersedes a Stop: nothing is held to it any more.
Resumed == IF stop.stage = "done" THEN NoStop ELSE [stop EXCEPT !.full = FALSE]

\* A song taken on air directly, from the playlist or (None) from elsewhere.
PlayManually(item) ==
    /\ Spend("manual")
    /\ eng' = ManualSong(eng, item)
    /\ stop' = Resumed
    /\ UNCHANGED <<db, palazzo, tel, edit, claims, minted>>

\* stopProgramSong reads the row; the operator's (full) Stop will make the
\* rotation manual, the one for a timed block keeps it.
StopReads(full) ==
    /\ stop.stage \in {"none", "done"}
    /\ Spend("stop")
    /\ stop' = IF full THEN [stage |-> "read", full |-> TRUE, read |-> {db.seq}]
               ELSE [stage |-> "posted", full |-> FALSE, read |-> {}]
    /\ UNCHANGED <<eng, db, palazzo, tel, edit, claims, minted>>

StopWrites ==
    /\ stop.stage = "read"
    /\ \E read \in stop.read :
          LET seq == [read EXCEPT !.mode = "manual", !.cursor = None]
          IN  db' = [db EXCEPT !.seq = seq] /\ eng' = ApplySequence(eng, seq)
    /\ stop' = [stop EXCEPT !.stage = "posted", !.read = {}]
    /\ UNCHANGED <<palazzo, tel, edit, claims, minted, left>>

StopArrives ==
    /\ stop.stage = "posted"
    /\ stop' = [stop EXCEPT !.stage = "taken"]
    /\ IF palazzo.onAir = Idle THEN UNCHANGED <<palazzo, tel>> ELSE Switch(Idle)
    /\ UNCHANGED <<eng, db, edit, claims, minted, left>>

StopSucceeds ==
    /\ stop.stage = "taken"
    /\ stop' = IF stop.full THEN [stop EXCEPT !.stage = "done"] ELSE NoStop
    /\ eng' = StopSong(eng)
    /\ UNCHANGED <<db, palazzo, tel, edit, claims, minted, left>>

\* The request throws: the engine is never told.
StopFails ==
    /\ stop.stage \in {"posted", "taken"}
    /\ Spend("commandFail")
    /\ stop' = NoStop
    /\ UNCHANGED <<eng, db, palazzo, tel, edit, claims, minted>>

\* updateProgramAudioBus reads the row outside the lock ...
EditReads(saves) ==
    /\ Spend("edit")
    /\ edit' = edit \cup {[saves |-> saves, row |-> db]}
    /\ UNCHANGED <<eng, db, palazzo, tel, stop, claims, minted>>

\* ... and writes what it computed from it.  A mixer-only save (saves = None)
\* writes back the sequence it read; a playlist save also the filtered queue.
EditWrites(e) ==
    /\ e \in edit
    /\ edit' = edit \ {e}
    /\ IF e.saves = None
       THEN db' = [db EXCEPT !.seq = e.row.seq] /\ UNCHANGED <<eng, stop>>
       ELSE \E q \in FilterForSequence(NormalizeQueue(e.row.queue), ItemsOf(e.saves)) :
                 /\ db' = [seq |-> e.saves, queue |-> q]
                 /\ eng' = ApplyQueue(ApplySequence(eng, e.saves), NormalizeQueue(q))
                 /\ stop' = Resumed
    /\ UNCHANGED <<palazzo, tel, claims, minted, left>>

--------------------------------------------------------------------------------
\* The backend restarts: everything but the row is lost.
Restart ==
    /\ Spend("crash")
    /\ eng' = Booted(db.seq, db.queue, eng.issued)
    /\ tel' = Offline
    /\ stop' = NoStop
    /\ edit' = {}
    /\ UNCHANGED <<db, palazzo, claims, minted>>

--------------------------------------------------------------------------------
Internal ==
    \/ \E c \in eng.sends : PostCommand(c) \/ CommandArrives(c) \/ CommandSucceeds(c)
    \/ RunTask
    \/ \E cont \in eng.bumpers : BumperEnds(cont)

Telemetry == StreamOpens \/ ReadFrame \/ PollReplies

Operator ==
    \/ \E item \in Items : Enqueue(item)
    \/ \E e \in Entries : RemoveEntry(e)
    \/ Reorder
    \/ \E item \in Items \cup {None} : PlayManually(item)
    \/ \E full \in BOOLEAN : StopReads(full)
    \/ StopWrites \/ StopArrives \/ StopSucceeds
    \/ \E saves \in Edits \cup {None} : EditReads(saves)
    \/ \E e \in edit : EditWrites(e)

Failure ==
    \/ \E c \in eng.sends : CommandFails(c)
    \/ TaskFails
    \/ StreamFails \/ StreamCloses
    \/ PollReads \/ PollFails
    \/ StopFails
    \/ Restart

Next == Internal \/ Telemetry \/ SongEnds \/ Operator \/ Failure

Spec == Init /\ [][Next]_vars

--------------------------------------------------------------------------------
\* Type invariant
Row == [seq : Sequence, queue : Queue]

TypeOK ==
    /\ eng \in EngineState
    /\ db \in Row
    /\ palazzo \in [onAir : Track, seen : SUBSET Nat, seq : Nat]
    /\ tel \in [sse : BOOLEAN, wire : Seq(Frame), last : Nat, snapped : BOOLEAN,
                polling : BOOLEAN, poll : SUBSET Frame]
    /\ stop \in [stage : {"none", "read", "posted", "taken", "done"}, full : BOOLEAN,
                 read : SUBSET Sequence]
    /\ edit \subseteq [saves : Edits \cup {None}, row : Row]
    /\ claims \subseteq Entries \X Nat
    /\ minted \subseteq Entries
    /\ left \in [Kinds -> Nat]

--------------------------------------------------------------------------------
\* Safety

\* Palazzo has finished the request: it accepted it once and moved past it.
Over(req) == req \in palazzo.seen /\ palazzo.onAir.req # req

\* "Alcantara persists a non-sensitive active marker and playback request ID
\* before issuing a queued command" (docs/radio-telemetry.md): a song on air for
\* a queue entry carries exactly a request that was persisted for that entry,
\* through races, failures, adoption and restarts.
ClaimedBeforeCommanded ==
    eng.active.entry # None => <<eng.active.entry, eng.active.req>> \in claims

\* While a queue entry is on air the stored head is that entry under that very
\* request, so that a restart at any moment can adopt it (reconcilePlayingSnapshot)
\* and no removal or reordering reaches a playing entry.
ActiveEntryOwnsHead ==
    eng.active.entry # None =>
        /\ db.queue # <<>>
        /\ db.queue[1].id = eng.active.entry
        /\ db.queue[1].claim = eng.active.req

\* An entry leaves the stored queue only because an operator removed it, or
\* because a request claimed for it is over on Palazzo: no failed command,
\* failed write or restart consumes a song nobody heard.
EntryLeavesAfterItsEnd ==
    [][\A i \in 1..Len(db.queue) :
          \/ db.queue[i].id \in IdsIn(db'.queue)
          \/ left'.remove < left.remove
          \/ \E c \in claims : c[1] = db.queue[i].id /\ Over(c[2])]_vars

\* The automation never cuts off a track that is on air: when Palazzo moves
\* straight from one track to another, an operator asked for the new one.
NeverCutsOff ==
    [][palazzo.onAir # Idle /\ palazzo'.onAir # Idle /\ palazzo'.onAir # palazzo.onAir
         => \E c \in eng.sends : c.req = palazzo'.onAir.req /\ c.manual]_vars

\* The automatic commands a step starts.
NewCommands == {c \in eng'.sends \ eng.sends : ~c.manual /\ c.stage = "lookup"}

\* While the telemetry is unavailable (frozen) no automatic command starts.
FrozenSendsNothing ==
    [][eng.frozen /\ eng'.frozen => NewCommands = {}]_vars

\* The tasks whose continuation plays without asking whether the telemetry is
\* available: the claim of a head and the cursor saved for the queue.
PlaysOn(task) == task.op \in {"claim", "saveThenPlay"}

\* The turns to play that are waiting for the lock.
Turns(s) == {task \in {s.tasks[i] : i \in 1..Len(s.tasks)} : PlaysOn(task)}

\* What of "playback freezes, and Alcantara never ... sends another song"
\* (docs/radio-telemetry.md) the code keeps: in a frozen engine only a turn that
\* was waiting for the lock starts an automatic command or asks for another
\* turn; no other task, bumper, failure, late reply or operator write does.
FrozenTakesNoTurn ==
    [][eng.frozen /\ eng'.frozen =>
          \/ RunTask /\ PlaysOn(NextTask)
          \/ NewCommands = {} /\ Turns(eng') \subseteq Turns(eng)]_vars

\* A request that is over on Palazzo is never commanded again: a song is
\* neither repeated nor silently swallowed as a duplicate playback ID.
NeverCommandsAgain ==
    [][\A c \in NewCommands : ~Over(c.req)]_vars

\* After a completed operator Stop that no later instruction superseded, nothing
\* goes on air by itself.
StopHolds ==
    [][stop.stage = "done" /\ stop'.stage = "done" => NewCommands = {}]_vars

\* After a completed operator Stop that no later instruction superseded, the
\* stored rotation is manual, so that a restart keeps the station stopped.
StoppedRowIsManual == stop.stage = "done" => db.seq.mode = "manual"

\* The step takes an idle snapshot from the stream or from a poll.
TakesIdleSnapshot ==
    \/ ReadFrame /\ Head(tel.wire).kind = "snapshot" /\ Head(tel.wire).track = Idle
    \/ PollReplies /\ \A reply \in tel.poll : reply.track = Idle

\* An idle snapshot is the end of the song the engine believes on air, however
\* the song became active and whichever transport delivered the snapshot.
IdleEndsActiveSong ==
    [][TakesIdleSnapshot /\ eng.active # NoSong => eng'.active.req # eng.active.req]_vars

\* The engine has noted the end of the song it believes on air, so that every
\* further report of that end is a duplicate to it.
Deaf == eng.active # NoSong /\ Remembers(eng, eng.active.req)

\* "An idle snapshot while a commanded song is active is treated as an
\* authoritative track end" (docs/radio-telemetry.md) unless the engine is deaf
\* to it, and it becomes deaf in four ways only: the end is reported while the
\* telemetry is unavailable; a poll's reply is older than the end; an idle
\* snapshot older than the song ended it, and Palazzo plays it; or a claim that
\* was put back into the queue is commanded again.
IdleMissesOnlyNotedEnds ==
    [][/\ TakesIdleSnapshot /\ eng.active # NoSong /\ ~Deaf => eng'.active.req # eng.active.req
       /\ Deaf' => \/ Deaf \/ eng.frozen \/ PollReplies
                   \/ palazzo.onAir.req = eng'.active.req
                   \/ \E c \in eng'.sends : c.req = eng'.active.req /\ c.stage = "lookup"]_vars

\* Nothing is in flight between the engine, its database and Palazzo.
Settled ==
    /\ eng.tasks = <<>> /\ eng.bumpers = {} /\ eng.sends = {}
    /\ tel.sse /\ tel.wire = <<>> /\ tel.poll = {} /\ stop.stage \in {"none", "done"}
    /\ eng.reconciled /\ ~eng.frozen

\* Once everything has settled, the engine believes what Palazzo does: it shows
\* the request that is on air, or knows that a foreign track is.
SettledAgreement ==
    Settled => \/ eng.active.req = palazzo.onAir.req
               \/ eng.active = NoSong /\ eng.foreign

\* Once everything has settled, an idle engine is not stuck in a transition,
\* which would refuse every later start.
SettledRests == Settled /\ eng.active = NoSong => ~eng.transitioning

\* The engine has nothing on air and is in a transition that no task and no
\* bumper will end: every later start is refused.
Stranded == eng.active = NoSong /\ eng.transitioning /\ eng.tasks = <<>> /\ eng.bumpers = {}

\* No step strands the engine but the return of a bumper into a freeze: whatever
\* takes, Stops, saves, failures and broken connections interleave with claims,
\* releases and ends, each transition keeps the continuation that ends it.
NeverStranded == [][Stranded' => Stranded \/ eng.frozen]_vars

--------------------------------------------------------------------------------
\* Liveness: the event loop runs what is ready, the stream reconnects and
\* delivers.  Nothing is assumed of the operators or of failures.
FairSpec == Spec /\ WF_vars(Internal) /\ WF_vars(Telemetry)

\* A looped automatic playlist never leaves Palazzo silent for good, whatever
\* the operator queues and removes and however the stream breaks.
RotationResumes ==
    palazzo.onAir = Idle /\ eng.seq.mode = "auto" ~> palazzo.onAir # Idle
================================================================================
