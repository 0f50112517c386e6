----------------------------- MODULE FlightService -----------------------------
(***************************************************************************)
(* The flight service of one program (program/flight.service.ts): cue      *)
(* sequences that operators run, and clocked logs that the scheduler       *)
(* starts and that own the air while they run.                             *)
(*                                                                         *)
(*   logs      the FlightSequence rows (survive a restart)                 *)
(*   pointer   ProgramState.activeFlightSequenceId                         *)
(*   flight    the service's memory: runtime objects ever made (rts), the  *)
(*             one in the runtimes map (owner, 0 for none), armed timers,  *)
(*             and the operations waiting in cueOperations (lock)          *)
(*   calls     the asynchronous calls in progress and where each is        *)
(*   radio     the radio engine and its row, see FlightRadio               *)
(*   playable  media that pass the preflight                               *)
(*   clock     the wall clock                                              *)
(*   claimed   how often the scheduler claimed each log (history)          *)
(*   left      how often the environment may still do each thing (bound)   *)
(*                                                                         *)
(* A database statement takes effect in the step that issues it; what it   *)
(* returned is used by a later step, after other calls may have run.       *)
(***************************************************************************)
EXTENDS FlightRadio, Integers, FiniteSets

CONSTANTS Logs,         \* FlightSequence IDs
          Cues,         \* cue IDs, each naming its song or clip too
          None,
          Setups,       \* initial rows, pointer, rotation and budget
          Edits,        \* item lists an operator may save
          Window,       \* how late the scheduler still starts a log
          SongEndTimeout,  \* songEndTimeoutMs
          MaxClock      \* how long the clock runs on its own

Unclocked == -1
Unset == -1

Kinds == {"song", "clip", "stop", "wait", "songEnd", "plain"}
Cue == [id : Cues, kind : Kinds, at : Nat \cup {Unset}, ms : Nat]
Row == [exists : BOOLEAN, items : Seq(Cue), sched : Nat \cup {Unclocked}, loop : BOOLEAN,
        published : BOOLEAN, started : BOOLEAN, running : BOOLEAN, rev : Nat]

\* What the environment does a bounded number of times: requests, saves, ends of
\* rotation tracks and of cue songs, media withdrawn, commands failed, restarts.
Steps == {"operate", "edit", "rotation", "song", "disable", "fail", "crash"}

ASSUME FlightAssumption ==
    /\ None \notin Logs /\ Window \in Nat /\ SongEndTimeout \in Nat /\ MaxClock \in Nat
    /\ \A s \in Setups : /\ s.logs \in [Logs -> Row]
                          /\ s.pointer \in Logs \cup {None}
                          /\ s.auto \in BOOLEAN
                          /\ s.budget \in [Steps -> Nat]
                          \* A row with a scheduled start does not loop.
                          /\ \A l \in Logs : s.logs[l].sched # Unclocked => ~s.logs[l].loop
    /\ Edits \subseteq Seq(Cue)

VARIABLES logs, pointer, flight, calls, radio, playable, clock, claimed, left
vars == <<logs, pointer, flight, calls, radio, playable, clock, claimed, left>>

Callers == {"operator", "scheduler", "turn", "song", "advance"}

NoTimer == [kind |-> "none", rt |-> 0, gen |-> 0, cue |-> 0, due |-> 0]

TimerKinds == {"none", "hold", "wait", "songEnd", "clip", "hard"}
TimerRecord == [kind : TimerKinds, rt : Nat, gen : Nat, cue : Nat \cup Cues, due : Nat]

\* A FlightRuntimeState object.  generation is Date.now() plus the advances
\* since, so it is modelled per runtime: two starts never share one.
Runtime == [log : Logs, items : Seq(Cue), loop : BOOLEAN, sched : Nat \cup {Unclocked},
            index : Nat \ {0}, running : BOOLEAN, gen : Nat, timer : TimerRecord,
            waiting : BOOLEAN, clipAt : Nat \cup {Unset}]

NoSnap == [exists |-> FALSE, items |-> <<>>, sched |-> Unclocked, loop |-> FALSE,
           published |-> FALSE, started |-> FALSE, running |-> FALSE, rev |-> 0]

\* A call at rest.  at: what it does next; on: what an error leads to; log, snap:
\* the log it is about and what it read of it; rt, gen: the runtime of a cue, or
\* the one an edit changes and the revision it read; due: what the scheduler has
\* still to claim; cursor: the sequence finishBlock computed.  Of a stop it waits
\* for: keep (the rotation), held (the runtime released), target (the row
\* marked) and then (what follows).
Idle == [at |-> "idle", on |-> "end", log |-> None, snap |-> NoSnap, rt |-> 0, gen |-> 0,
         items |-> <<>>, due |-> {}, cursor |-> Stopped, was |-> None,
         keep |-> FALSE, held |-> 0, target |-> None, then |-> "end"]

Init ==
    /\ \E s \in Setups : /\ logs = s.logs
                         /\ pointer = s.pointer
                         /\ radio = IdleRadio(s.auto)
                         /\ left = s.budget
    /\ flight = [rts |-> <<>>, owner |-> 0, timers |-> {}, lock |-> <<>>]
    /\ calls = [c \in Callers |-> Idle]
    /\ playable = Cues
    /\ clock = 0
    /\ claimed = [l \in Logs |-> 0]

Spend(kind) == left[kind] > 0 /\ left' = [left EXCEPT ![kind] = @ - 1]

--------------------------------------------------------------------------------
\* Reading the memory

IsRunning(f) == f.owner # 0 /\ f.rts[f.owner].running

\* isClockedLogRunning
OwnsAir(f) == IsRunning(f) /\ f.rts[f.owner].sched # Unclocked /\ clock >= f.rts[f.owner].sched

Fixed(cue) == cue.at # Unset
DueAt(rt, cue) == rt.sched + cue.at

Rows(items) == 1..Len(items)
RowOf(items, id) == IF \E i \in Rows(items) : items[i].id = id
                    THEN CHOOSE i \in Rows(items) : items[i].id = id ELSE 0

\* validateClockItems
ClockItems(items) ==
    /\ items # <<>> /\ items[1].at = 0
    /\ \A i, j \in Rows(items) : i # j => items[i].id # items[j].id
    /\ \A i \in Rows(items) : items[i].kind \in {"song", "clip", "stop"}
    /\ \A i, j \in Rows(items) :
          i < j /\ Fixed(items[i]) /\ Fixed(items[j]) => items[i].at <= items[j].at

\* preflightClockItems
Ready(items) ==
    ClockItems(items) /\ \A i \in Rows(items) :
        items[i].kind \in {"song", "clip"} => items[i].id \in playable

--------------------------------------------------------------------------------
\* Changing the memory

\* Mutant of Disarmed: the handle is dropped without clearing the timer.
DroppedHandle(f, r) == [f EXCEPT !.rts[r].timer = NoTimer]

\* clearTimer
Disarmed(f, r) ==
    [f EXCEPT !.timers = @ \ {f.rts[r].timer}, !.rts[r].timer = NoTimer]

\* runtime.timer = setTimeout(...): the handle of an earlier timer is lost.
Armed(f, r, timer) ==
    [f EXCEPT !.timers = @ \cup {timer}, !.rts[r].timer = timer]

\* A timer that has fired.
Fired(f, t) ==
    [f EXCEPT !.timers = @ \ {t},
              !.rts[t.rt].timer = IF @ = t THEN NoTimer ELSE @]

Timer(f, r, kind, cue, due) ==
    [kind |-> kind, rt |-> r, gen |-> f.rts[r].gen, cue |-> cue, due |-> due]

\* serializeCueOperation around executeCueAtIndexUnlocked.
Requested(f, r, gen, index) ==
    [f EXCEPT !.lock = Append(@, [op |-> "cue", rt |-> r, gen |-> gen, index |-> index,
                                  log |-> None, items |-> <<>>])]

\* Mutant of NextFixed: the search starts one item too late.
NextFixedBeyond(rt) == {i \in Rows(rt.items) : i > rt.index + 1 /\ Fixed(rt.items[i])}

NextFixed(rt) == {i \in Rows(rt.items) : i > rt.index /\ Fixed(rt.items[i])}
FirstFixed(rt) == CHOOSE i \in NextFixed(rt) : \A j \in NextFixed(rt) : i <= j

\* armNextHardCue
HardArmed(f, r) ==
    LET rt == f.rts[r]
        g  == Disarmed(f, r)
        cue == rt.items[FirstFixed(rt)]
    IN  IF NextFixed(rt) = {} \/ rt.sched = Unclocked THEN g
        ELSE Armed(g, r, Timer(f, r, "hard", cue.id, DueAt(rt, cue)))

\* armTimedClip: the clip's end, or the next fixed start when that comes first.
ClipArmed(f, r) ==
    LET rt  == f.rts[r]
        g   == Disarmed(f, r)
        cue == rt.items[FirstFixed(rt)]
        end == rt.clipAt + rt.items[rt.index].ms
    IN  IF rt.clipAt = Unset THEN g
        ELSE IF NextFixed(rt) # {} /\ DueAt(rt, cue) <= end
             THEN Armed(g, r, Timer(f, r, "clip", cue.id, DueAt(rt, cue)))
             ELSE Armed(g, r, Timer(f, r, "clip", 0, end))

\* go and handleSongEnded drop the timer and start a new generation.
Bumped(f, r) ==
    LET g == Disarmed(f, r)
    IN  [g EXCEPT !.rts[r].waiting = FALSE, !.rts[r].gen = @ + 1]

\* Mutant of Finishes: one item too late.
FinishesLate(f, r) == f.rts[r].index > Len(f.rts[r].items) /\ ~f.rts[r].loop

\* After its last item a sequence that does not loop is over.
Finishes(f, r) == f.rts[r].index + 1 > Len(f.rts[r].items) /\ ~f.rts[r].loop

\* The next cue, or the first of a loop.
NextRequested(f, r) ==
    Requested(f, r, f.rts[r].gen,
              IF f.rts[r].index + 1 > Len(f.rts[r].items) THEN 1 ELSE f.rts[r].index + 1)

--------------------------------------------------------------------------------
\* How calls go on

Go(c, call) == calls' = [calls EXCEPT ![c] = call]

ClaimNext(due) == IF due = {} THEN Idle ELSE [Idle EXCEPT !.at = "claim", !.due = due]

\* The call returns; the scheduler goes on with what is due.
Returned(call) == ClaimNext(call.due)

Onward(call, label) == IF label = "end" THEN Returned(call) ELSE [call EXCEPT !.at = label]

\* stopRuntime, up to its first await.
StopBegun(f) == IF f.owner = 0 THEN f
                ELSE [Disarmed(f, f.owner) EXCEPT !.rts[f.owner].waiting = FALSE]
Stopping(call, f, keep, then) ==
    [call EXCEPT !.at = "mark", !.keep = keep, !.then = then, !.held = f.owner,
                 !.target = pointer]

\* Mutant of Recovers: a failing cue is logged and left at that.
RecoversCompletion(call) == call.on = "finishFailed"

\* An error: a completing block and a clocked cue stop the program, the scheduler
\* reports it and goes on, a request is answered with it.
Recovers(call) == call.on \in {"finishFailed", "cueFailed"}
Failed(call, f) == IF Recovers(call)
                   THEN Stopping([call EXCEPT !.on = "end"], f, FALSE, "end")
                   ELSE Returned(call)
Fails(c) ==
    /\ flight' = IF Recovers(calls[c]) THEN StopBegun(flight) ELSE flight
    /\ Go(c, Failed(calls[c], flight))

\* finishBlock, up to its first await: an operator's sequence stops, a clocked
\* log computes where the rotation continues.
Clocked(f, r) == f.rts[r].sched # Unclocked
Finishing(call, f, r) ==
    LET k == [call EXCEPT !.on = "finishFailed"]
    IN  IF ~Clocked(f, r) THEN Stopping(call, f, FALSE, "end")
        ELSE IF radio.mem.auto
             THEN [k EXCEPT !.at = "prepare",
                            !.cursor = [radio.mem EXCEPT !.cursor = @ + 1]]
             ELSE Stopping(k, f, TRUE, "resume")
FinishBegun(f, r) == IF Clocked(f, r) /\ radio.mem.auto THEN f ELSE StopBegun(f)

\* advance, handleSongEnded and go: the next cue, or the end of the block in a
\* call of its own (k: the calls, c: the one that waits for the end).
MovedOn(f, r) == IF Finishes(f, r) THEN FinishBegun(f, r) ELSE NextRequested(f, r)
Spawned(k, c, f, r) ==
    IF Finishes(f, r) THEN [k EXCEPT ![c] = Finishing(Idle, f, r)] ELSE k
MayMove(c, f, r) == Finishes(f, r) => calls[c].at = "idle"

--------------------------------------------------------------------------------
\* stopRuntime and stopProgramSong

StopMarks(c) ==
    /\ calls[c].at = "mark"
    /\ LET l == calls[c].target
       IN  logs' = IF l = None THEN logs ELSE [logs EXCEPT ![l].running = FALSE]
    /\ Go(c, [calls[c] EXCEPT !.at = "cut"])
    /\ UNCHANGED <<pointer, flight, radio, playable, clock, claimed, left>>

StopCuts(c) ==
    /\ calls[c].at = "cut"
    /\ radio' = IF calls[c].keep THEN radio ELSE RowStopped(radio)
    /\ Go(c, [calls[c] EXCEPT !.at = "cutting"])
    /\ UNCHANGED <<logs, pointer, flight, playable, clock, claimed, left>>

StopForwards(c) ==
    /\ calls[c].at = "cutting"
    /\ radio' = Silenced(IF calls[c].keep THEN radio ELSE MemStopped(radio))
    /\ Go(c, [calls[c] EXCEPT !.at = "cutDone"])
    /\ UNCHANGED <<logs, pointer, flight, playable, clock, claimed, left>>

\* The finally of stopRuntime: only the runtime that was stopped leaves the map.
Released(f, r) ==
    IF r = 0 THEN f
    ELSE [f EXCEPT !.rts[r].running = FALSE, !.owner = IF @ = r THEN 0 ELSE @]

StopEnds(c) ==
    /\ calls[c].at = "cutDone"
    /\ radio' = [radio EXCEPT !.active = 0]
    /\ flight' = Released(flight, calls[c].held)
    /\ Go(c, Onward(calls[c], calls[c].then))
    /\ UNCHANGED <<logs, pointer, playable, clock, claimed, left>>

\* Palazzo rejects the stop.  A stop for good goes on regardless; the stop that
\* keeps the rotation, and a cue's own, report the error.
StopFails(c) ==
    /\ calls[c].at = "cutting"
    /\ Spend("fail")
    /\ radio' = IF calls[c].keep THEN radio ELSE MemStopped(radio)
    /\ LET call == calls[c]
           f == Released(flight, call.held)
           reported == call.on # "ignore" /\ (call.keep \/ call.then \in {"cue", "after"})
       IN  IF reported
           THEN /\ flight' = IF Recovers(call) THEN StopBegun(f) ELSE f
                /\ Go(c, Failed(call, f))
           ELSE flight' = f /\ Go(c, Onward(call, call.then))
    /\ UNCHANGED <<logs, pointer, playable, clock, claimed>>

--------------------------------------------------------------------------------
\* finishBlock of a clocked log

\* prepareContinuousRotationResume, once it holds the queue mutation lock.
Prepares(c) ==
    /\ calls[c].at = "prepare"
    /\ radio' = [radio EXCEPT !.row = calls[c].cursor]
    /\ Go(c, [calls[c] EXCEPT !.at = "prepared"])
    /\ UNCHANGED <<logs, pointer, flight, playable, clock, claimed, left>>

PrepareFails(c) ==
    /\ calls[c].at = "prepare"
    /\ Spend("fail")
    /\ Fails(c)
    /\ UNCHANGED <<logs, pointer, radio, playable, clock, claimed>>

Prepared(c) ==
    /\ calls[c].at = "prepared"
    /\ radio' = [radio EXCEPT !.mem = calls[c].cursor]
    /\ flight' = StopBegun(flight)
    /\ Go(c, Stopping(calls[c], flight, TRUE, "resume"))
    /\ UNCHANGED <<logs, pointer, playable, clock, claimed, left>>

\* Mutant of Resumed: the cursor is moved although the block had moved it.
ResumedPast(r) == RotationStarts([r EXCEPT !.mem.cursor = @ + 1])

\* resumeContinuousRotation
Resumed(r) == RotationStarts(r)

Resumes(c) ==
    /\ calls[c].at = "resume"
    /\ radio' = IF OwnsAir(flight) THEN radio ELSE Resumed(radio)
    /\ Go(c, Returned(calls[c]))
    /\ UNCHANGED <<logs, pointer, flight, playable, clock, claimed, left>>

--------------------------------------------------------------------------------
\* start

StartReads(c) ==
    /\ calls[c].at = "start"
    /\ IF /\ pointer # None /\ logs[pointer].exists /\ logs[pointer].items # <<>>
          /\ logs[pointer].sched = Unclocked \/ logs[pointer].published
       THEN /\ Go(c, [calls[c] EXCEPT !.at = "starting", !.log = pointer,
                                      !.snap = logs[pointer]])
            /\ UNCHANGED flight
       ELSE Fails(c)
    /\ UNCHANGED <<logs, pointer, radio, playable, clock, claimed, left>>

\* Mutant of FirstIndex: before the first item.
BeforeFirst == 0

\* activeIndex of a new runtime.
FirstIndex == 1

\* The runtime is made and put in the map; the row is marked as started, or the
\* runtime persisted when that is not needed.
Launch(c) ==
    LET call == calls[c]
        row  == call.snap
        mark == row.sched # Unclocked /\ ~row.started
    IN  /\ flight' = [flight EXCEPT
                !.rts = Append(@, [log |-> call.log, items |-> row.items, loop |-> row.loop,
                                   sched |-> row.sched, index |-> FirstIndex, running |-> TRUE, gen |-> 0,
                                   timer |-> NoTimer, waiting |-> FALSE, clipAt |-> Unset]),
                !.owner = Len(flight.rts) + 1]
        /\ logs' = IF mark THEN [logs EXCEPT ![call.log].started = TRUE]
                   ELSE [logs EXCEPT ![call.log].running = TRUE]
        /\ Go(c, [call EXCEPT !.at = IF mark THEN "persist" ELSE "announce",
                              !.rt = Len(flight.rts) + 1])

StartChecks(c) ==
    /\ calls[c].at = "starting"
    /\ LET clocked == calls[c].snap.sched # Unclocked
       IN  IF clocked /\ ~Ready(calls[c].snap.items)
           THEN Fails(c) /\ UNCHANGED logs
           ELSE IF ~clocked \/ flight.owner # 0
           THEN /\ flight' = StopBegun(flight)
                /\ Go(c, Stopping(calls[c], flight, clocked, "launch"))
                /\ UNCHANGED logs
           ELSE Launch(c)
    /\ UNCHANGED <<pointer, radio, playable, clock, claimed, left>>

StartLaunches(c) ==
    /\ calls[c].at = "launch"
    /\ Launch(c)
    /\ UNCHANGED <<pointer, radio, playable, clock, claimed, left>>

StartPersists(c) ==
    /\ calls[c].at = "persist"
    /\ logs' = [logs EXCEPT ![calls[c].log].running = flight.rts[calls[c].rt].running]
    /\ Go(c, [calls[c] EXCEPT !.at = "announce"])
    /\ UNCHANGED <<pointer, flight, radio, playable, clock, claimed, left>>

\* The first cue is executed under the generation of this runtime.
StartAnnounces(c) ==
    /\ calls[c].at = "announce"
    /\ flight' = Requested(flight, calls[c].rt, flight.rts[calls[c].rt].gen, 1)
    /\ Go(c, Returned(calls[c]))
    /\ UNCHANGED <<logs, pointer, radio, playable, clock, claimed, left>>

--------------------------------------------------------------------------------
\* activate, deactivate, reset, delete, publish

ActivateReads(c) ==
    /\ calls[c].at = "activate"
    /\ LET row == logs[calls[c].log]
       IN  IF row.exists /\ (row.sched = Unclocked \/ row.published)
           THEN /\ Go(c, [calls[c] EXCEPT !.at = "activating", !.snap = row])
                /\ UNCHANGED flight
           ELSE Fails(c)
    /\ UNCHANGED <<logs, pointer, radio, playable, clock, claimed, left>>

\* runtimes.delete: whatever runtime the map holds by now.
Unmapped(f) == [f EXCEPT !.owner = 0]

Point(c) ==
    /\ flight' = Unmapped(flight)
    /\ pointer' = calls[c].log
    /\ Go(c, [calls[c] EXCEPT !.at = "unmark"])

ActivateChecks(c) ==
    /\ calls[c].at = "activating"
    /\ LET clocked == calls[c].snap.sched # Unclocked
       IN  IF clocked /\ ~Ready(calls[c].snap.items)
           THEN Fails(c) /\ UNCHANGED pointer
           ELSE IF ~clocked \/ flight.owner # 0
           THEN /\ flight' = StopBegun(flight)
                /\ Go(c, Stopping(calls[c], flight, clocked, "point"))
                /\ UNCHANGED pointer
           ELSE Point(c)
    /\ UNCHANGED <<logs, radio, playable, clock, claimed, left>>

ActivatePoints(c) ==
    /\ calls[c].at = "point"
    /\ Point(c)
    /\ UNCHANGED <<logs, radio, playable, clock, claimed, left>>

\* The scheduler starts what it activated.
ActivateUnmarks(c) ==
    /\ calls[c].at = "unmark"
    /\ logs' = [logs EXCEPT ![calls[c].log].running = FALSE]
    /\ Go(c, IF c = "scheduler" THEN [calls[c] EXCEPT !.at = "start"] ELSE Idle)
    /\ UNCHANGED <<pointer, flight, radio, playable, clock, claimed, left>>

DeactivateEnds(c) ==
    /\ calls[c].at = "unpoint"
    /\ flight' = Unmapped(flight)
    /\ pointer' = None
    /\ Go(c, Idle)
    /\ UNCHANGED <<logs, radio, playable, clock, claimed, left>>

\* reset, after its stop; `was` remembers whether it was running.
ResetRewinds(c) ==
    /\ calls[c].at = "rewind"
    /\ logs' = IF pointer = None THEN logs ELSE [logs EXCEPT ![pointer].running = FALSE]
    /\ Go(c, IF calls[c].was = None THEN Idle ELSE [Idle EXCEPT !.at = "start"])
    /\ UNCHANGED <<pointer, flight, radio, playable, clock, claimed, left>>

\* deleteFlightSequence: of a log that runs (forget), or not (unlist).
DeleteUnlists(c) ==
    /\ calls[c].at \in {"forget", "unlist"}
    /\ flight' = IF calls[c].at = "forget" THEN Unmapped(flight) ELSE flight
    /\ logs' = [logs EXCEPT ![calls[c].log].exists = FALSE]
    /\ Go(c, IF calls[c].was = calls[c].log THEN [calls[c] EXCEPT !.at = "unpointDeleted"]
             ELSE Idle)
    /\ UNCHANGED <<pointer, radio, playable, clock, claimed, left>>

DeleteUnpoints(c) ==
    /\ calls[c].at = "unpointDeleted"
    /\ pointer' = None
    /\ Go(c, Idle)
    /\ UNCHANGED <<logs, flight, radio, playable, clock, claimed, left>>

\* The write of publishFlightSequence, conditional on the revision it checked.
PublishWrites(c) ==
    /\ calls[c].at = "publishing"
    /\ LET l == calls[c].log
       IN  logs' = IF /\ Ready(calls[c].snap.items)
                      /\ logs[l].exists /\ logs[l].rev = calls[c].snap.rev
                   THEN [logs EXCEPT ![l].published = TRUE, ![l].rev = @ + 1] ELSE logs
    /\ Go(c, Idle)
    /\ UNCHANGED <<pointer, flight, radio, playable, clock, claimed, left>>

--------------------------------------------------------------------------------
\* Requests of an operator

Asks == calls["operator"].at = "idle" /\ Spend("operate")
Answered(call) == Go("operator", call)
Quiet == UNCHANGED <<logs, pointer, radio, playable, clock, claimed>>

AskStart == Asks /\ Answered([Idle EXCEPT !.at = "start"]) /\ UNCHANGED flight /\ Quiet

AskStop ==
    /\ Asks
    /\ flight' = StopBegun(flight)
    /\ Answered(Stopping(Idle, flight, FALSE, "end"))
    /\ Quiet

AskReset ==
    /\ Asks
    /\ flight' = StopBegun(flight)
    /\ LET call == Stopping(Idle, flight, FALSE, "rewind")
       IN  Answered(IF IsRunning(flight)
                    THEN [call EXCEPT !.was = flight.rts[flight.owner].log] ELSE call)
    /\ Quiet

AskDeactivate ==
    /\ Asks
    /\ flight' = StopBegun(flight)
    /\ Answered(Stopping(Idle, flight, FALSE, "unpoint"))
    /\ Quiet

AskActivate(l) ==
    /\ Asks
    /\ Answered([Idle EXCEPT !.at = "activate", !.log = l])
    /\ UNCHANGED flight /\ Quiet

AskDelete(l) ==
    /\ logs[l].exists
    /\ Asks
    /\ LET call == [Idle EXCEPT !.log = l, !.was = pointer]
       IN  IF flight.owner # 0 /\ flight.rts[flight.owner].log = l
           THEN /\ flight' = StopBegun(flight)
                /\ Answered(Stopping(call, flight, FALSE, "forget"))
           ELSE /\ UNCHANGED flight
                /\ Answered([call EXCEPT !.at = "unlist"])
    /\ Quiet

AskPublish(l) ==
    /\ logs[l].exists /\ logs[l].sched > clock /\ ~logs[l].loop
    /\ Asks
    /\ Answered([Idle EXCEPT !.at = "publishing", !.log = l, !.snap = logs[l]])
    /\ UNCHANGED flight /\ Quiet

\* go: start what does not run, refuse before the scheduled start, else the next cue.
AskGo ==
    /\ Asks
    /\ LET r == flight.owner
           f == Bumped(flight, r)
       IN  IF ~IsRunning(flight)
           THEN Answered([Idle EXCEPT !.at = "start"]) /\ UNCHANGED flight
           ELSE /\ clock >= flight.rts[r].sched
                /\ flight' = MovedOn(f, r)
                /\ calls' = Spawned(calls, "operator", f, r)
    /\ Quiet

\* A save waits in cueOperations with the revision the operator loaded.
AskEdit(l, items) ==
    /\ Spend("edit")
    /\ flight' = [flight EXCEPT !.lock =
           Append(@, [op |-> "edit", rt |-> 0, gen |-> logs[l].rev, index |-> 0,
                      log |-> l, items |-> items])]
    /\ UNCHANGED calls /\ Quiet

--------------------------------------------------------------------------------
\* startDuePublishedLogs

DueNow == {l \in Logs : /\ logs[l].exists /\ logs[l].published /\ ~logs[l].started
                        /\ logs[l].sched # Unclocked
                        /\ logs[l].sched <= clock /\ clock <= logs[l].sched + Window}

Poll ==
    /\ calls["scheduler"].at = "idle" /\ DueNow # {}
    /\ Go("scheduler", ClaimNext(DueNow))
    /\ UNCHANGED <<logs, pointer, flight, radio, playable, clock, claimed, left>>

\* Mutant of ClaimableNow: the claim does not ask again whether it was started.
ClaimableAgain(row) == row.exists /\ row.published

\* The condition of the claiming update.
ClaimableNow(row) == row.exists /\ row.published /\ ~row.started

\* The conditional update, then activateFlightSequence and start.  The scheduler's
\* own preflight is merged with the one of the activation that follows it.
Claims(l) ==
    /\ calls["scheduler"].at = "claim" /\ l \in calls["scheduler"].due
    /\ LET due == calls["scheduler"].due \ {l}
       IN  IF ClaimableNow(logs[l])
           THEN /\ logs' = [logs EXCEPT ![l].started = TRUE]
                /\ claimed' = [claimed EXCEPT ![l] = @ + 1]
                /\ Go("scheduler", [Idle EXCEPT !.at = "activate", !.log = l, !.due = due])
           ELSE Go("scheduler", ClaimNext(due)) /\ UNCHANGED <<logs, claimed>>
    /\ UNCHANGED <<pointer, flight, radio, playable, clock, left>>

--------------------------------------------------------------------------------
\* cueOperations: one operation of the program at a time

TurnFree == calls["turn"].at = "idle" /\ flight.lock # <<>>
NextTurn == Head(flight.lock)
Taken(f) == [f EXCEPT !.lock = Tail(@)]

\* executeCueAtIndexUnlocked is for a runtime that was replaced, stopped or moved on.
Stale(f, r, gen) == f.owner # r \/ f.rts[r].gen # gen \/ ~f.rts[r].running

\* A loop that an edit shortened starts again.
Aimed(turn) == IF turn.index > Len(flight.rts[turn.rt].items) /\ flight.rts[turn.rt].loop
               THEN 1 ELSE turn.index

CueDropped ==
    /\ TurnFree /\ NextTurn.op = "cue"
    /\ Stale(flight, NextTurn.rt, NextTurn.gen)
    /\ flight' = Taken(flight)
    /\ UNCHANGED <<logs, pointer, calls, radio, playable, clock, claimed, left>>

\* Past the last item (an edit shortened the list).
CueOutOfRange ==
    /\ TurnFree /\ NextTurn.op = "cue"
    /\ LET r == NextTurn.rt
       IN  /\ ~Stale(flight, r, NextTurn.gen)
           /\ Aimed(NextTurn) > Len(flight.rts[r].items)
           /\ flight' = FinishBegun(Taken(flight), r)
           /\ Go("turn", Finishing(Idle, flight, r))
    /\ UNCHANGED <<logs, pointer, radio, playable, clock, claimed, left>>

\* A fixed start that is not due yet: come back then.
Early(rt, cue) == rt.sched # Unclocked /\ Fixed(cue) /\ DueAt(rt, cue) > clock

\* The song on the air is cut before a clocked song or a clip of known length.
CutsFirst(rt, cue) ==
    rt.sched # Unclocked /\ (cue.kind = "song" \/ (cue.kind = "clip" /\ cue.ms > 0))

CueHeld ==
    /\ TurnFree /\ NextTurn.op = "cue"
    /\ LET r  == NextTurn.rt
           rt == flight.rts[r]
       IN  /\ ~Stale(flight, r, NextTurn.gen) /\ Aimed(NextTurn) <= Len(rt.items)
           /\ Early(rt, rt.items[Aimed(NextTurn)])
           /\ flight' = Armed(Taken(flight), r,
                              Timer(flight, r, "hold", Aimed(NextTurn),
                                    DueAt(rt, rt.items[Aimed(NextTurn)])))
    /\ UNCHANGED <<logs, pointer, calls, radio, playable, clock, claimed, left>>

\* The cursor moves to the cue and is persisted.
CueBegins ==
    /\ TurnFree /\ NextTurn.op = "cue"
    /\ LET r   == NextTurn.rt
           i   == Aimed(NextTurn)
           rt  == flight.rts[r]
           cue == rt.items[i]
       IN  /\ ~Stale(flight, r, NextTurn.gen) /\ i <= Len(rt.items) /\ ~Early(rt, cue)
           /\ flight' = [Taken(flight) EXCEPT !.rts[r].index = i, !.rts[r].waiting = FALSE]
           /\ logs' = [logs EXCEPT ![rt.log].running = TRUE]
           /\ Go("turn", [Idle EXCEPT !.at = IF CutsFirst(rt, cue) THEN "cut" ELSE "cue",
                                      !.rt = r, !.gen = NextTurn.gen, !.keep = TRUE,
                                      !.then = "cue", !.items = <<cue>>,
                                      !.on = IF rt.sched # Unclocked THEN "cueFailed" ELSE "ignore"])
    /\ UNCHANGED <<pointer, radio, playable, clock, claimed, left>>

Turn == calls["turn"]
TurnCue == Turn.items[1]

\* What follows the execution of a cue, unless the runtime moved on meanwhile.
AfterCue(f, r, cue) ==
    LET rt == f.rts[r]
    IN  IF rt.sched # Unclocked /\ cue.kind = "song"
        THEN HardArmed([f EXCEPT !.rts[r].waiting = TRUE], r)
        ELSE IF rt.sched # Unclocked /\ cue.kind = "clip" /\ cue.ms > 0
        THEN ClipArmed([f EXCEPT !.rts[r].clipAt = clock], r)
        ELSE IF cue.kind = "wait"
        THEN Armed(f, r, Timer(f, r, "wait", 0, clock + cue.ms))
        ELSE IF cue.kind = "songEnd"
        THEN LET g == [f EXCEPT !.rts[r].waiting = TRUE]
             IN  Armed(g, r, Timer(g, r, "songEnd", 0, clock + SongEndTimeout))
        ELSE IF f.owner = r THEN MovedOn(f, r) ELSE f

Waits(rt, cue) == \/ cue.kind \in {"wait", "songEnd"}
                  \/ rt.sched # Unclocked /\ CutsFirst(rt, cue)

TurnEnds(f) ==
    LET r  == Turn.rt
        k  == [calls EXCEPT !["turn"] = Idle]
        on == f.rts[r].gen = Turn.gen /\ f.rts[r].running
        moves == on /\ f.owner = r /\ ~Waits(f.rts[r], TurnCue)
    IN  /\ flight' = IF on THEN AfterCue(f, r, TurnCue) ELSE f
        /\ moves => MayMove("advance", f, r)
        /\ calls' = IF moves THEN Spawned(k, "advance", f, r) ELSE k

\* A song or clip that is no longer playable: a clocked log stops, an operator's
\* sequence goes on.
CueUnplayable ==
    /\ Turn.at = "cue" /\ TurnCue.kind \in {"song", "clip"} /\ TurnCue.id \notin playable
    /\ IF Turn.on = "cueFailed" THEN Fails("turn") ELSE TurnEnds(flight)
    /\ UNCHANGED <<logs, pointer, radio, playable, clock, claimed, left>>

\* executePlaySongCue: outside a clocked log the song replaces the rotation.
CueTakesSong ==
    /\ Turn.at = "cue" /\ TurnCue.kind = "song" /\ TurnCue.id \in playable
    /\ radio' = Takes(IF OwnsAir(flight) THEN radio ELSE MemStopped(RowStopped(radio)),
                      Turn.rt, flight.rts[Turn.rt].index)
    /\ TurnEnds(flight)
    /\ UNCHANGED <<logs, pointer, playable, clock, claimed, left>>

CueStopsSong ==
    /\ Turn.at = "cue" /\ TurnCue.kind = "stop"
    /\ Go("turn", [Turn EXCEPT !.at = "cut", !.keep = OwnsAir(flight), !.then = "after"])
    /\ UNCHANGED <<logs, pointer, flight, radio, playable, clock, claimed, left>>

CueNeedsNoAir ==
    /\ \/ Turn.at = "after"
       \/ Turn.at = "cue" /\ (\/ TurnCue.kind \in {"wait", "songEnd", "plain"}
                              \/ TurnCue.kind = "clip" /\ TurnCue.id \in playable)
    /\ TurnEnds(flight)
    /\ UNCHANGED <<logs, pointer, radio, playable, clock, claimed, left>>

\* Mutant of PlayedKept: the cue on the air is left out.
PlayedKeptBefore(rt, old, new) ==
    LET n == rt.index - 1
    IN  Len(new) >= n /\ SubSeq(new, 1, n) = SubSeq(old, 1, n)

\* updateFlightSequenceUnlocked: what it reads, checks and captures.
PlayedKept(rt, old, new) ==
    Len(new) >= rt.index /\ SubSeq(new, 1, rt.index) = SubSeq(old, 1, rt.index)

EditAllowed(row, l, edit) ==
    /\ row.exists
    /\ row.sched # Unclocked => /\ edit.gen = row.rev
                                /\ row.started => IsRunning(flight)
                                /\ ClockItems(edit.items)
    /\ IsRunning(flight) /\ flight.rts[flight.owner].log = l
          => PlayedKept(flight.rts[flight.owner], row.items, edit.items)

EditBegins ==
    /\ TurnFree /\ NextTurn.op = "edit"
    /\ flight' = Taken(flight)
    /\ LET l == NextTurn.log
           r == flight.owner
       IN  IF EditAllowed(logs[l], l, NextTurn)
           THEN Go("turn", [Idle EXCEPT !.at = "editing", !.log = l, !.snap = logs[l],
                                        !.items = NextTurn.items,
                                        !.rt = IF r # 0 /\ flight.rts[r].log = l THEN r ELSE 0])
           ELSE UNCHANGED calls
    /\ UNCHANGED <<logs, pointer, radio, playable, clock, claimed, left>>

EditWrites ==
    /\ Turn.at = "editing"
    /\ IF /\ Turn.snap.published => Ready(Turn.items)
          /\ logs[Turn.log].exists /\ logs[Turn.log].rev = Turn.snap.rev
       THEN /\ logs' = [logs EXCEPT ![Turn.log].items = Turn.items, ![Turn.log].rev = @ + 1]
            /\ Go("turn", [Turn EXCEPT !.at = "edited"])
       ELSE Go("turn", Idle) /\ UNCHANGED logs
    /\ UNCHANGED <<pointer, flight, radio, playable, clock, claimed, left>>

\* The running log takes the new items and its timer is armed again.
EditApplies ==
    /\ Turn.at = "edited"
    /\ Go("turn", Idle)
    /\ LET r == Turn.rt
           f == [flight EXCEPT !.rts[r].items = Turn.items]
           cue == Turn.items[f.rts[r].index]
       IN  flight' = IF r = 0 \/ ~flight.rts[r].running THEN flight
                     ELSE IF f.rts[r].waiting THEN HardArmed(f, r)
                     ELSE IF f.rts[r].index <= Len(Turn.items) /\ cue.kind = "clip" /\ cue.ms > 0
                     THEN ClipArmed(f, r) ELSE f
    /\ UNCHANGED <<logs, pointer, radio, playable, clock, claimed, left>>

--------------------------------------------------------------------------------
\* Timers

Expires(t) == t \in flight.timers /\ t.due <= clock

OnlyFlight == UNCHANGED <<logs, pointer, radio, playable, clock, claimed, left>>

HoldFires(t) ==
    /\ Expires(t) /\ t.kind = "hold"
    /\ flight' = Requested(Fired(flight, t), t.rt, t.gen, t.cue)
    /\ UNCHANGED calls /\ OnlyFlight

\* advance, after a wait cue.
WaitFires(t) ==
    /\ Expires(t) /\ t.kind = "wait"
    /\ LET f == Fired(flight, t)
       IN  IF Stale(f, t.rt, t.gen) THEN flight' = f /\ UNCHANGED calls
           ELSE /\ MayMove("advance", f, t.rt)
                /\ flight' = MovedOn(f, t.rt)
                /\ calls' = Spawned(calls, "advance", f, t.rt)
    /\ OnlyFlight

\* No song end within five minutes: whichever runtime is mapped by then moves on.
SongEndTimesOut(t) ==
    /\ Expires(t) /\ t.kind = "songEnd"
    /\ LET f == Fired(flight, t)
           r == f.owner
           g == [f EXCEPT !.rts[r].waiting = FALSE, !.rts[r].gen = @ + 1]
       IN  IF r = 0 \/ ~f.rts[r].waiting THEN flight' = f /\ UNCHANGED calls
           ELSE IF ~f.rts[r].running THEN flight' = g /\ UNCHANGED calls
           ELSE /\ MayMove("advance", g, r)
                /\ flight' = MovedOn(g, r)
                /\ calls' = Spawned(calls, "advance", g, r)
    /\ OnlyFlight

ClipFires(t) ==
    /\ Expires(t) /\ t.kind = "clip"
    /\ LET f  == Fired(flight, t)
           rt == f.rts[t.rt]
           i  == IF t.cue = 0 THEN rt.index + 1 ELSE RowOf(rt.items, t.cue)
       IN  flight' = IF Stale(f, t.rt, t.gen) \/ i <= rt.index THEN f
                     ELSE Requested(f, t.rt, t.gen, i)
    /\ UNCHANGED calls /\ OnlyFlight

\* A fixed start is due while a song plays: its cue is executed in a new generation.
HardFires(t) ==
    /\ Expires(t) /\ t.kind = "hard"
    /\ LET f  == Fired(flight, t)
           rt == f.rts[t.rt]
           i  == RowOf(rt.items, t.cue)
           g  == [f EXCEPT !.rts[t.rt].waiting = FALSE, !.rts[t.rt].gen = @ + 1]
       IN  flight' = IF f.owner # t.rt \/ rt.gen # t.gen \/ ~rt.waiting \/ i <= rt.index THEN f
                     ELSE Requested(g, t.rt, t.gen + 1, i)
    /\ UNCHANGED calls /\ OnlyFlight

--------------------------------------------------------------------------------
\* The radio

\* handleSongEnded of the flight service.
SongEnded ==
    LET r == flight.owner
        f == Bumped(flight, r)
    IN  IF IsRunning(flight) /\ flight.rts[r].waiting
        THEN /\ MayMove("song", f, r)
             /\ flight' = MovedOn(f, r)
             /\ calls' = Spawned(calls, "song", f, r)
        ELSE UNCHANGED <<flight, calls>>

TrackEnds ==
    /\ radio.onAir # 0
    /\ Spend(IF IsRotation(radio, radio.onAir) THEN "rotation" ELSE "song")
    /\ radio' = Silenced(radio)
    /\ UNCHANGED <<logs, pointer, flight, calls, playable, clock, claimed>>

\* track.ended reaches the engine, which asks the flight service who owns the air.
EndArrives(n) ==
    /\ n \in radio.ended
    /\ LET r == [radio EXCEPT !.ended = @ \ {n}]
       IN  IF radio.active # n THEN radio' = r /\ UNCHANGED <<flight, calls>>
           ELSE /\ radio' = IF OwnsAir(flight) THEN [r EXCEPT !.active = 0] ELSE Continues(r, n)
                /\ SongEnded
    /\ UNCHANGED <<logs, pointer, playable, clock, claimed, left>>

\* A snapshot of the idle appliance lets the rotation start.
IdleSnapshot ==
    /\ radio.onAir = 0 /\ radio.ended = {} /\ radio.active = 0 /\ radio.mem.auto
    /\ ~OwnsAir(flight)
    /\ radio' = RotationStarts(radio)
    /\ UNCHANGED <<logs, pointer, flight, calls, playable, clock, claimed, left>>

--------------------------------------------------------------------------------
\* Environment

\* Time stands still at MaxClock, or at twice that when a timer still has to fire.
Ticks ==
    /\ clock < 2 * MaxClock
    /\ clock < MaxClock \/ \E t \in flight.timers : t.due > clock
    /\ clock' = clock + 1
    /\ UNCHANGED <<logs, pointer, flight, calls, radio, playable, claimed, left>>

Disable(m) ==
    /\ m \in playable
    /\ Spend("disable")
    /\ playable' = playable \ {m}
    /\ UNCHANGED <<logs, pointer, flight, calls, radio, clock, claimed>>

\* Mutant of Interrupted: rows are left as they were.
NotInterrupted(row) == row

\* onModuleInit marks clocked logs that were running as interrupted.
Interrupted(row) == [row EXCEPT !.running = @ /\ row.sched = Unclocked]

\* The process restarts: memory, timers and calls are gone.
Restart ==
    /\ Spend("crash")
    /\ flight' = [rts |-> [r \in DOMAIN flight.rts |->
                             [flight.rts[r] EXCEPT !.running = FALSE, !.timer = NoTimer]],
                  owner |-> 0, timers |-> {}, lock |-> <<>>]
    /\ calls' = [c \in Callers |-> Idle]
    /\ logs' = [l \in Logs |-> Interrupted(logs[l])]
    /\ radio' = Rebooted(radio)
    /\ UNCHANGED <<pointer, playable, clock, claimed>>

Stops(c) == StopMarks(c) \/ StopCuts(c) \/ StopForwards(c) \/ StopEnds(c)
Completes(c) == Prepares(c) \/ Prepared(c) \/ Resumes(c)
Starts(c) == StartReads(c) \/ StartChecks(c) \/ StartLaunches(c) \/ StartPersists(c)
             \/ StartAnnounces(c)
Manages(c) == \/ ActivateReads(c) \/ ActivateChecks(c) \/ ActivatePoints(c)
              \/ ActivateUnmarks(c) \/ DeactivateEnds(c) \/ ResetRewinds(c)
              \/ DeleteUnlists(c) \/ DeleteUnpoints(c) \/ PublishWrites(c)
Proceeds(c) == Stops(c) \/ Completes(c) \/ Starts(c) \/ Manages(c)
Schedules == Poll \/ \E l \in Logs : Claims(l)
Turns == \/ CueDropped \/ CueOutOfRange \/ CueHeld \/ CueBegins \/ CueUnplayable \/ CueTakesSong
         \/ CueStopsSong \/ CueNeedsNoAir \/ EditBegins \/ EditWrites \/ EditApplies
Timers == \E t \in flight.timers : \/ HoldFires(t) \/ WaitFires(t) \/ SongEndTimesOut(t)
                                   \/ ClipFires(t) \/ HardFires(t)
Reports == \E n \in radio.ended : EndArrives(n)

Operator == \/ AskStart \/ AskStop \/ AskReset \/ AskDeactivate \/ AskGo
            \/ \E l \in Logs : AskActivate(l) \/ AskDelete(l) \/ AskPublish(l)
            \/ \E l \in Logs, items \in Edits : AskEdit(l, items)
Faults == \/ Restart
          \/ \E c \in Callers : StopFails(c) \/ PrepareFails(c)
          \/ \E m \in Cues : Disable(m)

Next == \/ \E c \in Callers : Proceeds(c)
        \/ Schedules \/ Turns \/ Timers \/ Reports \/ IdleSnapshot
        \/ TrackEnds \/ Ticks \/ Operator \/ Faults

Spec == Init /\ [][Next]_vars

\* Promises settle, timers that are due fire, time passes, and the end of a track is
\* reported.  Nothing is assumed of operators, of faults, of how soon the scheduler
\* polls, or of the length of a song: one may play for ever.
FairSpec ==
    /\ Spec
    /\ \A c \in Callers : WF_vars(Proceeds(c))
    /\ WF_vars(Schedules) /\ WF_vars(Turns) /\ WF_vars(Timers)
    /\ WF_vars(Ticks) /\ WF_vars(Reports)

--------------------------------------------------------------------------------
\* Properties

\* Every variable keeps its type: rows, runtimes, timers, requests, calls, radio.
TypeOK ==
    /\ logs \in [Logs -> Row]
    /\ pointer \in Logs \cup {None}
    /\ flight.rts \in Seq(Runtime)
    /\ flight.owner \in 0..Len(flight.rts)
    /\ \A t \in flight.timers : t.rt \in DOMAIN flight.rts
    /\ \A i \in DOMAIN flight.lock :
          /\ flight.lock[i].op = "cue" => flight.lock[i].rt \in DOMAIN flight.rts
          /\ flight.lock[i].op = "edit" => flight.lock[i].log \in Logs
    /\ \A c \in Callers : /\ calls[c].held \in 0..Len(flight.rts)
                           /\ calls[c].target \in Logs \cup {None}
                           /\ calls[c].due \subseteq Logs
    /\ radio \in Radio
    /\ playable \subseteq Cues
    /\ clock \in 0..2 * MaxClock
    /\ claimed \in [Logs -> Nat]
    /\ left \in [Steps -> Nat]

\* No lost wake-up: the end that a waiting block needs in order to go on is still to
\* come.  The song it waits for is the one the engine believes on the air, and it
\* plays, or its end has not been delivered: no end was taken for another's, and no
\* filler was started over the song.
AwaitedEndComes ==
    LET r == flight.owner
        n == radio.active
    IN  IsRunning(flight) /\ Clocked(flight, r) /\ flight.rts[r].waiting
        => /\ n # 0 /\ radio.aired[n] = [rt |-> r, pos |-> flight.rts[r].index]
           /\ radio.onAir = n \/ n \in radio.ended

\* clearTimer reaches every timer a runtime has armed: no handle is overwritten
\* while its timer is pending, so a stop, a skip or an edit leaves none behind.
TimersAreHeld == \A t \in flight.timers : flight.rts[t.rt].timer = t

\* A runtime airs its cues in their order, none of them twice: not when a song's
\* end and a fixed start come together, nor when a command fails.
CuesAirInOrder ==
    \A i, j \in DOMAIN radio.aired :
        /\ i < j
        /\ radio.aired[i].rt = radio.aired[j].rt
        /\ radio.aired[i].rt # 0
        => radio.aired[i].pos < radio.aired[j].pos

\* The continuous rotation leaves no filler out: a block that interrupts it goes on
\* with the one that follows the filler it cut, over failures and restarts.
\* (prepareContinuousRotationResume and resumeContinuousRotation.)
NoFillerSkipped ==
    \A i, j \in DOMAIN radio.aired :
        /\ i < j
        /\ radio.aired[i].rt = 0 /\ radio.aired[j].rt = 0
        /\ \A k \in i+1..j-1 : radio.aired[k].rt # 0
        => radio.aired[j].pos <= radio.aired[i].pos + 1

\* Nothing in progress and nothing due.
Settled ==
    /\ \A c \in Callers : calls[c].at = "idle"
    /\ flight.lock = <<>>
    /\ \A t \in flight.timers : t.due > clock
    /\ radio.ended = {}

\* At rest, a row says isRunning exactly of the log that runs: no row is left
\* marked after a block completed, failed, or was cut off by a restart.
RunningRowRuns ==
    Settled => \A l \in Logs :
        logs[l].running <=> IsRunning(flight) /\ flight.rts[flight.owner].log = l

\* The scheduler claims a log once, before anything of it ever ran: not again after
\* a failed start, a restart, or an operator's own start that it raced with.
ClaimsAreFresh ==
    [][\A l \in Logs : claimed'[l] > claimed[l] =>
          claimed[l] = 0 /\ \A r \in DOMAIN flight.rts : flight.rts[r].log # l]_vars

Kept(n, old, new) == Len(new) >= n /\ SubSeq(new, 1, n) = SubSeq(old, 1, n)

\* A save that found the log running changes nothing up to the cue on the air, even
\* when the block moved on between the check of the save and its write.
PlayedItemsKept ==
    [][LET r == calls["turn"].rt
           l == flight.rts[r].log
       IN  /\ r # 0 /\ r = flight.owner /\ flight.rts[r].running
           /\ logs'[l].items # logs[l].items
           => Kept(flight.rts[r].index, logs[l].items, logs'[l].items)]_vars

\* What a clocked log plays is what its saved row lists up to the cue on the air.
\* (A save that began before the start breaks it, see the README.)
PlaysSavedItems ==
    OwnsAir(flight) =>
        LET rt == flight.rts[flight.owner]
        IN  Kept(rt.index, rt.items, logs[rt.log].items)

\* "Stopped/previously aired logs cannot be rewritten": the items of a log that was
\* started change only while that log runs.
AiredLogsAreFrozen ==
    [][\A l \in Logs :
          /\ logs[l].sched # Unclocked /\ logs[l].started
          /\ ~(flight.owner # 0 /\ flight.rts[flight.owner].log = l)
          => logs'[l].items = logs[l].items]_vars

\* No dead air: a clocked log that owns the air never leaves it silent for good. It
\* plays its next cue or gives the air back, whatever fails on the way.
NeverSilentForGood == []<>(~OwnsAir(flight) \/ radio.onAir # 0)

\* Item i of runtime r has a fixed start that is due and is still ahead of it.
Overdue(r, i) ==
    IF r \in DOMAIN flight.rts /\ i <= Len(flight.rts[r].items)
    THEN LET rt == flight.rts[r]
         IN  /\ rt.running /\ rt.index < i
             /\ Fixed(rt.items[i]) /\ DueAt(rt, rt.items[i]) <= clock
    ELSE FALSE

\* A fixed start that is due is taken, even while a song or a clip plays, unless
\* the block ends.  (armNextHardCue, armTimedClip and the hold of a fixed cue.)
FixedStartsTaken ==
    \A r \in 1..Cardinality(Logs), i \in 1..Cardinality(Cues) :
        Overdue(r, i) ~> ~Overdue(r, i)
================================================================================
