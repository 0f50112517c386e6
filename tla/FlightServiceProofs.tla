-------------------------- MODULE FlightServiceProofs --------------------------
(***************************************************************************)
(* Type correctness of FlightService, the scheduler's one claim of each    *)
(* log, the saves that keep what was played and, without requests of       *)
(* operators, cues in order and timers that are held: for all logs, cues,  *)
(* initial rows, edits, budgets and bounds of the clock.                   *)
(***************************************************************************)
EXTENDS FlightService, SequenceTheorems, WellFoundedInduction, TLAPS

--------------------------------------------------------------------------------
\* Types, stronger than TypeOK: what the steps rely on.

\* A runtime whose clip started belongs to a clocked log: armTimedClip needs both.
Run == {rt \in Runtime : rt.clipAt # Unset => rt.sched # Unclocked}

\* With n runtimes made so far: a timer names one of them, and a held cue's timer
\* the row to execute.
Armable(n) == {t \in TimerRecord : t.rt \in 1..n /\ (t.kind = "hold" => t.cue \in Nat \ {0})}

\* What waits in cueOperations: a cue of a runtime, or a save of a log.
Request == [op : {"cue", "edit"}, rt : Nat, gen : Nat, index : Nat,
            log : Logs \cup {None}, items : Seq(Cue)]
Waiting(n) == {q \in Request : IF q.op = "cue" THEN q.rt \in 1..n /\ q.index # 0
                               ELSE q.log \in Logs}

Memory(n) == [rts : Seq(Run), owner : 0..n, timers : SUBSET Armable(n),
              lock : Seq(Waiting(n))]
IsMemory(f) == f \in Memory(Len(f.rts))

\* What a call is in the middle of: the stop that it contains is looked through.
Stage(k) == IF k.at \in {"mark", "cut", "cutting", "cutDone"} THEN k.then ELSE k.at

\* The stages of a call that is about a log, those about a runtime, and those of a
\* cue in execution.
OfLog == {"starting", "launch", "persist", "announce", "activate", "activating", "point",
          "unmark", "forget", "unlist", "unpointDeleted", "publishing", "editing", "edited"}
OfRuntime == {"persist", "announce", "cue", "after"}
OfCue == {"cue", "after"}

Labels == {"idle", "claim", "mark", "cut", "cutting", "cutDone", "prepare", "prepared",
           "resume", "start", "rewind", "unpoint", "end"} \cup OfLog \cup OfRuntime
Aims == Labels \ {"editing"}
Outcomes == {"end", "finishFailed", "cueFailed", "ignore"}

CallRecord(n) ==
    [at : Labels, on : Outcomes, log : Logs \cup {None}, snap : Row, rt : 0..n, gen : Nat,
     items : Seq(Cue), due : SUBSET Logs, cursor : Sequencing, was : Logs \cup {None},
     keep : BOOLEAN, held : 0..n, target : Logs \cup {None}, then : Aims]
Call(n) == {k \in CallRecord(n) : /\ Stage(k) \in OfLog => k.log \in Logs
                                  /\ Stage(k) \in OfRuntime => k.rt # 0
                                  /\ Stage(k) \in OfCue => k.items # <<>>}

\* The cue in execution is an item of its runtime.
CueIsListed == Stage(calls["turn"]) \in OfCue =>
    flight.rts[calls["turn"].rt].index <= Len(flight.rts[calls["turn"].rt].items)

TypeInv ==
    /\ logs \in [Logs -> Row]
    /\ pointer \in Logs \cup {None}
    /\ IsMemory(flight)
    /\ calls \in [Callers -> Call(Len(flight.rts))]
    /\ CueIsListed
    /\ radio \in Radio
    /\ playable \subseteq Cues
    /\ clock \in 0..2 * MaxClock
    /\ claimed \in [Logs -> Nat]
    /\ left \in [Steps -> Nat]

\* TypeInv says at least what the runs check.
LEMMA TypeInvIsTyped == TypeInv => TypeOK
  <1> SUFFICES ASSUME TypeInv PROVE TypeOK
    OBVIOUS
  <1> USE DEF TypeInv
  <1>1. flight.rts \in Seq(Runtime) /\ flight.owner \in 0..Len(flight.rts)
    <2>1. Run \subseteq Runtime
      BY DEF Run
    <2> QED BY <2>1, SeqMonotonic DEF IsMemory, Memory
  <1>2. \A t \in flight.timers : t.rt \in DOMAIN flight.rts
    BY <1>1, LenProperties DEF IsMemory, Memory, Armable
  <1>3. \A i \in DOMAIN flight.lock :
          /\ flight.lock[i].op = "cue" => flight.lock[i].rt \in DOMAIN flight.rts
          /\ flight.lock[i].op = "edit" => flight.lock[i].log \in Logs
    <2> SUFFICES ASSUME NEW i \in DOMAIN flight.lock
                 PROVE  /\ flight.lock[i].op = "cue" => flight.lock[i].rt \in DOMAIN flight.rts
                        /\ flight.lock[i].op = "edit" => flight.lock[i].log \in Logs
      OBVIOUS
    <2>1. flight.lock[i] \in Waiting(Len(flight.rts))
      BY LenProperties, ElementOfSeq DEF IsMemory, Memory
    <2> QED BY <1>1, <2>1, LenProperties DEF Waiting
  <1>4. \A c \in Callers : /\ calls[c].held \in 0..Len(flight.rts)
                           /\ calls[c].target \in Logs \cup {None}
                           /\ calls[c].due \subseteq Logs
    BY DEF Call, CallRecord
  <1> QED BY <1>1, <1>2, <1>3, <1>4 DEF TypeOK

--------------------------------------------------------------------------------
\* Sequences and naturals

\* A set of naturals has a least element.
LEMMA LeastNatural ==
    ASSUME NEW T, T \subseteq Nat, T # {}
    PROVE  \E i \in T : \A j \in T : i <= j
  <1> DEFINE R == OpToRel(<, Nat)
  <1>1. IsWellFoundedOn(R, Nat)
    BY NatLessThanWellFounded, Zenon
  <1>2. \A x \in Nat, y \in Nat : y < x => <<y, x>> \in R
    BY DEF OpToRel
  <1> HIDE DEF R
  <1>3. PICK x \in T : \A y \in T : ~(<<y, x>> \in R)
    BY <1>1, WFMin, Zenon
  <1>4. x \in Nat /\ \A y \in T : y \in Nat /\ ~(y < x)
    BY <1>2, <1>3
  <1> QED BY <1>4

\* One element of a sequence replaced.
LEMMA Replaced ==
    ASSUME NEW S, NEW s \in Seq(S), NEW i \in 1..Len(s), NEW v \in S
    PROVE  /\ [s EXCEPT ![i] = v] \in Seq(S)
           /\ Len([s EXCEPT ![i] = v]) = Len(s)
           /\ \A j \in 1..Len(s) : [s EXCEPT ![i] = v][j] = IF j = i THEN v ELSE s[j]
  BY ExceptSeq, LenProperties

\* The next fixed item is one of the items that follow.
LEMMA FirstFixedType ==
    ASSUME NEW rt \in Runtime, NextFixed(rt) # {}
    PROVE  /\ FirstFixed(rt) \in NextFixed(rt)
           /\ FirstFixed(rt) \in 1..Len(rt.items)
           /\ rt.items[FirstFixed(rt)] \in Cue
           /\ Fixed(rt.items[FirstFixed(rt)])
  <1>1. rt.items \in Seq(Cue) /\ Len(rt.items) \in Nat
    BY LenProperties DEF Runtime
  <1>2. NextFixed(rt) \subseteq Nat
    BY <1>1 DEF NextFixed, Rows
  <1>3. FirstFixed(rt) \in NextFixed(rt)
    BY <1>2, LeastNatural DEF FirstFixed
  <1>4. FirstFixed(rt) \in 1..Len(rt.items) /\ Fixed(rt.items[FirstFixed(rt)])
    BY <1>3 DEF NextFixed, Rows
  <1> QED BY <1>1, <1>3, <1>4, ElementOfSeq

\* The start of a fixed item of a clocked runtime.
LEMMA DueAtType ==
    ASSUME NEW rt \in Runtime, rt.sched # Unclocked, NEW cue \in Cue, Fixed(cue)
    PROVE  DueAt(rt, cue) \in Nat
  BY DEF DueAt, Fixed, Runtime, Cue, Unclocked, Unset

--------------------------------------------------------------------------------
\* The memory of the service

\* g has the runtimes of f where they were, and none that runs again.
SameRuns(f, g) ==
    /\ Len(g.rts) = Len(f.rts)
    /\ \A r \in 1..Len(f.rts) :
          /\ g.rts[r].log = f.rts[r].log
          /\ g.rts[r].items = f.rts[r].items
          /\ g.rts[r].sched = f.rts[r].sched
          /\ g.rts[r].index = f.rts[r].index
          /\ g.rts[r].running => f.rts[r].running

Becomes(f, g) == IsMemory(g) /\ SameRuns(f, g)

LEMMA BecomesTransitive ==
    ASSUME NEW f, NEW g, NEW h, Becomes(f, g), Becomes(g, h)
    PROVE  Becomes(f, h)
  BY DEF Becomes, SameRuns

LEMMA BecomesReflexive ==
    ASSUME NEW f, IsMemory(f)
    PROVE  Becomes(f, f)
  BY DEF Becomes, SameRuns

\* What a runtime is.
LEMMA RunType ==
    ASSUME NEW f, IsMemory(f), NEW r \in 1..Len(f.rts)
    PROVE  /\ f.rts \in Seq(Run) /\ Len(f.rts) \in Nat
           /\ f.rts[r] \in Run /\ f.rts[r] \in Runtime
  <1>1. f.rts \in Seq(Run)
    BY DEF IsMemory, Memory
  <1> QED BY <1>1, LenProperties, ElementOfSeq DEF Run

\* A runtime that differs in what a step may change.
Alike(old, new) ==
    /\ new \in Run
    /\ new.log = old.log /\ new.items = old.items /\ new.sched = old.sched
    /\ new.index = old.index /\ (new.running => old.running)

\* The parts of a memory.
LEMMA MemoryParts ==
    ASSUME NEW f, IsMemory(f)
    PROVE  /\ f \in [rts : Seq(Run), owner : 0..Len(f.rts), timers : SUBSET Armable(Len(f.rts)),
                     lock : Seq(Waiting(Len(f.rts)))]
           /\ f.rts \in Seq(Run) /\ Len(f.rts) \in Nat
           /\ f.owner \in 0..Len(f.rts)
           /\ f.timers \in SUBSET Armable(Len(f.rts))
           /\ f.lock \in Seq(Waiting(Len(f.rts)))
           /\ \A r \in 1..Len(f.rts) : f.rts[r] \in Run /\ f.rts[r] \in Runtime
  <1>1. f \in [rts : Seq(Run), owner : 0..Len(f.rts), timers : SUBSET Armable(Len(f.rts)),
               lock : Seq(Waiting(Len(f.rts)))]
    BY DEF IsMemory, Memory
  <1> QED BY <1>1, RunType, LenProperties

\* One runtime and the timers change.
LEMMA Rebuilt ==
    ASSUME NEW f, IsMemory(f), NEW r \in 1..Len(f.rts), NEW rt, Alike(f.rts[r], rt),
           NEW T, T \subseteq Armable(Len(f.rts)), NEW g,
           g = [f EXCEPT !.timers = T, !.rts = [f.rts EXCEPT ![r] = rt]]
    PROVE  Becomes(f, g)
  <1> DEFINE s == [f.rts EXCEPT ![r] = rt]
  <1>1. f \in [rts : Seq(Run), owner : 0..Len(f.rts), timers : SUBSET Armable(Len(f.rts)),
               lock : Seq(Waiting(Len(f.rts)))]
    BY MemoryParts
  <1>2. /\ s \in Seq(Run) /\ Len(s) = Len(f.rts)
        /\ \A j \in 1..Len(f.rts) : s[j] = IF j = r THEN rt ELSE f.rts[j]
    BY <1>1, Replaced DEF Alike
  <1>0. g = [f EXCEPT !.timers = T, !.rts = s]
    OBVIOUS
  <1> HIDE DEF s
  <1>3. g.rts = s /\ g \in [rts : Seq(Run), owner : 0..Len(s), timers : SUBSET Armable(Len(s)),
                             lock : Seq(Waiting(Len(s)))]
    BY <1>0, <1>1, <1>2
  <1>4. IsMemory(g)
    BY <1>3 DEF IsMemory, Memory
  <1>5. SameRuns(f, g)
    BY <1>2, <1>3 DEF SameRuns, Alike
  <1> QED BY <1>4, <1>5 DEF Becomes

\* One runtime changes.
LEMMA RunChanged ==
    ASSUME NEW f, IsMemory(f), NEW r \in 1..Len(f.rts), NEW rt, Alike(f.rts[r], rt),
           NEW g, g = [f EXCEPT !.rts = [f.rts EXCEPT ![r] = rt]]
    PROVE  Becomes(f, g)
  <1>1. g = [f EXCEPT !.timers = f.timers, !.rts = [f.rts EXCEPT ![r] = rt]]
    BY MemoryParts
  <1> QED BY <1>1, Rebuilt, MemoryParts

\* The waiting operations, or the runtime in the map, change.
LEMMA RestChanged ==
    ASSUME NEW f, IsMemory(f), NEW L \in Seq(Waiting(Len(f.rts))), NEW o \in 0..Len(f.rts),
           NEW g, g = [f EXCEPT !.lock = L] \/ g = [f EXCEPT !.owner = o]
    PROVE  Becomes(f, g)
  BY MemoryParts DEF Becomes, SameRuns, IsMemory, Memory

LEMMA NoTimerType == NoTimer \in TimerRecord
  BY DEF NoTimer, TimerRecord, TimerKinds

\* A runtime with another timer.
LEMMA TimerReplaced ==
    ASSUME NEW rt \in Run, NEW t \in TimerRecord
    PROVE  Alike(rt, [rt EXCEPT !.timer = t])
  <1>1. rt \in Runtime
    BY DEF Run
  <1>2. [rt EXCEPT !.timer = t] \in Runtime
    BY <1>1 DEF Runtime, TimerRecord
  <1> QED BY <1>1, <1>2 DEF Run, Runtime, Alike

\* clearTimer
LEMMA DisarmedType ==
    ASSUME NEW f, IsMemory(f), NEW r \in 1..Len(f.rts)
    PROVE  Becomes(f, Disarmed(f, r))
  <1> DEFINE rt == [f.rts[r] EXCEPT !.timer = NoTimer]
             T  == f.timers \ {f.rts[r].timer}
  <1>1. Alike(f.rts[r], rt) /\ T \subseteq Armable(Len(f.rts))
    BY MemoryParts, NoTimerType, TimerReplaced
  <1>2. Disarmed(f, r) = [f EXCEPT !.timers = T, !.rts = [f.rts EXCEPT ![r] = rt]]
    BY DEF Disarmed
  <1> HIDE DEF rt, T
  <1> QED BY <1>1, <1>2, Rebuilt

\* runtime.timer = setTimeout(...)
LEMMA ArmedType ==
    ASSUME NEW f, IsMemory(f), NEW r \in 1..Len(f.rts), NEW t \in Armable(Len(f.rts))
    PROVE  Becomes(f, Armed(f, r, t))
  <1> DEFINE rt == [f.rts[r] EXCEPT !.timer = t]
             T  == f.timers \cup {t}
  <1>1. Alike(f.rts[r], rt) /\ T \subseteq Armable(Len(f.rts))
    BY MemoryParts, TimerReplaced DEF Armable
  <1>2. Armed(f, r, t) = [f EXCEPT !.timers = T, !.rts = [f.rts EXCEPT ![r] = rt]]
    BY DEF Armed
  <1> HIDE DEF rt, T
  <1> QED BY <1>1, <1>2, Rebuilt

\* A timer that has fired is gone.
LEMMA FiredType ==
    ASSUME NEW f, IsMemory(f), NEW t \in f.timers
    PROVE  Becomes(f, Fired(f, t)) /\ t \in Armable(Len(f.rts)) /\ t.rt \in 1..Len(f.rts)
  <1> DEFINE r  == t.rt
             rt == [f.rts[r] EXCEPT !.timer = IF @ = t THEN NoTimer ELSE @]
             T  == f.timers \ {t}
  <1>0. r \in 1..Len(f.rts) /\ t \in Armable(Len(f.rts))
    BY MemoryParts DEF Armable
  <1>1. f.rts[r].timer \in TimerRecord
    BY <1>0, MemoryParts DEF Runtime
  <1>2. Alike(f.rts[r], rt) /\ T \subseteq Armable(Len(f.rts))
    BY <1>0, <1>1, MemoryParts, NoTimerType, TimerReplaced
  <1>3. Fired(f, t) = [f EXCEPT !.timers = T, !.rts = [f.rts EXCEPT ![r] = rt]]
    BY DEF Fired
  <1> HIDE DEF rt, T
  <1>4. Becomes(f, Fired(f, t))
    BY <1>0, <1>2, <1>3, Rebuilt
  <1> QED BY <1>0, <1>4

\* A new timer of a runtime.
LEMMA TimerType ==
    ASSUME NEW f, IsMemory(f), NEW r \in 1..Len(f.rts), NEW kind \in TimerKinds,
           NEW cue \in Nat \cup Cues, kind = "hold" => cue \in Nat \ {0}, NEW due \in Nat
    PROVE  Timer(f, r, kind, cue, due) \in Armable(Len(f.rts))
  BY MemoryParts DEF Timer, Armable, TimerRecord, Runtime

\* serializeCueOperation around a cue.
LEMMA RequestedType ==
    ASSUME NEW f, IsMemory(f), NEW r \in 1..Len(f.rts), NEW gen \in Nat,
           NEW index \in Nat \ {0}
    PROVE  Becomes(f, Requested(f, r, gen, index))
  <1> DEFINE q == [op |-> "cue", rt |-> r, gen |-> gen, index |-> index,
                   log |-> None, items |-> <<>>]
             L == Append(f.lock, q)
  <1>1. Len(f.rts) \in Nat /\ f.lock \in Seq(Waiting(Len(f.rts)))
    BY MemoryParts
  <1>2. q \in Waiting(Len(f.rts))
    BY <1>1 DEF Waiting, Request
  <1>3. L \in Seq(Waiting(Len(f.rts)))
    BY <1>1, <1>2, AppendProperties
  <1>4. Requested(f, r, gen, index) = [f EXCEPT !.lock = L]
    BY DEF Requested
  <1> HIDE DEF L
  <1> QED BY <1>1, <1>3, <1>4, MemoryParts, RestChanged

\* armNextHardCue
LEMMA HardArmedType ==
    ASSUME NEW f, IsMemory(f), NEW r \in 1..Len(f.rts)
    PROVE  Becomes(f, HardArmed(f, r))
  <1> DEFINE rt  == f.rts[r]
             g   == Disarmed(f, r)
             cue == rt.items[FirstFixed(rt)]
  <1>1. Becomes(f, g) /\ IsMemory(g) /\ Len(g.rts) = Len(f.rts)
    BY DisarmedType DEF Becomes, SameRuns
  <1>2. rt \in Runtime
    BY MemoryParts
  <1>3. CASE NextFixed(rt) = {} \/ rt.sched = Unclocked
    BY <1>1, <1>3 DEF HardArmed
  <1>4. CASE ~(NextFixed(rt) = {} \/ rt.sched = Unclocked)
    <2>1. cue \in Cue /\ Fixed(cue) /\ DueAt(rt, cue) \in Nat /\ cue.id \in Cues
      BY <1>2, <1>4, FirstFixedType, DueAtType DEF Cue
    <2>2. Timer(f, r, "hard", cue.id, DueAt(rt, cue)) \in Armable(Len(g.rts))
      BY <1>1, <2>1, TimerType DEF TimerKinds
    <2>3. Becomes(g, Armed(g, r, Timer(f, r, "hard", cue.id, DueAt(rt, cue))))
      BY <1>1, <2>2, ArmedType
    <2>4. HardArmed(f, r) = Armed(g, r, Timer(f, r, "hard", cue.id, DueAt(rt, cue)))
      BY <1>4 DEF HardArmed
    <2> HIDE DEF g
    <2> QED BY <1>1, <2>3, <2>4, BecomesTransitive
  <1> QED BY <1>3, <1>4

\* armTimedClip
LEMMA ClipArmedType ==
    ASSUME NEW f, IsMemory(f), NEW r \in 1..Len(f.rts),
           f.rts[r].index <= Len(f.rts[r].items)
    PROVE  Becomes(f, ClipArmed(f, r))
  <1> DEFINE rt  == f.rts[r]
             g   == Disarmed(f, r)
             cue == rt.items[FirstFixed(rt)]
             end == rt.clipAt + rt.items[rt.index].ms
  <1>1. Becomes(f, g) /\ IsMemory(g) /\ Len(g.rts) = Len(f.rts)
    BY DisarmedType DEF Becomes, SameRuns
  <1>2. rt \in Runtime /\ rt \in Run
    BY MemoryParts
  <1>3. CASE rt.clipAt = Unset
    BY <1>1, <1>3 DEF ClipArmed
  <1>4. CASE rt.clipAt # Unset
    <2>1. rt.sched # Unclocked /\ rt.items \in Seq(Cue)
      BY <1>2, <1>4 DEF Run, Runtime
    <2>2. rt.index \in 1..Len(rt.items)
      BY <1>2, <2>1, LenProperties DEF Runtime
    <2>3. rt.items[rt.index] \in Cue
      BY <2>1, <2>2, ElementOfSeq
    <2>4. end \in Nat
      BY <1>2, <1>4, <2>3 DEF Runtime, Cue
    <2>5. NextFixed(rt) # {} => cue.id \in Cues /\ DueAt(rt, cue) \in Nat
      BY <1>2, <2>1, FirstFixedType, DueAtType DEF Cue
    <2>6. \/ ClipArmed(f, r) = Armed(g, r, Timer(f, r, "clip", 0, end))
          \/ /\ NextFixed(rt) # {}
             /\ ClipArmed(f, r) = Armed(g, r, Timer(f, r, "clip", cue.id, DueAt(rt, cue)))
      BY <1>4 DEF ClipArmed
    <2> HIDE DEF g, rt, cue, end
    <2>7. Timer(f, r, "clip", 0, end) \in Armable(Len(g.rts))
      BY <1>1, <2>4, TimerType DEF TimerKinds
    <2>8. NextFixed(rt) # {} => Timer(f, r, "clip", cue.id, DueAt(rt, cue)) \in Armable(Len(g.rts))
      BY <1>1, <2>5, TimerType DEF TimerKinds
    <2>9. Becomes(g, ClipArmed(f, r))
      BY <1>1, <2>6, <2>7, <2>8, ArmedType
    <2> QED BY <1>1, <2>9, BecomesTransitive
  <1> QED BY <1>3, <1>4

\* The timer is dropped, and the runtime waits no more.
LEMMA Unwaiting ==
    ASSUME NEW f, IsMemory(f), NEW r \in 1..Len(f.rts), NEW waiting \in BOOLEAN, NEW gen \in Nat,
           NEW g, g = [f EXCEPT !.rts[r].waiting = waiting, !.rts[r].gen = gen]
    PROVE  Becomes(f, g)
  <1> DEFINE rt == [f.rts[r] EXCEPT !.waiting = waiting, !.gen = gen]
  <1>1. f.rts[r] \in Run /\ f.rts[r] \in Runtime
    BY MemoryParts
  <1>2. Alike(f.rts[r], rt)
    BY <1>1 DEF Alike, Run, Runtime
  <1>3. f.rts \in Seq(Run)
    BY MemoryParts
  <1>4. g = [f EXCEPT !.rts = [f.rts EXCEPT ![r] = rt]]
    BY <1>3, MemoryParts
  <1> HIDE DEF rt
  <1> QED BY <1>2, <1>4, RunChanged

\* go and handleSongEnded
LEMMA BumpedType ==
    ASSUME NEW f, IsMemory(f), NEW r \in 1..Len(f.rts)
    PROVE  Becomes(f, Bumped(f, r))
  <1> DEFINE g == Disarmed(f, r)
  <1>1. Becomes(f, g) /\ IsMemory(g) /\ r \in 1..Len(g.rts)
    BY DisarmedType DEF Becomes, SameRuns
  <1>2. Bumped(f, r) = [g EXCEPT !.rts[r].waiting = FALSE, !.rts[r].gen = g.rts[r].gen + 1]
    BY <1>1, MemoryParts DEF Bumped
  <1> HIDE DEF g
  <1>3. g.rts[r].gen + 1 \in Nat
    BY <1>1, MemoryParts DEF Runtime
  <1>4. Becomes(g, Bumped(f, r))
    BY <1>1, <1>2, <1>3, Unwaiting
  <1> QED BY <1>1, <1>4, BecomesTransitive

\* stopRuntime, up to its first await.
LEMMA StopBegunType ==
    ASSUME NEW f, IsMemory(f)
    PROVE  Becomes(f, StopBegun(f))
  <1>1. CASE f.owner = 0
    BY <1>1, BecomesReflexive DEF StopBegun
  <1>2. CASE f.owner # 0
    <2> DEFINE r  == f.owner
               g  == Disarmed(f, r)
               rt == [g.rts[r] EXCEPT !.waiting = FALSE]
    <2>1. r \in 1..Len(f.rts)
      BY <1>2, MemoryParts
    <2>2. Becomes(f, g) /\ IsMemory(g) /\ r \in 1..Len(g.rts)
      BY <2>1, DisarmedType DEF Becomes, SameRuns
    <2>3. StopBegun(f) = [g EXCEPT !.rts = [g.rts EXCEPT ![r] = rt]]
      BY <1>2 DEF StopBegun
    <2> HIDE DEF g
    <2>4. g.rts[r] \in Run /\ g.rts[r] \in Runtime
      BY <2>2, MemoryParts
    <2>5. Alike(g.rts[r], rt)
      BY <2>4 DEF Alike, Run, Runtime
    <2> HIDE DEF rt, r
    <2>6. Becomes(g, StopBegun(f))
      BY <2>2, <2>3, <2>5, RunChanged
    <2> QED BY <2>2, <2>6, BecomesTransitive
  <1> QED BY <1>1, <1>2

LEMMA FinishBegunType ==
    ASSUME NEW f, IsMemory(f), NEW r
    PROVE  Becomes(f, FinishBegun(f, r))
  BY StopBegunType, BecomesReflexive DEF FinishBegun

LEMMA NextRequestedType ==
    ASSUME NEW f, IsMemory(f), NEW r \in 1..Len(f.rts)
    PROVE  Becomes(f, NextRequested(f, r))
  <1> DEFINE i == IF f.rts[r].index + 1 > Len(f.rts[r].items) THEN 1 ELSE f.rts[r].index + 1
  <1>1. f.rts[r] \in Runtime
    BY MemoryParts
  <1>2. f.rts[r].gen \in Nat /\ i \in Nat \ {0}
    BY <1>1 DEF Runtime
  <1> QED BY <1>2, RequestedType DEF NextRequested

\* The next cue, or the end of the block.
LEMMA MovedOnType ==
    ASSUME NEW f, IsMemory(f), NEW r \in 1..Len(f.rts)
    PROVE  Becomes(f, MovedOn(f, r))
  BY FinishBegunType, NextRequestedType DEF MovedOn

\* The finally of stopRuntime, and runtimes.delete.
LEMMA ReleasedType ==
    ASSUME NEW f, IsMemory(f), NEW r \in 0..Len(f.rts)
    PROVE  Becomes(f, Released(f, r)) /\ Becomes(f, Unmapped(f))
  <1>1. Becomes(f, Unmapped(f))
    <2>1. 0 \in 0..Len(f.rts) /\ f.lock \in Seq(Waiting(Len(f.rts)))
      BY MemoryParts
    <2>2. Unmapped(f) = [f EXCEPT !.owner = 0]
      BY DEF Unmapped
    <2> QED BY <2>1, <2>2, RestChanged
  <1>2. CASE r = 0
    BY <1>1, <1>2, BecomesReflexive DEF Released
  <1>3. CASE r # 0
    <2> DEFINE rt == [f.rts[r] EXCEPT !.running = FALSE]
               g  == [f EXCEPT !.rts = [f.rts EXCEPT ![r] = rt]]
               o  == IF f.owner = r THEN 0 ELSE f.owner
    <2>1. f.rts[r] \in Run /\ f.rts[r] \in Runtime /\ Len(f.rts) \in Nat /\ r \in 1..Len(f.rts)
      BY <1>3, MemoryParts
    <2>2. Alike(f.rts[r], rt)
      BY <2>1 DEF Alike, Run, Runtime
    <2>3. Released(f, r) = [g EXCEPT !.owner = o]
      BY <1>3, MemoryParts DEF Released
    <2>0. g = [f EXCEPT !.rts = [f.rts EXCEPT ![r] = rt]]
      OBVIOUS
    <2> HIDE DEF rt, g
    <2>9. Becomes(f, g)
      BY <2>0, <2>1, <2>2, RunChanged
    <2>4. Becomes(f, g) /\ IsMemory(g) /\ Len(g.rts) = Len(f.rts)
      BY <2>9 DEF Becomes, SameRuns
    <2>5. o \in 0..Len(f.rts)
      BY MemoryParts
    <2> HIDE DEF o
    <2>6. Becomes(g, Released(f, r))
      BY <2>3, <2>4, <2>5, MemoryParts, RestChanged
    <2> QED BY <1>1, <2>4, <2>6, BecomesTransitive
  <1> QED BY <1>2, <1>3

\* An operation leaves the queue of cueOperations.
LEMMA TakenType ==
    ASSUME NEW f, IsMemory(f), f.lock # <<>>
    PROVE  /\ Becomes(f, Taken(f))
           /\ Head(f.lock) \in Waiting(Len(f.rts))
  <1>1. f.lock \in Seq(Waiting(Len(f.rts))) /\ f.owner \in 0..Len(f.rts)
    BY MemoryParts
  <1>2. Head(f.lock) \in Waiting(Len(f.rts)) /\ Tail(f.lock) \in Seq(Waiting(Len(f.rts)))
    BY <1>1, HeadTailProperties
  <1>3. Taken(f) = [f EXCEPT !.lock = Tail(f.lock)]
    BY DEF Taken
  <1> QED BY <1>1, <1>2, <1>3, RestChanged

--------------------------------------------------------------------------------
\* Calls

LEMMA IdleType ==
    ASSUME NEW n \in Nat
    PROVE  Idle \in Call(n)
  <1>1. NoSnap \in Row
    BY DEF NoSnap, Row, Unclocked
  <1>2. Idle \in CallRecord(n)
    BY <1>1 DEF Idle, CallRecord, Aims, Labels, Outcomes, Stopped, Sequencing
  <1> QED BY <1>2 DEF Idle, Call, Stage, OfLog, OfRuntime, OfCue

\* A call remains one when more runtimes are made.
LEMMA CallGrows ==
    ASSUME NEW n \in Nat, NEW m \in Nat, n <= m, NEW k \in Call(n)
    PROVE  k \in Call(m)
  BY DEF Call, CallRecord

\* A call that is not in the middle of a stop.
Cutting == {"mark", "cut", "cutting", "cutDone"}

LEMMA PlainCall ==
    ASSUME NEW n, NEW k \in CallRecord(n), k.at \notin Cutting,
           k.at \in OfLog => k.log \in Logs, k.at \in OfRuntime => k.rt # 0,
           k.at \in OfCue => k.items # <<>>
    PROVE  k \in Call(n) /\ Stage(k) = k.at
  BY DEF Call, Stage, Cutting

\* The call returns; the scheduler goes on with what is due.
LEMMA ClaimNextType ==
    ASSUME NEW n \in Nat, NEW due \in SUBSET Logs
    PROVE  /\ ClaimNext(due) \in Call(n) /\ ClaimNext(due).due = due
           /\ Stage(ClaimNext(due)) \in {"idle", "claim"}
  <1> DEFINE k == [Idle EXCEPT !.at = "claim", !.due = due]
  <1>1. Idle \in Call(n) /\ Idle \in CallRecord(n) /\ Stage(Idle) = "idle" /\ Idle.due = {}
    BY IdleType DEF Call, Stage, Idle
  <1>2. "claim" \in Labels /\ "claim" \notin Cutting \cup OfLog \cup OfRuntime \cup OfCue
    BY DEF Labels, Cutting, OfLog, OfRuntime, OfCue
  <1>3. k \in CallRecord(n) /\ k.at = "claim" /\ k.due = due
    BY <1>1, <1>2 DEF CallRecord
  <1> HIDE DEF k
  <1>4. k \in Call(n) /\ Stage(k) = "claim"
    BY <1>2, <1>3, PlainCall
  <1> QED BY <1>1, <1>3, <1>4 DEF ClaimNext, k

LEMMA ReturnedType ==
    ASSUME NEW n \in Nat, NEW k \in Call(n)
    PROVE  /\ Returned(k) \in Call(n) /\ Returned(k).due = k.due
           /\ Stage(Returned(k)) \in {"idle", "claim"}
  <1>1. k.due \in SUBSET Logs
    BY DEF Call, CallRecord
  <1> QED BY <1>1, ClaimNextType DEF Returned

\* A stop begins, for the sake of what follows it.
LEMMA StoppingType ==
    ASSUME NEW n \in Nat, NEW k \in CallRecord(n), NEW f, f.owner \in 0..n,
           NEW then \in Aims, pointer \in Logs \cup {None},
           then \in OfLog => k.log \in Logs, then \in OfRuntime => k.rt # 0,
           then \in OfCue => k.items # <<>>
    PROVE  \A keep \in BOOLEAN : /\ Stopping(k, f, keep, then) \in Call(n)
                                 /\ Stopping(k, f, keep, then).due = k.due
                                 /\ Stopping(k, f, keep, then).log = k.log
                                 /\ Stopping(k, f, keep, then).snap = k.snap
                                 /\ Stage(Stopping(k, f, keep, then)) = then
  <1> TAKE keep \in BOOLEAN
  <1> DEFINE s == Stopping(k, f, keep, then)
  <1>1. "mark" \in Labels
    BY DEF Labels
  <1>2. /\ s \in CallRecord(n) /\ Stage(s) = then
        /\ s.log = k.log /\ s.rt = k.rt /\ s.items = k.items /\ s.due = k.due
        /\ s.snap = k.snap
    BY <1>1 DEF Stopping, CallRecord, Stage
  <1> HIDE DEF s
  <1>3. s \in Call(n)
    BY <1>2 DEF Call
  <1> QED BY <1>2, <1>3 DEF s

\* A call takes the place of another.
LEMMA GoType ==
    ASSUME NEW n, calls \in [Callers -> Call(n)], NEW c \in Callers, NEW k \in Call(n),
           Go(c, k)
    PROVE  /\ calls' \in [Callers -> Call(n)]
           /\ calls'[c] = k
           /\ \A d \in Callers \ {c} : calls'[d] = calls[d]
  BY DEF Go

\* An error is answered, or stops the program first.
LEMMA FailedType ==
    ASSUME NEW n \in Nat, NEW k \in Call(n), NEW f, f.owner \in 0..n,
           pointer \in Logs \cup {None}
    PROVE  /\ Failed(k, f) \in Call(n) /\ Failed(k, f).due = k.due
           /\ Stage(Failed(k, f)) \in {"idle", "claim", "end"}
  <1> DEFINE e == [k EXCEPT !.on = "end"]
  <1>1. e \in CallRecord(n) /\ e.due = k.due
    BY DEF Call, CallRecord, Outcomes
  <1>2. "end" \in Aims /\ "end" \notin OfLog \cup OfRuntime \cup OfCue
    BY DEF Aims, Labels, OfLog, OfRuntime, OfCue
  <1> HIDE DEF e
  <1>3. /\ Stopping(e, f, FALSE, "end") \in Call(n) /\ Stopping(e, f, FALSE, "end").due = k.due
        /\ Stage(Stopping(e, f, FALSE, "end")) = "end"
    <2> DEFINE keep == FALSE
    <2>1. keep \in BOOLEAN
      OBVIOUS
    <2> HIDE DEF keep
    <2>2. /\ Stopping(e, f, keep, "end") \in Call(n) /\ Stopping(e, f, keep, "end").due = k.due
          /\ Stage(Stopping(e, f, keep, "end")) = "end"
      BY <1>1, <1>2, <2>1, StoppingType
    <2> QED BY <2>2 DEF keep
  <1> QED BY <1>3, ReturnedType DEF Failed, e

\* The call of finishBlock.
LEMMA FinishingType ==
    ASSUME NEW n \in Nat, NEW f, f.owner \in 0..n, NEW r, pointer \in Logs \cup {None},
           radio \in Radio
    PROVE  /\ Finishing(Idle, f, r) \in Call(n) /\ Finishing(Idle, f, r).due = {}
           /\ Stage(Finishing(Idle, f, r)) \in {"end", "prepare", "resume"}
  <1> DEFINE k == [Idle EXCEPT !.on = "finishFailed"]
             p == [k EXCEPT !.at = "prepare", !.cursor = [radio.mem EXCEPT !.cursor = @ + 1]]
  <1>1. Idle \in CallRecord(n) /\ Idle.due = {}
    BY IdleType DEF Call, Idle
  <1>2. /\ {"end", "resume", "prepare"} \subseteq Aims /\ "prepare" \in Labels
        /\ {"end", "resume", "prepare"} \cap (OfLog \cup OfRuntime \cup OfCue \cup Cutting) = {}
        /\ "finishFailed" \in Outcomes
    BY DEF Aims, Labels, OfLog, OfRuntime, OfCue, Cutting, Outcomes
  <1>3. k \in CallRecord(n) /\ k.due = {}
    BY <1>1, <1>2 DEF CallRecord
  <1>4. [radio.mem EXCEPT !.cursor = @ + 1] \in Sequencing
    BY DEF Radio, Sequencing
  <1>5. p \in CallRecord(n) /\ p.at = "prepare" /\ p.due = {}
    BY <1>1, <1>2, <1>4 DEF CallRecord
  <1>6. Finishing(Idle, f, r) = p \/ Finishing(Idle, f, r) = Stopping(k, f, TRUE, "resume")
        \/ Finishing(Idle, f, r) = Stopping(Idle, f, FALSE, "end")
    BY DEF Finishing
  <1> HIDE DEF k, p
  <1>7. p \in Call(n) /\ Stage(p) = "prepare"
    BY <1>2, <1>5, PlainCall
  <1>8. Stopping(k, f, TRUE, "resume") \in Call(n) /\ Stopping(k, f, TRUE, "resume").due = {}
        /\ Stage(Stopping(k, f, TRUE, "resume")) = "resume"
    <2> DEFINE keep == TRUE
    <2>1. keep \in BOOLEAN
      OBVIOUS
    <2> HIDE DEF keep
    <2>2. Stopping(k, f, keep, "resume") \in Call(n) /\ Stopping(k, f, keep, "resume").due = {}
          /\ Stage(Stopping(k, f, keep, "resume")) = "resume"
      BY <1>3, <1>2, <2>1, StoppingType
    <2> QED BY <2>2 DEF keep
  <1>9. Stopping(Idle, f, FALSE, "end") \in Call(n) /\ Stopping(Idle, f, FALSE, "end").due = {}
        /\ Stage(Stopping(Idle, f, FALSE, "end")) = "end"
    <2> DEFINE keep == FALSE
    <2>1. keep \in BOOLEAN
      OBVIOUS
    <2> HIDE DEF keep
    <2>2. Stopping(Idle, f, keep, "end") \in Call(n) /\ Stopping(Idle, f, keep, "end").due = {}
          /\ Stage(Stopping(Idle, f, keep, "end")) = "end"
      BY <1>1, <1>2, <2>1, StoppingType
    <2> QED BY <2>2 DEF keep
  <1> QED BY <1>5, <1>6, <1>7, <1>8, <1>9

\* The end of a block in a call of its own.
LEMMA SpawnedType ==
    ASSUME NEW f, IsMemory(f), NEW r, pointer \in Logs \cup {None}, radio \in Radio,
           NEW k \in [Callers -> Call(Len(f.rts))], NEW c \in Callers
    PROVE  /\ Spawned(k, c, f, r) \in [Callers -> Call(Len(f.rts))]
           /\ \A d \in Callers : \/ Spawned(k, c, f, r)[d] = k[d]
                                 \/ /\ Stage(Spawned(k, c, f, r)[d]) \in {"end", "prepare", "resume"}
                                    /\ Spawned(k, c, f, r)[d].due = {}
  <1>1. Len(f.rts) \in Nat /\ f.owner \in 0..Len(f.rts)
    BY MemoryParts
  <1>2. /\ Finishing(Idle, f, r) \in Call(Len(f.rts)) /\ Finishing(Idle, f, r).due = {}
        /\ Stage(Finishing(Idle, f, r)) \in {"end", "prepare", "resume"}
    BY <1>1, FinishingType
  <1> QED BY <1>2 DEF Spawned

--------------------------------------------------------------------------------
\* What follows the execution of a cue

\* A runtime waits for the end of a song, or its clip started.
LEMMA WaitingType ==
    ASSUME NEW f, IsMemory(f), NEW r \in 1..Len(f.rts), NEW g,
           \/ \E waiting \in BOOLEAN : g = [f EXCEPT !.rts[r].waiting = waiting]
           \/ /\ f.rts[r].sched # Unclocked
              /\ \E at \in Nat : g = [f EXCEPT !.rts[r].clipAt = at]
    PROVE  Becomes(f, g)
  <1>1. f.rts[r] \in Run /\ f.rts[r] \in Runtime /\ f.rts \in Seq(Run)
    BY MemoryParts
  <1>2. CASE \E waiting \in BOOLEAN : g = [f EXCEPT !.rts[r].waiting = waiting]
    <2>1. PICK waiting \in BOOLEAN : g = [f EXCEPT !.rts[r].waiting = waiting]
      BY <1>2
    <2> DEFINE rt == [f.rts[r] EXCEPT !.waiting = waiting]
    <2>2. Alike(f.rts[r], rt)
      BY <1>1 DEF Alike, Run, Runtime
    <2>3. g = [f EXCEPT !.rts = [f.rts EXCEPT ![r] = rt]]
      BY <1>1, <2>1, MemoryParts
    <2> HIDE DEF rt
    <2> QED BY <2>2, <2>3, RunChanged
  <1>3. CASE f.rts[r].sched # Unclocked /\ \E at \in Nat : g = [f EXCEPT !.rts[r].clipAt = at]
    <2>1. PICK at \in Nat : g = [f EXCEPT !.rts[r].clipAt = at]
      BY <1>3
    <2> DEFINE rt == [f.rts[r] EXCEPT !.clipAt = at]
    <2>2. Alike(f.rts[r], rt)
      BY <1>1, <1>3 DEF Alike, Run, Runtime
    <2>3. g = [f EXCEPT !.rts = [f.rts EXCEPT ![r] = rt]]
      BY <1>1, <2>1, MemoryParts
    <2> HIDE DEF rt
    <2> QED BY <2>2, <2>3, RunChanged
  <1> QED BY <1>2, <1>3

LEMMA AfterCueType ==
    ASSUME NEW f, IsMemory(f), NEW r \in 1..Len(f.rts), NEW cue \in Cue, clock \in Nat,
           f.rts[r].index <= Len(f.rts[r].items)
    PROVE  Becomes(f, AfterCue(f, r, cue))
  <1> DEFINE rt == f.rts[r]
  <1>1. CASE rt.sched # Unclocked /\ cue.kind = "song"
    <2> DEFINE g == [f EXCEPT !.rts[r].waiting = TRUE]
    <2>1. Becomes(f, g)
      BY WaitingType
    <2>2. AfterCue(f, r, cue) = HardArmed(g, r)
      BY <1>1 DEF AfterCue
    <2> HIDE DEF g
    <2>3. IsMemory(g) /\ r \in 1..Len(g.rts)
      BY <2>1 DEF Becomes, SameRuns
    <2> QED BY <2>1, <2>2, <2>3, HardArmedType, BecomesTransitive
  <1>2. CASE rt.sched # Unclocked /\ cue.kind = "clip" /\ cue.ms > 0
    <2> DEFINE g == [f EXCEPT !.rts[r].clipAt = clock]
    <2>1. Becomes(f, g)
      BY <1>2, WaitingType
    <2>2. AfterCue(f, r, cue) = ClipArmed(g, r)
      BY <1>2 DEF AfterCue
    <2> HIDE DEF g
    <2>3. IsMemory(g) /\ r \in 1..Len(g.rts) /\ g.rts[r].index <= Len(g.rts[r].items)
      BY <2>1 DEF Becomes, SameRuns
    <2> QED BY <2>1, <2>2, <2>3, ClipArmedType, BecomesTransitive
  <1>3. CASE cue.kind = "wait"
    <2>1. cue.ms \in Nat
      BY DEF Cue
    <2>2. Timer(f, r, "wait", 0, clock + cue.ms) \in Armable(Len(f.rts))
      BY <2>1, TimerType DEF TimerKinds
    <2>3. AfterCue(f, r, cue) = Armed(f, r, Timer(f, r, "wait", 0, clock + cue.ms))
      BY <1>3 DEF AfterCue
    <2> QED BY <2>2, <2>3, ArmedType
  <1>4. CASE cue.kind = "songEnd"
    <2> DEFINE g == [f EXCEPT !.rts[r].waiting = TRUE]
               t == Timer(g, r, "songEnd", 0, clock + SongEndTimeout)
    <2>1. Becomes(f, g)
      BY WaitingType
    <2>2. AfterCue(f, r, cue) = Armed(g, r, t)
      BY <1>4 DEF AfterCue
    <2>3. clock + SongEndTimeout \in Nat
      BY FlightAssumption
    <2> HIDE DEF g
    <2>4. IsMemory(g) /\ r \in 1..Len(g.rts)
      BY <2>1 DEF Becomes, SameRuns
    <2>5. t \in Armable(Len(g.rts))
      BY <2>3, <2>4, TimerType DEF TimerKinds
    <2> HIDE DEF t
    <2>6. Becomes(g, Armed(g, r, t))
      BY <2>4, <2>5, ArmedType
    <2> QED BY <2>1, <2>2, <2>6, BecomesTransitive
  <1>5. \/ rt.sched # Unclocked /\ cue.kind = "song"
        \/ rt.sched # Unclocked /\ cue.kind = "clip" /\ cue.ms > 0
        \/ cue.kind = "wait" \/ cue.kind = "songEnd"
        \/ AfterCue(f, r, cue) = MovedOn(f, r) \/ AfterCue(f, r, cue) = f
    BY DEF AfterCue
  <1> QED BY <1>1, <1>2, <1>3, <1>4, <1>5, MovedOnType, BecomesReflexive

--------------------------------------------------------------------------------
\* The radio

LEMMA SilencedType ==
    ASSUME NEW x \in Radio
    PROVE  Silenced(x) \in Radio /\ Silenced(x).aired = x.aired
  BY DEF Silenced, Radio

LEMMA TakesType ==
    ASSUME NEW x \in Radio, NEW rt \in Nat, NEW pos \in Nat
    PROVE  Takes(x, rt, pos) \in Radio
  <1> DEFINE n == Len(x.aired) + 1
             s == Append(x.aired, [rt |-> rt, pos |-> pos])
  <1>1. x.aired \in Seq([rt : Nat, pos : Nat])
    BY DEF Radio
  <1>2. n \in Nat /\ s \in Seq([rt : Nat, pos : Nat])
    BY <1>1, LenProperties, AppendProperties
  <1>3. Takes(x, rt, pos) = [Silenced(x) EXCEPT !.aired = s, !.onAir = n, !.active = n]
    BY SilencedType DEF Takes
  <1> HIDE DEF n, s
  <1> QED BY <1>2, <1>3, SilencedType DEF Radio

LEMMA RadioType ==
    ASSUME NEW x \in Radio
    PROVE  /\ RotationStarts(x) \in Radio /\ RowStopped(x) \in Radio /\ MemStopped(x) \in Radio
           /\ \A n : Continues(x, n) \in Radio
           /\ Rebooted(x) \in Radio
  <1>0. \A y \in Radio : RotationStarts(y) \in Radio
    <2> SUFFICES ASSUME NEW y \in Radio PROVE RotationStarts(y) \in Radio
      OBVIOUS
    <2>1. 0 \in Nat /\ y.mem.cursor \in Nat
      BY DEF Radio, Sequencing
    <2>2. Takes(y, 0, y.mem.cursor) \in Radio
      BY <2>1, TakesType
    <2> QED BY <2>2 DEF RotationStarts
  <1>1. Stopped \in Sequencing
    BY DEF Stopped, Sequencing
  <1>2. RowStopped(x) \in Radio /\ MemStopped(x) \in Radio
    BY <1>1 DEF RowStopped, MemStopped, Radio
  <1>3. ASSUME NEW n PROVE Continues(x, n) \in Radio
    <2> DEFINE c == IF x.mem.auto /\ IsRotation(x, n) THEN x.mem.cursor + 1 ELSE x.mem.cursor
               m == [x.mem EXCEPT !.cursor = c]
               y == [x EXCEPT !.active = 0, !.mem = m]
    <2>1. x.mem \in Sequencing /\ x.mem.cursor \in Nat
      BY DEF Radio, Sequencing
    <2>2. c \in Nat
      BY <2>1
    <2>3. Continues(x, n) = RotationStarts(y)
      BY <2>1 DEF Continues, Radio
    <2> HIDE DEF c
    <2>4. m \in Sequencing
      BY <2>1, <2>2 DEF Sequencing
    <2> HIDE DEF m
    <2>5. y \in Radio
      BY <2>4 DEF Radio
    <2> HIDE DEF y
    <2> QED BY <1>0, <2>3, <2>5
  <1>4. Rebooted(x) \in Radio
    BY DEF Rebooted, Radio
  <1> QED BY <1>0, <1>2, <1>3, <1>4

--------------------------------------------------------------------------------
\* What nearly every step has in common: rows keep their start and never turn a
\* start back, no items are saved, no runtime is made, moved to another cue or given
\* other items, and no call takes up a cue.  The few steps that do have lemmas of
\* their own.

RowKeeps(old, new) ==
    /\ new \in Row
    /\ new.sched = old.sched /\ new.loop = old.loop /\ (old.started => new.started)
    /\ old.rev <= new.rev /\ new.items = old.items

RowsKeep == /\ logs' \in [Logs -> Row]
            /\ \A l \in Logs : RowKeeps(logs[l], logs'[l])

\* A save that read its row as it is now, and that keeps what its runtime played.
Saves(k) ==
    /\ k.snap = logs[k.log]
    /\ k.rt # 0 =>
          /\ k.rt \in 1..Len(flight.rts)
          /\ flight.rts[k.rt].log = k.log
          /\ flight.rts[k.rt].running => PlayedKept(flight.rts[k.rt], k.snap.items, k.items)

\* How a call goes on: it claims no other logs than clocked ones, launches and saves
\* what it read, and goes on with a cue only when it was executing it.
Launching == {"starting", "launch"}
Follows(old, new) ==
    /\ new.due \subseteq old.due \cup {l \in Logs : logs[l].sched # Unclocked}
    /\ Stage(new) \in Launching =>
          \/ Stage(old) \in Launching /\ new.log = old.log /\ new.snap = old.snap
          \/ new.snap = logs[new.log]
    /\ Stage(new) = "editing" => Saves(new)
    /\ Stage(new) \in OfCue => Stage(old) \in OfCue /\ new.rt = old.rt

\* Every call goes on so, or stays where it is.
CallsFollow ==
    /\ calls' \in [Callers -> Call(Len(flight.rts))]
    /\ \A c \in Callers : calls'[c] = calls[c] \/ Follows(calls[c], calls'[c])

RestTyped == /\ pointer' \in Logs \cup {None}
             /\ radio' \in Radio
             /\ playable' \subseteq Cues
             /\ clock' \in 0..2 * MaxClock
             /\ left' \in [Steps -> Nat]

Ordinary == /\ RowsKeep /\ Becomes(flight, flight') /\ CallsFollow /\ RestTyped
            /\ claimed' = claimed

\* What TypeInv gives.
LEMMA Typed ==
    ASSUME TypeInv
    PROVE  /\ logs \in [Logs -> Row] /\ pointer \in Logs \cup {None}
           /\ IsMemory(flight) /\ Len(flight.rts) \in Nat
           /\ flight.owner \in 0..Len(flight.rts)
           /\ calls \in [Callers -> Call(Len(flight.rts))]
           /\ \A c \in Callers : /\ calls[c] \in Call(Len(flight.rts))
                                  /\ calls[c] \in CallRecord(Len(flight.rts))
           /\ radio \in Radio /\ playable \subseteq Cues /\ clock \in Nat
           /\ clock \in 0..2 * MaxClock /\ left \in [Steps -> Nat] /\ claimed \in [Logs -> Nat]
           /\ Becomes(flight, flight)
  <1>1. clock \in Nat
    BY FlightAssumption DEF TypeInv
  <1> QED BY <1>1, MemoryParts, BecomesReflexive DEF TypeInv, Call

\* The cue in execution stays an item of its runtime.
LEMMA OrdinaryIsTyped ==
    ASSUME TypeInv, Ordinary
    PROVE  TypeInv'
  <1> DEFINE t == calls["turn"]
             u == calls'["turn"]
  <1>0. "turn" \in Callers
    BY DEF Callers
  <1>1. Becomes(flight, flight') /\ IsMemory(flight)' /\ Len(flight.rts)' = Len(flight.rts)
    BY DEF Ordinary, Becomes, SameRuns
  <1>2. (calls \in [Callers -> Call(Len(flight.rts))])'
    BY <1>1 DEF Ordinary, CallsFollow
  <1>3. CueIsListed'
    <2> SUFFICES ASSUME Stage(u) \in OfCue
                 PROVE  flight'.rts[u.rt].index <= Len(flight'.rts[u.rt].items)
      BY DEF CueIsListed
    <2>1. Stage(t) \in OfCue /\ u.rt = t.rt
      BY <1>0 DEF Ordinary, CallsFollow, Follows
    <2>2. flight.rts[t.rt].index <= Len(flight.rts[t.rt].items)
      BY <2>1 DEF TypeInv, CueIsListed
    <2>3. t \in CallRecord(Len(flight.rts)) /\ t.rt # 0
      <3>1. t \in Call(Len(flight.rts))
        BY <1>0 DEF TypeInv
      <3>2. OfCue \subseteq OfRuntime
        BY DEF OfCue, OfRuntime
      <3> QED BY <2>1, <3>1, <3>2 DEF Call
    <2>4. t.rt \in 1..Len(flight.rts)
      BY <2>3 DEF CallRecord
    <2> QED BY <1>1, <2>1, <2>2, <2>4 DEF Becomes, SameRuns
  <1> QED BY <1>1, <1>2, <1>3 DEF TypeInv, Ordinary, RowsKeep, RestTyped

\* The rows stay, or one of them changes.
LEMMA RowsStay ==
    ASSUME TypeInv, UNCHANGED logs
    PROVE  RowsKeep
  BY DEF TypeInv, RowsKeep, RowKeeps, Row

LEMMA RowChanges ==
    ASSUME TypeInv, NEW l \in Logs, NEW row, RowKeeps(logs[l], row),
           logs' = [logs EXCEPT ![l] = row]
    PROVE  RowsKeep
  BY DEF TypeInv, RowsKeep, RowKeeps, Row

\* What the steps write of a row.
LEMMA RowWrites ==
    ASSUME NEW row \in Row, NEW b \in BOOLEAN, NEW rev \in Nat, row.rev <= rev
    PROVE  /\ RowKeeps(row, [row EXCEPT !.running = b])
           /\ RowKeeps(row, [row EXCEPT !.exists = b])
           /\ RowKeeps(row, [row EXCEPT !.started = TRUE])
           /\ RowKeeps(row, [row EXCEPT !.published = TRUE, !.rev = rev])
  <1>1. RowKeeps(row, [row EXCEPT !.running = b])
    BY DEF RowKeeps, Row
  <1>2. RowKeeps(row, [row EXCEPT !.exists = b])
    BY DEF RowKeeps, Row
  <1>3. RowKeeps(row, [row EXCEPT !.started = TRUE])
    <2> DEFINE new == [row EXCEPT !.started = TRUE]
    <2>1. new \in Row
      BY DEF Row
    <2>2. new.started
      BY DEF Row
    <2>3. /\ new.sched = row.sched /\ new.loop = row.loop
          /\ new.rev = row.rev /\ new.items = row.items
      BY DEF Row
    <2> HIDE DEF new
    <2>4. RowKeeps(row, new)
      BY <2>1, <2>2, <2>3 DEF RowKeeps, Row
    <2> QED BY <2>4 DEF new
  <1>4. RowKeeps(row, [row EXCEPT !.published = TRUE, !.rev = rev])
    <2> DEFINE new == [row EXCEPT !.published = TRUE, !.rev = rev]
    <2>1. new \in Row
      BY DEF Row
    <2>2. new.started = row.started
      BY DEF Row
    <2>3. /\ new.sched = row.sched /\ new.loop = row.loop
          /\ new.rev = rev /\ new.items = row.items
      BY DEF Row
    <2> HIDE DEF new
    <2>4. RowKeeps(row, new)
      BY <2>1, <2>2, <2>3 DEF RowKeeps
    <2> QED BY <2>4 DEF new
  <1> QED BY <1>1, <1>2, <1>3, <1>4

\* A row is marked as running, or not.
LEMMA RowMarked ==
    ASSUME TypeInv, NEW l \in Logs, NEW b \in BOOLEAN, logs' = [logs EXCEPT ![l].running = b]
    PROVE  RowsKeep
  <1>1. logs[l] \in Row
    BY Typed
  <1> DEFINE row == [logs[l] EXCEPT !.running = b]
  <1>2. RowKeeps(logs[l], row)
    <2>1. logs[l].rev \in Nat /\ logs[l].rev <= logs[l].rev
      BY <1>1 DEF Row
    <2> QED BY <1>1, <2>1, RowWrites
  <1>3. logs' = [logs EXCEPT ![l] = row]
    OBVIOUS
  <1> HIDE DEF row
  <1> QED BY <1>2, <1>3, RowChanges

\* One call goes on.
LEMMA OneFollows ==
    ASSUME TypeInv, NEW c \in Callers, NEW k \in Call(Len(flight.rts)), Go(c, k),
           Follows(calls[c], k)
    PROVE  CallsFollow
  BY GoType DEF TypeInv, CallsFollow

\* A call that takes up none of these.
Free == Labels \ (Launching \cup {"editing"} \cup OfCue)
LEMMA FreeFollows ==
    ASSUME NEW old, NEW new, Stage(new) \in Free,
           new.due \subseteq old.due \cup {l \in Logs : logs[l].sched # Unclocked}
    PROVE  Follows(old, new)
  BY DEF Follows, Free

LEMMA FreeStages ==
    {"idle", "claim", "end", "prepare", "prepared", "resume", "persist", "announce", "start", "activate",
     "activating", "point", "unmark", "forget", "unlist", "unpointDeleted", "publishing",
     "edited", "rewind", "unpoint"} \subseteq Free
  BY DEF Free, Labels, Launching, OfLog, OfRuntime, OfCue

\* One step further in a stop, or to what follows it.
LEMMA SameStage ==
    ASSUME NEW n, NEW k \in Call(n), k.at \in Cutting, NEW k2, k2 \in CallRecord(n),
           Stage(k2) = k.then, k2.log = k.log, k2.snap = k.snap, k2.rt = k.rt,
           k2.items = k.items, k2.due = k.due
    PROVE  k2 \in Call(n) /\ Follows(k, k2)
  <1>1. Stage(k) = k.then /\ k.then # "editing"
    BY DEF Call, CallRecord, Aims, Stage, Cutting
  <1> QED BY <1>1 DEF Call, Follows

\* What an action that has no more to do with them leaves as it was.
LEMMA RestStays ==
    ASSUME TypeInv
    PROVE  /\ UNCHANGED flight => Becomes(flight, flight')
           /\ UNCHANGED <<pointer, radio, playable, clock, left>> => RestTyped
           /\ UNCHANGED calls => CallsFollow
  BY Typed DEF RestTyped, CallsFollow

LEMMA SpendType ==
    ASSUME TypeInv, NEW kind \in Steps, Spend(kind)
    PROVE  left' \in [Steps -> Nat]
  BY Typed DEF Spend

--------------------------------------------------------------------------------
\* stopRuntime and stopProgramSong

\* A call that is cut off to the next part of its stop.
LEMMA CutFurther ==
    ASSUME TypeInv, NEW c \in Callers, calls[c].at \in Cutting, NEW at \in Cutting,
           Go(c, [calls[c] EXCEPT !.at = at])
    PROVE  CallsFollow
  <1> DEFINE k == [calls[c] EXCEPT !.at = at]
  <1>1. calls[c] \in Call(Len(flight.rts)) /\ calls[c] \in CallRecord(Len(flight.rts))
    BY Typed
  <1>2. at \in Labels
    BY DEF Cutting, Labels
  <1>3. /\ k \in CallRecord(Len(flight.rts)) /\ k.at = at /\ k.then = calls[c].then
        /\ k.log = calls[c].log /\ k.snap = calls[c].snap /\ k.rt = calls[c].rt
        /\ k.items = calls[c].items /\ k.due = calls[c].due
    BY <1>1, <1>2 DEF CallRecord
  <1> HIDE DEF k
  <1>4. Stage(k) = calls[c].then
    BY <1>3 DEF Stage, Cutting
  <1>5. k \in Call(Len(flight.rts)) /\ Follows(calls[c], k)
    BY <1>1, <1>3, <1>4, SameStage
  <1> QED BY <1>5, OneFollows DEF k

\* The stop is over: what the call does next.
LEMMA OnwardFollows ==
    ASSUME TypeInv, NEW c \in Callers, calls[c].at \in Cutting,
           Go(c, Onward(calls[c], calls[c].then))
    PROVE  CallsFollow
  <1> DEFINE k == Onward(calls[c], calls[c].then)
             m == [calls[c] EXCEPT !.at = calls[c].then]
  <1>1. /\ calls[c] \in Call(Len(flight.rts)) /\ calls[c] \in CallRecord(Len(flight.rts))
        /\ Len(flight.rts) \in Nat
    BY Typed
  <1>2. calls[c].then \in Labels
    BY <1>1 DEF CallRecord, Aims
  <1>3. /\ m \in CallRecord(Len(flight.rts)) /\ m.at = calls[c].then /\ m.then = calls[c].then
        /\ m.log = calls[c].log /\ m.snap = calls[c].snap /\ m.rt = calls[c].rt
        /\ m.items = calls[c].items /\ m.due = calls[c].due
    BY <1>1, <1>2 DEF CallRecord
  <1>4. k = m \/ k = Returned(calls[c])
    BY DEF Onward
  <1> HIDE DEF k, m
  <1>5. Stage(m) = calls[c].then
    BY <1>3 DEF Stage
  <1>6. m \in Call(Len(flight.rts)) /\ Follows(calls[c], m)
    BY <1>1, <1>3, <1>5, SameStage
  <1>7. Returned(calls[c]) \in Call(Len(flight.rts)) /\ Follows(calls[c], Returned(calls[c]))
    BY <1>1, ReturnedType, FreeStages, FreeFollows
  <1>8. k \in Call(Len(flight.rts)) /\ Follows(calls[c], k)
    BY <1>4, <1>6, <1>7
  <1> QED BY <1>8, OneFollows DEF k

LEMMA StopMarksStep ==
    ASSUME TypeInv, NEW c \in Callers, StopMarks(c)
    PROVE  Ordinary
  <1> DEFINE l == calls[c].target
  <1>1. calls[c] \in CallRecord(Len(flight.rts)) /\ logs \in [Logs -> Row]
    BY Typed
  <1>2. CallsFollow
    BY CutFurther DEF StopMarks, Cutting
  <1>3. RowsKeep
    <2>1. CASE l = None
      BY <2>1, RowsStay DEF StopMarks
    <2>2. CASE l # None
      <3>1. l \in Logs
        BY <1>1, <2>2 DEF CallRecord
      <3>2. logs' = [logs EXCEPT ![l].running = FALSE]
        BY <2>2 DEF StopMarks
      <3> QED BY <3>1, <3>2, RowMarked
    <2> QED BY <2>1, <2>2
  <1> QED BY <1>2, <1>3, RestStays DEF StopMarks, Ordinary

LEMMA StopCutsStep ==
    ASSUME TypeInv, NEW c \in Callers, StopCuts(c)
    PROVE  Ordinary
  <1>1. CallsFollow
    BY CutFurther DEF StopCuts, Cutting
  <1>2. RestTyped
    BY Typed, RadioType DEF StopCuts, RestTyped
  <1> QED BY <1>1, <1>2, RowsStay, RestStays DEF StopCuts, Ordinary

LEMMA StopForwardsStep ==
    ASSUME TypeInv, NEW c \in Callers, StopForwards(c)
    PROVE  Ordinary
  <1>1. CallsFollow
    BY CutFurther DEF StopForwards, Cutting
  <1>2. RestTyped
    BY Typed, RadioType, SilencedType DEF StopForwards, RestTyped
  <1> QED BY <1>1, <1>2, RowsStay, RestStays DEF StopForwards, Ordinary

LEMMA StopEndsStep ==
    ASSUME TypeInv, NEW c \in Callers, StopEnds(c)
    PROVE  Ordinary
  <1>1. CallsFollow
    BY OnwardFollows DEF StopEnds, Cutting
  <1>2. RestTyped
    BY Typed DEF StopEnds, RestTyped, Radio
  <1>3. Becomes(flight, flight')
    BY Typed, ReleasedType DEF StopEnds, CallRecord
  <1> QED BY <1>1, <1>2, <1>3, RowsStay DEF StopEnds, Ordinary

\* An error ends what a call does, or has it stop the program.
LEMMA FailedFollows ==
    ASSUME TypeInv, NEW c \in Callers, NEW f, f.owner \in 0..Len(flight.rts),
           Go(c, Failed(calls[c], f))
    PROVE  CallsFollow
  <1> DEFINE k == Failed(calls[c], f)
  <1>1. /\ k \in Call(Len(flight.rts)) /\ k.due = calls[c].due
        /\ Stage(k) \in {"idle", "claim", "end"}
    BY Typed, FailedType
  <1> HIDE DEF k
  <1>2. Follows(calls[c], k)
    BY <1>1, FreeStages, FreeFollows
  <1> QED BY <1>1, <1>2, OneFollows DEF k

LEMMA FailsStep ==
    ASSUME TypeInv, NEW c \in Callers, Fails(c)
    PROVE  Becomes(flight, flight') /\ CallsFollow
  BY Typed, StopBegunType, FailedFollows DEF Fails

LEMMA StopFailsStep ==
    ASSUME TypeInv, NEW c \in Callers, StopFails(c)
    PROVE  Ordinary
  <1> DEFINE f == Released(flight, calls[c].held)
  <1>0. "fail" \in Steps
    BY DEF Steps
  <1>1. Becomes(flight, f)
    BY Typed, ReleasedType DEF CallRecord
  <1>2. IsMemory(f) /\ Len(f.rts) = Len(flight.rts) /\ f.owner \in 0..Len(flight.rts)
    BY <1>1, MemoryParts DEF Becomes, SameRuns
  <1>3. Becomes(f, StopBegun(f))
    BY <1>2, StopBegunType
  <1>4. \/ /\ flight' = StopBegun(f) \/ flight' = f
           /\ Go(c, Failed(calls[c], f))
        \/ /\ flight' = f
           /\ Go(c, Onward(calls[c], calls[c].then))
    BY DEF StopFails
  <1>5. RestTyped
    BY <1>0, Typed, RadioType, SpendType DEF StopFails, RestTyped
  <1> HIDE DEF f
  <1>6. Becomes(flight, flight')
    BY <1>1, <1>3, <1>4, BecomesTransitive
  <1>7. CallsFollow
    BY <1>2, <1>4, FailedFollows, OnwardFollows DEF StopFails, Cutting
  <1> QED BY <1>5, <1>6, <1>7, RowsStay DEF StopFails, Ordinary

--------------------------------------------------------------------------------
\* finishBlock, and start up to its checks

\* A call that is not in a stop goes on to another part of itself.
LEMMA GoesTo ==
    ASSUME TypeInv, NEW c \in Callers, NEW at \in Free \ Cutting,
           at \in OfLog => calls[c].log \in Logs, at \in OfRuntime => calls[c].rt # 0,
           Go(c, [calls[c] EXCEPT !.at = at])
    PROVE  CallsFollow
  <1> DEFINE k == [calls[c] EXCEPT !.at = at]
  <1>1. calls[c] \in CallRecord(Len(flight.rts))
    BY Typed
  <1>2. at \in Labels /\ at \notin OfCue
    BY DEF Free
  <1>3. /\ k \in CallRecord(Len(flight.rts)) /\ k.at = at /\ k.log = calls[c].log
        /\ k.rt = calls[c].rt /\ k.due = calls[c].due
    BY <1>1, <1>2 DEF CallRecord
  <1> HIDE DEF k
  <1>4. k \in Call(Len(flight.rts)) /\ Stage(k) = at
    BY <1>2, <1>3, PlainCall
  <1>5. Follows(calls[c], k)
    BY <1>3, <1>4, FreeFollows
  <1> QED BY <1>4, <1>5, OneFollows DEF k

\* What a call is about, by where it is.
LEMMA StageType ==
    ASSUME TypeInv, NEW c \in Callers
    PROVE  /\ calls[c].at \in OfLog => calls[c].log \in Logs /\ Stage(calls[c]) = calls[c].at
           /\ calls[c].at \in OfRuntime => /\ calls[c].rt \in 1..Len(flight.rts)
                                            /\ Stage(calls[c]) = calls[c].at
  <1>1. calls[c] \in Call(Len(flight.rts)) /\ calls[c] \in CallRecord(Len(flight.rts))
    BY Typed
  <1>2. calls[c].at \in OfLog \cup OfRuntime => Stage(calls[c]) = calls[c].at
    BY DEF Stage, OfLog, OfRuntime
  <1> QED BY <1>1, <1>2, Typed DEF Call, CallRecord

LEMMA PreparesStep ==
    ASSUME TypeInv, NEW c \in Callers, Prepares(c)
    PROVE  Ordinary
  <1>1. CallsFollow
    BY GoesTo, FreeStages DEF Prepares, Cutting, OfLog, OfRuntime
  <1>2. RestTyped
    BY Typed DEF Prepares, RestTyped, Radio, CallRecord
  <1> QED BY <1>1, <1>2, RowsStay, RestStays DEF Prepares, Ordinary

LEMMA PrepareFailsStep ==
    ASSUME TypeInv, NEW c \in Callers, PrepareFails(c)
    PROVE  Ordinary
  <1>1. "fail" \in Steps
    BY DEF Steps
  <1>2. RestTyped
    BY <1>1, Typed, SpendType DEF PrepareFails, RestTyped
  <1> QED BY <1>2, FailsStep, RowsStay DEF PrepareFails, Ordinary

\* A call that stops the program first, for the sake of something free to take up.
LEMMA StoppingFollows ==
    ASSUME TypeInv, NEW c \in Callers, NEW then \in Free \cap Aims, NEW keep \in BOOLEAN,
           NEW k \in CallRecord(Len(flight.rts)), k.due \subseteq calls[c].due,
           then \in OfLog => k.log \in Logs, then \in OfRuntime => k.rt # 0,
           Go(c, Stopping(k, flight, keep, then))
    PROVE  CallsFollow
  <1> DEFINE s == Stopping(k, flight, keep, then)
  <1>1. s \in Call(Len(flight.rts)) /\ s.due = k.due /\ Stage(s) = then
    BY Typed, StoppingType DEF Free
  <1> HIDE DEF s
  <1>2. Follows(calls[c], s)
    BY <1>1, FreeFollows
  <1> QED BY <1>1, <1>2, OneFollows DEF s

LEMMA PreparedStep ==
    ASSUME TypeInv, NEW c \in Callers, Prepared(c)
    PROVE  Ordinary
  <1>1. CallsFollow
    <2>1. "resume" \in Free \cap Aims /\ "resume" \notin OfLog \cup OfRuntime
      BY FreeStages DEF Aims, Labels, OfLog, OfRuntime
    <2> DEFINE keep == TRUE
    <2>2. keep \in BOOLEAN
      OBVIOUS
    <2>3. Go(c, Stopping(calls[c], flight, keep, "resume"))
      BY DEF Prepared
    <2> HIDE DEF keep
    <2> QED BY <2>1, <2>2, <2>3, Typed, StoppingFollows
  <1>2. RestTyped
    BY Typed DEF Prepared, RestTyped, Radio, CallRecord
  <1>3. Becomes(flight, flight')
    BY Typed, StopBegunType DEF Prepared
  <1> QED BY <1>1, <1>2, <1>3, RowsStay DEF Prepared, Ordinary

\* A call returns, and the scheduler claims the next log.
LEMMA ReturnedFollows ==
    ASSUME TypeInv, NEW c \in Callers, Go(c, Returned(calls[c]))
    PROVE  CallsFollow
  <1> DEFINE k == Returned(calls[c])
  <1>1. k \in Call(Len(flight.rts)) /\ k.due = calls[c].due /\ Stage(k) \in {"idle", "claim"}
    BY Typed, ReturnedType
  <1> HIDE DEF k
  <1>2. Follows(calls[c], k)
    BY <1>1, FreeStages, FreeFollows
  <1> QED BY <1>1, <1>2, OneFollows DEF k

LEMMA ResumesStep ==
    ASSUME TypeInv, NEW c \in Callers, Resumes(c)
    PROVE  Ordinary
  <1>1. CallsFollow
    BY ReturnedFollows DEF Resumes
  <1>2. RestTyped
    BY Typed, RadioType DEF Resumes, Resumed, RestTyped
  <1> QED BY <1>1, <1>2, RowsStay, RestStays DEF Resumes, Ordinary

LEMMA StartReadsStep ==
    ASSUME TypeInv, NEW c \in Callers, StartReads(c)
    PROVE  Ordinary
  <1>1. CASE Fails(c)
    BY <1>1, FailsStep, RowsStay, RestStays DEF StartReads, Ordinary
  <1>2. CASE ~Fails(c)
    <2> DEFINE k == [calls[c] EXCEPT !.at = "starting", !.log = pointer, !.snap = logs[pointer]]
    <2>1. pointer \in Logs /\ logs[pointer] \in Row /\ Go(c, k) /\ UNCHANGED flight
      BY <1>2, Typed DEF StartReads
    <2>2. "starting" \in Labels /\ "starting" \notin Cutting \cup OfCue \cup OfRuntime
      BY DEF Labels, Cutting, OfCue, OfRuntime, OfLog
    <2>3. /\ k \in CallRecord(Len(flight.rts)) /\ k.at = "starting" /\ k.due = calls[c].due
          /\ k.log = pointer /\ k.snap = logs[pointer]
      BY <2>1, <2>2, Typed DEF CallRecord
    <2> HIDE DEF k
    <2>4. k \in Call(Len(flight.rts)) /\ Stage(k) = "starting"
      BY <2>1, <2>2, <2>3, PlainCall
    <2>5. Follows(calls[c], k)
      BY <2>2, <2>3, <2>4 DEF Follows
    <2>6. CallsFollow
      BY <2>1, <2>4, <2>5, OneFollows
    <2> QED BY <2>1, <2>6, RowsStay, RestStays DEF StartReads, Ordinary
  <1> QED BY <1>1, <1>2

--------------------------------------------------------------------------------
\* The launch of a runtime

LEMMA Widening ==
    ASSUME NEW n \in Nat
    PROVE  /\ Armable(n) \subseteq Armable(n + 1)
           /\ Seq(Waiting(n)) \subseteq Seq(Waiting(n + 1))
           /\ Call(n) \subseteq Call(n + 1)
  <1>1. Armable(n) \subseteq Armable(n + 1)
    BY DEF Armable
  <1>2. Waiting(n) \subseteq Waiting(n + 1)
    BY DEF Waiting
  <1>3. Call(n) \subseteq Call(n + 1)
    BY CallGrows
  <1> QED BY <1>1, <1>2, <1>3, SeqMonotonic

\* A runtime is made of what a call read and goes into the map.
Launched(c) ==
    LET n  == Len(flight.rts)
        rt == flight'.rts[n + 1]
    IN  /\ Stage(calls[c]) \in Launching
        /\ RowsKeep /\ RestTyped /\ claimed' = claimed
        /\ IsMemory(flight') /\ Len(flight'.rts) = n + 1
        /\ \A r \in 1..n : flight'.rts[r] = flight.rts[r]
        /\ rt.log = calls[c].log /\ rt.sched = calls[c].snap.sched
        /\ rt.sched # Unclocked => calls[c].snap.started \/ logs'[calls[c].log].started
        /\ calls' \in [Callers -> Call(n + 1)]
        /\ \A d \in Callers : calls'[d] = calls[d] \/ Follows(calls[d], calls'[d])

LEMMA LaunchStep ==
    ASSUME TypeInv, NEW c \in Callers, Launch(c), calls[c].at \in Launching,
           UNCHANGED <<pointer, radio, playable, clock, claimed, left>>
    PROVE  Launched(c)
  <1> DEFINE n    == Len(flight.rts)
             call == calls[c]
             row  == call.snap
             mark == row.sched # Unclocked /\ ~row.started
             rt   == [log |-> call.log, items |-> row.items, loop |-> row.loop,
                      sched |-> row.sched, index |-> FirstIndex, running |-> TRUE, gen |-> 0,
                      timer |-> NoTimer, waiting |-> FALSE, clipAt |-> Unset]
             s    == Append(flight.rts, rt)
  <1>1. /\ n \in Nat /\ call \in CallRecord(n) /\ call \in Call(n) /\ call.log \in Logs
        /\ Stage(call) = call.at /\ row \in Row
    <2>1. call.at \in OfLog
      BY DEF Launching, OfLog
    <2> QED BY <2>1, Typed, StageType DEF CallRecord
  <1>2. rt \in Run
    <2>1. rt \in Runtime
      BY <1>1, NoTimerType DEF Runtime, Row, FirstIndex, Unset
    <2> QED BY <2>1 DEF Run
  <1>3. flight.rts \in Seq(Run)
    BY Typed, MemoryParts
  <1>4. /\ s \in Seq(Run) /\ Len(s) = n + 1 /\ s[n + 1] = rt
        /\ \A r \in 1..n : s[r] = flight.rts[r]
    BY <1>2, <1>3, AppendProperties, LenProperties
  <1>5. flight' = [flight EXCEPT !.rts = s, !.owner = n + 1]
    BY DEF Launch
  <1>6. rt.log = call.log /\ rt.sched = row.sched
    OBVIOUS
  <1> HIDE DEF rt, s
  <1>7. IsMemory(flight') /\ flight'.rts = s
    <2>1. flight \in [rts : Seq(Run), owner : 0..n, timers : SUBSET Armable(n),
                      lock : Seq(Waiting(n))]
      BY Typed, MemoryParts
    <2>2. flight \in [rts : Seq(Run), owner : 0..n + 1, timers : SUBSET Armable(n + 1),
                      lock : Seq(Waiting(n + 1))]
      BY <1>1, <2>1, Widening
    <2>3. /\ flight'.rts = s
          /\ flight' \in [rts : Seq(Run), owner : 0..n + 1, timers : SUBSET Armable(n + 1),
                          lock : Seq(Waiting(n + 1))]
      <3> DEFINE m == n + 1
      <3>1. /\ flight \in [rts : Seq(Run), owner : 0..m, timers : SUBSET Armable(m),
                            lock : Seq(Waiting(m))]
            /\ m \in 0..m /\ s \in Seq(Run) /\ flight' = [flight EXCEPT !.rts = s, !.owner = m]
        BY <1>1, <1>4, <1>5, <2>2
      <3> HIDE DEF m
      <3>2. /\ flight'.rts = s
            /\ flight' \in [rts : Seq(Run), owner : 0..m, timers : SUBSET Armable(m),
                            lock : Seq(Waiting(m))]
        BY <3>1
      <3> QED BY <3>2 DEF m
    <2> QED BY <1>4, <2>3 DEF IsMemory, Memory
  <1>8. RowsKeep /\ (row.sched # Unclocked => row.started \/ logs'[call.log].started)
    <2>0. logs[call.log] \in Row /\ logs \in [Logs -> Row]
      BY <1>1, Typed
    <2>1. CASE mark
      <3>1. logs' = [logs EXCEPT ![call.log].started = TRUE]
        BY <2>1 DEF Launch
      <3> DEFINE new == [logs[call.log] EXCEPT !.started = TRUE]
      <3>2. RowKeeps(logs[call.log], new)
        <4>1. logs[call.log].rev \in Nat /\ logs[call.log].rev <= logs[call.log].rev
          BY <2>0 DEF Row
        <4> QED BY <2>0, <4>1, RowWrites
      <3>3. logs' = [logs EXCEPT ![call.log] = new]
        BY <3>1
      <3>4. new.started
        BY <2>0 DEF Row
      <3> HIDE DEF new
      <3>5. logs'[call.log].started
        BY <1>1, <2>0, <3>3, <3>4
      <3> QED BY <1>1, <3>2, <3>3, <3>5, RowChanges
    <2>2. CASE ~mark
      <3> DEFINE b == TRUE
      <3>1. logs' = [logs EXCEPT ![call.log].running = b] /\ b \in BOOLEAN
        BY <2>2 DEF Launch
      <3> HIDE DEF b
      <3>2. RowsKeep
        BY <1>1, <3>1, RowMarked
      <3> QED BY <2>2, <3>2
    <2> QED BY <2>1, <2>2
  <1>9. /\ calls' \in [Callers -> Call(n + 1)]
        /\ \A d \in Callers : calls'[d] = calls[d] \/ Follows(calls[d], calls'[d])
    <2> DEFINE at == IF mark THEN "persist" ELSE "announce"
               k  == [call EXCEPT !.at = at, !.rt = n + 1]
    <2>1. Go(c, k)
      BY DEF Launch
    <2>2. at \in Labels /\ at \notin Cutting \cup OfCue /\ at \in OfLog /\ at \in Free
      BY FreeStages DEF Labels, Cutting, OfLog, OfCue
    <2> HIDE DEF at
    <2>8. call \in CallRecord(n + 1) /\ n + 1 \in 0..n + 1 /\ n + 1 # 0
      BY <1>1, Widening DEF Call
    <2>3. k \in CallRecord(n + 1) /\ k.at = at /\ k.log = call.log /\ k.rt # 0 /\ k.due = call.due
      <3> DEFINE m == n + 1
      <3>1. call \in CallRecord(m) /\ m \in 0..m /\ m # 0 /\ k = [call EXCEPT !.at = at, !.rt = m]
        BY <2>8
      <3> HIDE DEF m, k
      <3>2. k \in CallRecord(m) /\ k.at = at /\ k.log = call.log /\ k.rt # 0 /\ k.due = call.due
        BY <2>2, <3>1 DEF CallRecord
      <3> QED BY <3>2 DEF m
    <2> HIDE DEF k
    <2>4. k \in Call(n + 1) /\ Stage(k) = at
      BY <1>1, <2>2, <2>3, PlainCall
    <2>5. Follows(call, k)
      BY <2>2, <2>3, <2>4, FreeFollows
    <2>6. calls \in [Callers -> Call(n + 1)]
      BY <1>1, Widening, Typed
    <2>7. /\ calls' \in [Callers -> Call(n + 1)] /\ calls'[c] = k
          /\ \A d \in Callers \ {c} : calls'[d] = calls[d]
      BY <2>1, <2>4, <2>6, GoType
    <2> QED BY <2>5, <2>7
  <1>10. RestTyped
    BY RestStays
  <1> QED BY <1>1, <1>4, <1>6, <1>7, <1>8, <1>9, <1>10 DEF Launched

LEMMA StartChecksStep ==
    ASSUME TypeInv, NEW c \in Callers, StartChecks(c)
    PROVE  Ordinary \/ Launched(c)
  <1> DEFINE clocked == calls[c].snap.sched # Unclocked
             k == Stopping(calls[c], flight, clocked, "launch")
  <1>1. CASE Fails(c) /\ UNCHANGED logs
    BY <1>1, FailsStep, RowsStay, RestStays DEF StartChecks, Ordinary
  <1>2. CASE flight' = StopBegun(flight) /\ Go(c, k) /\ UNCHANGED logs
    <2>1. Becomes(flight, flight')
      BY <1>2, Typed, StopBegunType
    <2>2. /\ "launch" \in Aims /\ "launch" \in OfLog /\ "launch" \notin OfRuntime \cup OfCue
          /\ "starting" \in OfLog /\ "launch" # "editing"
      BY DEF Aims, Labels, OfLog, OfRuntime, OfCue
    <2>3. calls[c].log \in Logs /\ Stage(calls[c]) = "starting" /\ clocked \in BOOLEAN
      BY <2>2, StageType DEF StartChecks
    <2> HIDE DEF clocked
    <2>4. /\ k \in Call(Len(flight.rts)) /\ Stage(k) = "launch" /\ k.due = calls[c].due
          /\ k.log = calls[c].log /\ k.snap = calls[c].snap
      BY <2>2, <2>3, Typed, StoppingType
    <2> HIDE DEF k
    <2>5. Follows(calls[c], k)
      BY <2>2, <2>3, <2>4 DEF Follows, Launching
    <2>6. CallsFollow
      BY <1>2, <2>4, <2>5, OneFollows
    <2> QED BY <1>2, <2>1, <2>6, RowsStay, RestStays DEF StartChecks, Ordinary
  <1>3. CASE Launch(c)
    BY <1>3, LaunchStep DEF StartChecks, Launching
  <1> QED BY <1>1, <1>2, <1>3 DEF StartChecks

LEMMA StartLaunchesStep ==
    ASSUME TypeInv, NEW c \in Callers, StartLaunches(c)
    PROVE  Launched(c)
  BY LaunchStep DEF StartLaunches, Launching

LEMMA StartPersistsStep ==
    ASSUME TypeInv, NEW c \in Callers, StartPersists(c)
    PROVE  Ordinary
  <1>1. calls[c].log \in Logs /\ calls[c].rt \in 1..Len(flight.rts)
    BY StageType DEF StartPersists, OfLog, OfRuntime
  <1>2. flight.rts[calls[c].rt].running \in BOOLEAN
    <2>1. flight.rts[calls[c].rt] \in Runtime
      BY <1>1, Typed, MemoryParts
    <2> QED BY <2>1 DEF Runtime
  <1>3. RowsKeep
    BY <1>1, <1>2, RowMarked DEF StartPersists
  <1>4. CallsFollow
    <2>1. calls[c].rt # 0 /\ "announce" \in Free \ Cutting
      BY <1>1, FreeStages DEF Cutting
    <2> QED BY <1>1, <2>1, GoesTo DEF StartPersists
  <1> QED BY <1>3, <1>4, RestStays DEF StartPersists, Ordinary

LEMMA StartAnnouncesStep ==
    ASSUME TypeInv, NEW c \in Callers, StartAnnounces(c)
    PROVE  Ordinary
  <1>1. calls[c].rt \in 1..Len(flight.rts)
    BY StageType DEF StartAnnounces, OfRuntime
  <1>2. flight.rts[calls[c].rt].gen \in Nat /\ 1 \in Nat \ {0}
    <2>1. flight.rts[calls[c].rt] \in Runtime
      BY <1>1, Typed, MemoryParts
    <2> QED BY <2>1 DEF Runtime
  <1>3. Becomes(flight, flight')
    BY <1>1, <1>2, Typed, RequestedType DEF StartAnnounces
  <1>4. CallsFollow
    BY ReturnedFollows DEF StartAnnounces
  <1> QED BY <1>3, <1>4, RowsStay, RestStays DEF StartAnnounces, Ordinary

--------------------------------------------------------------------------------
\* activate, deactivate, reset, delete, publish

\* A call begins something free to take up.
LEMMA Begins ==
    ASSUME TypeInv, NEW c \in Callers, NEW k \in CallRecord(Len(flight.rts)),
           k.at \in Free \ Cutting, k.at \in OfLog => k.log \in Logs, k.at \notin OfRuntime,
           k.due \subseteq calls[c].due \cup {l \in Logs : logs[l].sched # Unclocked},
           Go(c, k)
    PROVE  CallsFollow
  <1>1. k \in Call(Len(flight.rts)) /\ Stage(k) = k.at
    BY PlainCall DEF Free
  <1>2. Follows(calls[c], k)
    BY <1>1, FreeFollows
  <1> QED BY <1>1, <1>2, OneFollows

LEMMA IdleFacts ==
    ASSUME NEW n \in Nat
    PROVE  /\ Idle \in CallRecord(n) /\ Idle.at = "idle" /\ Idle.due = {}
           /\ "idle" \in Free \ Cutting /\ "idle" \notin OfLog \cup OfRuntime
  <1>1. Idle \in CallRecord(n)
    BY IdleType DEF Call
  <1> QED BY <1>1, FreeStages DEF Idle, Cutting, OfLog, OfRuntime

\* A call returns, or goes on from nothing.
LEMMA IdleFollows ==
    ASSUME TypeInv, NEW c \in Callers, Go(c, Idle)
    PROVE  CallsFollow
  <1>1. Len(flight.rts) \in Nat
    BY Typed
  <1>2. Idle.due \subseteq calls[c].due \cup {l \in Logs : logs[l].sched # Unclocked}
    BY <1>1, IdleFacts
  <1> QED BY <1>1, <1>2, IdleFacts, Begins

LEMMA StartFollows ==
    ASSUME TypeInv, NEW c \in Callers, Go(c, [Idle EXCEPT !.at = "start"])
    PROVE  CallsFollow
  <1> DEFINE k == [Idle EXCEPT !.at = "start"]
  <1>1. Len(flight.rts) \in Nat
    BY Typed
  <1>2. "start" \in Labels /\ "start" \in Free \ Cutting /\ "start" \notin OfLog \cup OfRuntime
    BY FreeStages DEF Labels, Cutting, OfLog, OfRuntime
  <1>3. k \in CallRecord(Len(flight.rts)) /\ k.at = "start" /\ k.due = {}
    BY <1>1, <1>2, IdleFacts DEF CallRecord
  <1> HIDE DEF k
  <1>4. k.due \subseteq calls[c].due \cup {l \in Logs : logs[l].sched # Unclocked}
    BY <1>3
  <1>5. Go(c, k)
    BY DEF k
  <1> QED BY <1>2, <1>3, <1>4, <1>5, Begins

LEMMA ActivateReadsStep ==
    ASSUME TypeInv, NEW c \in Callers, ActivateReads(c)
    PROVE  Ordinary
  <1>1. CASE Fails(c)
    BY <1>1, FailsStep, RowsStay, RestStays DEF ActivateReads, Ordinary
  <1>2. CASE ~Fails(c)
    <2> DEFINE k == [calls[c] EXCEPT !.at = "activating", !.snap = logs[calls[c].log]]
    <2>1. Go(c, k) /\ UNCHANGED flight
      BY <1>2 DEF ActivateReads
    <2>2. /\ "activating" \in Labels /\ "activating" \in Free \ Cutting
          /\ "activating" \notin OfRuntime /\ "activate" \in OfLog
      BY FreeStages DEF Labels, Cutting, OfLog, OfRuntime
    <2>3. calls[c].log \in Logs /\ logs[calls[c].log] \in Row
      BY <2>2, StageType, Typed DEF ActivateReads
    <2>4. /\ k \in CallRecord(Len(flight.rts)) /\ k.at = "activating" /\ k.due = calls[c].due
          /\ k.log = calls[c].log
      BY <2>2, <2>3, Typed DEF CallRecord
    <2> HIDE DEF k
    <2>5. CallsFollow
      BY <2>1, <2>2, <2>3, <2>4, Begins
    <2> QED BY <2>1, <2>5, RowsStay, RestStays DEF ActivateReads, Ordinary
  <1> QED BY <1>1, <1>2

LEMMA PointStep ==
    ASSUME TypeInv, NEW c \in Callers, Point(c), calls[c].log \in Logs,
           UNCHANGED <<logs, radio, playable, clock, claimed, left>>
    PROVE  Ordinary
  <1>1. Becomes(flight, flight')
    BY Typed, ReleasedType DEF Point
  <1>2. CallsFollow
    <2>1. "unmark" \in Free \ Cutting /\ "unmark" \notin OfRuntime
      BY FreeStages DEF Cutting, OfRuntime
    <2> QED BY <2>1, GoesTo DEF Point
  <1>3. RestTyped
    BY Typed DEF RestTyped, Point
  <1> QED BY <1>1, <1>2, <1>3, RowsStay DEF Ordinary

LEMMA ActivateChecksStep ==
    ASSUME TypeInv, NEW c \in Callers, ActivateChecks(c)
    PROVE  Ordinary
  <1> DEFINE clocked == calls[c].snap.sched # Unclocked
  <1>0. calls[c].log \in Logs
    BY StageType DEF ActivateChecks, OfLog
  <1>1. CASE Fails(c) /\ UNCHANGED pointer
    BY <1>1, FailsStep, RowsStay, RestStays DEF ActivateChecks, Ordinary
  <1>2. CASE /\ flight' = StopBegun(flight) /\ UNCHANGED pointer
             /\ Go(c, Stopping(calls[c], flight, clocked, "point"))
    <2>1. Becomes(flight, flight')
      BY <1>2, Typed, StopBegunType
    <2>2. "point" \in Free \cap Aims /\ "point" \notin OfRuntime
      BY FreeStages DEF Aims, Labels, OfLog, OfRuntime
    <2>3. clocked \in BOOLEAN
      OBVIOUS
    <2> HIDE DEF clocked
    <2>4. CallsFollow
      BY <1>0, <1>2, <2>2, <2>3, Typed, StoppingFollows
    <2> QED BY <1>2, <2>1, <2>4, RowsStay, RestStays DEF ActivateChecks, Ordinary
  <1>3. CASE Point(c)
    BY <1>0, <1>3, PointStep DEF ActivateChecks
  <1> QED BY <1>1, <1>2, <1>3 DEF ActivateChecks

LEMMA ActivatePointsStep ==
    ASSUME TypeInv, NEW c \in Callers, ActivatePoints(c)
    PROVE  Ordinary
  <1>1. calls[c].log \in Logs
    BY StageType DEF ActivatePoints, OfLog
  <1> QED BY <1>1, PointStep DEF ActivatePoints

LEMMA ActivateUnmarksStep ==
    ASSUME TypeInv, NEW c \in Callers, ActivateUnmarks(c)
    PROVE  Ordinary
  <1>1. RowsKeep
    <2>1. calls[c].log \in Logs
      BY StageType DEF ActivateUnmarks, OfLog
    <2> DEFINE b == FALSE
    <2>2. logs' = [logs EXCEPT ![calls[c].log].running = b] /\ b \in BOOLEAN
      BY DEF ActivateUnmarks
    <2> HIDE DEF b
    <2> QED BY <2>1, <2>2, RowMarked
  <1>2. CASE Go(c, Idle)
    BY <1>1, <1>2, IdleFollows, RestStays DEF ActivateUnmarks, Ordinary
  <1>3. CASE Go(c, [calls[c] EXCEPT !.at = "start"])
    <2>1. "start" \in Free \ Cutting /\ "start" \notin OfLog \cup OfRuntime
      BY FreeStages DEF Cutting, OfLog, OfRuntime
    <2>2. CallsFollow
      BY <1>3, <2>1, GoesTo
    <2> QED BY <1>1, <2>2, RestStays DEF ActivateUnmarks, Ordinary
  <1> QED BY <1>2, <1>3 DEF ActivateUnmarks

LEMMA DeactivateEndsStep ==
    ASSUME TypeInv, NEW c \in Callers, DeactivateEnds(c)
    PROVE  Ordinary
  <1>1. Becomes(flight, flight')
    BY Typed, ReleasedType DEF DeactivateEnds
  <1>2. CallsFollow
    BY IdleFollows DEF DeactivateEnds
  <1>3. RestTyped
    BY Typed DEF RestTyped, DeactivateEnds
  <1> QED BY <1>1, <1>2, <1>3, RowsStay DEF DeactivateEnds, Ordinary

LEMMA ResetRewindsStep ==
    ASSUME TypeInv, NEW c \in Callers, ResetRewinds(c)
    PROVE  Ordinary
  <1>1. RowsKeep
    <2>1. CASE pointer = None
      BY <2>1, RowsStay DEF ResetRewinds
    <2>2. CASE pointer # None
      <3> DEFINE b == FALSE
      <3>1. pointer \in Logs /\ b \in BOOLEAN
        BY <2>2, Typed
      <3>2. logs' = [logs EXCEPT ![pointer].running = b]
        BY <2>2 DEF ResetRewinds
      <3> HIDE DEF b
      <3> QED BY <3>1, <3>2, RowMarked
    <2> QED BY <2>1, <2>2
  <1>2. CallsFollow
    BY IdleFollows, StartFollows DEF ResetRewinds
  <1> QED BY <1>1, <1>2, RestStays DEF ResetRewinds, Ordinary

LEMMA DeleteUnlistsStep ==
    ASSUME TypeInv, NEW c \in Callers, DeleteUnlists(c)
    PROVE  Ordinary
  <1>1. calls[c].log \in Logs
    BY StageType DEF DeleteUnlists, OfLog
  <1>2. RowsKeep
    <2>1. logs[calls[c].log] \in Row
      BY <1>1, Typed
    <2> DEFINE b   == FALSE
               row == [logs[calls[c].log] EXCEPT !.exists = b]
    <2>2. b \in BOOLEAN /\ logs' = [logs EXCEPT ![calls[c].log] = row]
      BY DEF DeleteUnlists
    <2> HIDE DEF b
    <2>3. RowKeeps(logs[calls[c].log], row)
      <3>1. logs[calls[c].log].rev \in Nat /\ logs[calls[c].log].rev <= logs[calls[c].log].rev
        BY <2>1 DEF Row
      <3> QED BY <2>1, <2>2, <3>1, RowWrites
    <2> HIDE DEF row
    <2> QED BY <1>1, <2>2, <2>3, RowChanges
  <1>3. Becomes(flight, flight')
    BY Typed, ReleasedType DEF DeleteUnlists
  <1>4. CallsFollow
    <2>1. "unpointDeleted" \in Free \ Cutting /\ "unpointDeleted" \notin OfRuntime
      BY FreeStages DEF Cutting, OfRuntime
    <2> QED BY <1>1, <2>1, GoesTo, IdleFollows DEF DeleteUnlists
  <1> QED BY <1>2, <1>3, <1>4, RestStays DEF DeleteUnlists, Ordinary

LEMMA DeleteUnpointsStep ==
    ASSUME TypeInv, NEW c \in Callers, DeleteUnpoints(c)
    PROVE  Ordinary
  <1>1. RestTyped
    BY Typed DEF RestTyped, DeleteUnpoints
  <1> QED BY <1>1, IdleFollows, RestStays, RowsStay DEF DeleteUnpoints, Ordinary

LEMMA PublishWritesStep ==
    ASSUME TypeInv, NEW c \in Callers, PublishWrites(c)
    PROVE  Ordinary
  <1> DEFINE l   == calls[c].log
             row == [logs[l] EXCEPT !.published = TRUE, !.rev = logs[l].rev + 1]
  <1>1. l \in Logs /\ logs[l] \in Row
    BY StageType, Typed DEF PublishWrites, OfLog
  <1>2. RowsKeep
    <2>1. logs[l].rev + 1 \in Nat /\ logs[l].rev <= logs[l].rev + 1 /\ TRUE \in BOOLEAN
      BY <1>1 DEF Row
    <2>2. RowKeeps(logs[l], row)
      BY <1>1, <2>1, RowWrites
    <2>3. logs' = logs \/ logs' = [logs EXCEPT ![l] = row]
      BY DEF PublishWrites
    <2> HIDE DEF row
    <2> QED BY <1>1, <2>2, <2>3, RowsStay, RowChanges
  <1> QED BY <1>2, IdleFollows, RestStays DEF PublishWrites, Ordinary

--------------------------------------------------------------------------------
\* Requests of an operator

LEMMA AskTypes ==
    ASSUME TypeInv, Asks, UNCHANGED <<pointer, radio, playable, clock>>
    PROVE  RestTyped /\ "operator" \in Callers
  <1>1. "operate" \in Steps /\ "operator" \in Callers
    BY DEF Steps, Callers
  <1>2. left' \in [Steps -> Nat]
    BY <1>1, SpendType DEF Asks
  <1> QED BY <1>1, <1>2, Typed DEF RestTyped

\* A request that stops the program first.
LEMMA AsksToStop ==
    ASSUME TypeInv, NEW c \in Callers, NEW k \in CallRecord(Len(flight.rts)), k.due = {},
           NEW then \in {"end", "rewind", "unpoint", "forget"},
           then = "forget" => k.log \in Logs,
           Go(c, Stopping(k, flight, FALSE, then))
    PROVE  CallsFollow
  <1> DEFINE keep == FALSE
  <1>1. keep \in BOOLEAN /\ Go(c, Stopping(k, flight, keep, then))
    OBVIOUS
  <1>2. /\ then \in Free \cap Aims /\ then \notin OfRuntime /\ k.due \subseteq calls[c].due
        /\ then \in OfLog => then = "forget"
    BY FreeStages DEF Aims, Labels, OfLog, OfRuntime
  <1> HIDE DEF keep
  <1> QED BY <1>1, <1>2, StoppingFollows

LEMMA AskStartStep ==
    ASSUME TypeInv, AskStart
    PROVE  Ordinary
  BY AskTypes, StartFollows, RowsStay, RestStays DEF AskStart, Answered, Quiet, Ordinary

LEMMA AskStopStep ==
    ASSUME TypeInv, AskStop
    PROVE  Ordinary
  <1>1. RestTyped /\ "operator" \in Callers
    BY AskTypes DEF AskStop, Quiet
  <1>2. CallsFollow
    BY <1>1, Typed, IdleFacts, AsksToStop DEF AskStop, Answered
  <1>3. Becomes(flight, flight')
    BY Typed, StopBegunType DEF AskStop
  <1> QED BY <1>1, <1>2, <1>3, RowsStay DEF AskStop, Quiet, Ordinary

LEMMA AskDeactivateStep ==
    ASSUME TypeInv, AskDeactivate
    PROVE  Ordinary
  <1>1. RestTyped /\ "operator" \in Callers
    BY AskTypes DEF AskDeactivate, Quiet
  <1>2. CallsFollow
    BY <1>1, Typed, IdleFacts, AsksToStop DEF AskDeactivate, Answered
  <1>3. Becomes(flight, flight')
    BY Typed, StopBegunType DEF AskDeactivate
  <1> QED BY <1>1, <1>2, <1>3, RowsStay DEF AskDeactivate, Quiet, Ordinary

LEMMA AskResetStep ==
    ASSUME TypeInv, AskReset
    PROVE  Ordinary
  <1> DEFINE s == Stopping(Idle, flight, FALSE, "rewind")
             l == flight.rts[flight.owner].log
             w == [s EXCEPT !.was = l]
  <1>1. RestTyped /\ "operator" \in Callers
    BY AskTypes DEF AskReset, Quiet
  <1>2. Becomes(flight, flight')
    BY Typed, StopBegunType DEF AskReset
  <1>3. CASE Go("operator", s)
    <2>1. CallsFollow
      BY <1>1, <1>3, Typed, IdleFacts, AsksToStop
    <2> QED BY <1>1, <1>2, <2>1, RowsStay DEF AskReset, Quiet, Ordinary
  <1>4. CASE IsRunning(flight) /\ Go("operator", w)
    <2>1. l \in Logs
      <3>1. flight.rts[flight.owner] \in Runtime
        BY <1>4, Typed, MemoryParts DEF IsRunning
      <3> QED BY <3>1 DEF Runtime
    <2>2. /\ "rewind" \in Aims /\ "rewind" \in Free
          /\ "rewind" \notin OfLog /\ "rewind" \notin OfRuntime /\ "rewind" \notin OfCue
      BY FreeStages DEF Aims, Labels, OfLog, OfRuntime, OfCue
    <2>3. s \in Call(Len(flight.rts)) /\ s.due = {} /\ Stage(s) = "rewind"
      <3> DEFINE keep == FALSE
      <3>1. keep \in BOOLEAN
        OBVIOUS
      <3> HIDE DEF keep
      <3>2. /\ Stopping(Idle, flight, keep, "rewind") \in Call(Len(flight.rts))
            /\ Stopping(Idle, flight, keep, "rewind").due = {}
            /\ Stage(Stopping(Idle, flight, keep, "rewind")) = "rewind"
        BY <2>2, <3>1, Typed, IdleFacts, StoppingType
      <3> QED BY <3>2 DEF keep
    <2> HIDE DEF s, l
    <2>4. /\ w \in CallRecord(Len(flight.rts)) /\ w.at = s.at /\ w.then = s.then /\ w.due = {}
          /\ w.log = s.log /\ w.rt = s.rt /\ w.items = s.items
      BY <2>1, <2>3 DEF Call, CallRecord
    <2> HIDE DEF w
    <2>5. Stage(w) = "rewind"
      BY <2>3, <2>4 DEF Stage
    <2>6. w \in Call(Len(flight.rts))
      BY <2>2, <2>4, <2>5 DEF Call
    <2>7. Follows(calls["operator"], w)
      BY <2>2, <2>4, <2>5, FreeFollows
    <2>8. Go("operator", w)
      BY <1>4 DEF w, l, s
    <2>9. CallsFollow
      BY <1>1, <2>6, <2>7, <2>8, OneFollows
    <2> QED BY <1>1, <1>2, <2>9, RowsStay DEF AskReset, Quiet, Ordinary
  <1> QED BY <1>3, <1>4 DEF AskReset, Answered

LEMMA AskActivateStep ==
    ASSUME TypeInv, NEW l \in Logs, AskActivate(l)
    PROVE  Ordinary
  <1> DEFINE k == [Idle EXCEPT !.at = "activate", !.log = l]
  <1>1. RestTyped /\ "operator" \in Callers
    BY AskTypes DEF AskActivate, Quiet
  <1>2. "activate" \in Labels /\ "activate" \in Free \ Cutting /\ "activate" \notin OfRuntime
    BY FreeStages DEF Labels, Cutting, OfLog, OfRuntime
  <1>3. k \in CallRecord(Len(flight.rts)) /\ k.at = "activate" /\ k.due = {} /\ k.log = l
    BY <1>2, Typed, IdleFacts DEF CallRecord
  <1>4. Go("operator", k)
    BY DEF AskActivate, Answered
  <1> HIDE DEF k
  <1>5. CallsFollow
    BY <1>1, <1>2, <1>3, <1>4, Begins
  <1> QED BY <1>1, <1>5, RowsStay, RestStays DEF AskActivate, Quiet, Ordinary

LEMMA AskPublishStep ==
    ASSUME TypeInv, NEW l \in Logs, AskPublish(l)
    PROVE  Ordinary
  <1> DEFINE k == [Idle EXCEPT !.at = "publishing", !.log = l, !.snap = logs[l]]
  <1>1. RestTyped /\ "operator" \in Callers
    BY AskTypes DEF AskPublish, Quiet
  <1>2. /\ "publishing" \in Labels /\ "publishing" \in Free \ Cutting
        /\ "publishing" \notin OfRuntime
    BY FreeStages DEF Labels, Cutting, OfLog, OfRuntime
  <1>3. k \in CallRecord(Len(flight.rts)) /\ k.at = "publishing" /\ k.due = {} /\ k.log = l
    BY <1>2, Typed, IdleFacts DEF CallRecord
  <1>4. Go("operator", k)
    BY DEF AskPublish, Answered
  <1> HIDE DEF k
  <1>5. CallsFollow
    BY <1>1, <1>2, <1>3, <1>4, Begins
  <1> QED BY <1>1, <1>5, RowsStay, RestStays DEF AskPublish, Quiet, Ordinary

LEMMA AskDeleteStep ==
    ASSUME TypeInv, NEW l \in Logs, AskDelete(l)
    PROVE  Ordinary
  <1> DEFINE k == [Idle EXCEPT !.log = l, !.was = pointer]
             u == [k EXCEPT !.at = "unlist"]
  <1>1. RestTyped /\ "operator" \in Callers
    BY AskTypes DEF AskDelete, Quiet
  <1>2. /\ "unlist" \in Labels /\ "unlist" \in Free \ Cutting
        /\ "unlist" \notin OfRuntime
    BY FreeStages DEF Labels, Cutting, OfLog, OfRuntime
  <1>3. k \in CallRecord(Len(flight.rts)) /\ k.due = {} /\ k.log = l
    BY Typed, IdleFacts DEF CallRecord
  <1> HIDE DEF k
  <1>4. u \in CallRecord(Len(flight.rts)) /\ u.at = "unlist" /\ u.due = {} /\ u.log = l
    BY <1>2, <1>3 DEF CallRecord
  <1>5. \/ flight' = StopBegun(flight) /\ Go("operator", Stopping(k, flight, FALSE, "forget"))
        \/ UNCHANGED flight /\ Go("operator", u)
    BY DEF AskDelete, Answered, k
  <1> HIDE DEF u
  <1>6. CallsFollow
    BY <1>1, <1>2, <1>3, <1>4, <1>5, AsksToStop, Begins
  <1>7. Becomes(flight, flight')
    BY <1>5, Typed, StopBegunType, RestStays
  <1> QED BY <1>1, <1>6, <1>7, RowsStay DEF AskDelete, Quiet, Ordinary

\* A runtime moves on.
LEMMA MovesOn ==
    ASSUME TypeInv, NEW f, Becomes(flight, f), NEW r \in 1..Len(f.rts), NEW c \in Callers,
           flight' = MovedOn(f, r), calls' = Spawned(calls, c, f, r)
    PROVE  Becomes(flight, flight') /\ CallsFollow
  <1>1. IsMemory(f) /\ Len(f.rts) = Len(flight.rts)
    BY DEF Becomes, SameRuns
  <1>2. Becomes(flight, flight')
    BY <1>1, MovedOnType, BecomesTransitive
  <1>3. /\ calls' \in [Callers -> Call(Len(flight.rts))]
        /\ \A d \in Callers : \/ calls'[d] = calls[d]
                              \/ /\ Stage(calls'[d]) \in {"end", "prepare", "resume"}
                                 /\ calls'[d].due = {}
    BY <1>1, Typed, SpawnedType
  <1>4. CallsFollow
    BY <1>3, FreeStages, FreeFollows DEF CallsFollow
  <1> QED BY <1>2, <1>4

LEMMA AskGoStep ==
    ASSUME TypeInv, AskGo
    PROVE  Ordinary
  <1> DEFINE r == flight.owner
             f == Bumped(flight, r)
  <1>1. RestTyped /\ "operator" \in Callers
    BY AskTypes DEF AskGo, Quiet
  <1>2. CASE ~IsRunning(flight)
    BY <1>1, <1>2, StartFollows, RowsStay, RestStays DEF AskGo, Answered, Quiet, Ordinary
  <1>3. CASE IsRunning(flight)
    <2>1. r \in 1..Len(flight.rts)
      BY <1>3, Typed DEF IsRunning
    <2>2. Becomes(flight, f) /\ r \in 1..Len(f.rts)
      BY <2>1, Typed, BumpedType DEF Becomes, SameRuns
    <2>3. flight' = MovedOn(f, r) /\ calls' = Spawned(calls, "operator", f, r)
      BY <1>3 DEF AskGo
    <2> HIDE DEF f
    <2>4. Becomes(flight, flight') /\ CallsFollow
      BY <1>1, <2>2, <2>3, MovesOn
    <2> QED BY <1>1, <2>4, RowsStay DEF AskGo, Quiet, Ordinary
  <1> QED BY <1>2, <1>3

LEMMA AskEditStep ==
    ASSUME TypeInv, NEW l \in Logs, NEW items \in Edits, AskEdit(l, items)
    PROVE  Ordinary
  <1> DEFINE q == [op |-> "edit", rt |-> 0, gen |-> logs[l].rev, index |-> 0,
                   log |-> l, items |-> items]
             L == Append(flight.lock, q)
  <1>1. items \in Seq(Cue) /\ logs[l].rev \in Nat
    BY FlightAssumption, Typed DEF Row
  <1>2. q \in Waiting(Len(flight.rts))
    BY <1>1 DEF Waiting, Request
  <1>3. L \in Seq(Waiting(Len(flight.rts))) /\ flight.owner \in 0..Len(flight.rts)
    BY <1>2, Typed, MemoryParts, AppendProperties
  <1>4. flight' = [flight EXCEPT !.lock = L]
    BY DEF AskEdit
  <1> HIDE DEF L
  <1>5. Becomes(flight, flight')
    BY <1>3, <1>4, Typed, RestChanged
  <1>6. RestTyped
    <2>1. "edit" \in Steps
      BY DEF Steps
    <2> QED BY <2>1, SpendType, Typed DEF AskEdit, Quiet, RestTyped
  <1> QED BY <1>5, <1>6, RowsStay, RestStays DEF AskEdit, Quiet, Ordinary

--------------------------------------------------------------------------------
\* The scheduler

LEMMA PollStep ==
    ASSUME TypeInv, Poll
    PROVE  Ordinary
  <1> DEFINE k == ClaimNext(DueNow)
  <1>1. DueNow \subseteq Logs /\ DueNow \subseteq {l \in Logs : logs[l].sched # Unclocked}
    BY DEF DueNow
  <1>2. k \in Call(Len(flight.rts)) /\ Stage(k) \in {"idle", "claim"} /\ k.due = DueNow
    BY <1>1, Typed, ClaimNextType
  <1>3. Go("scheduler", k) /\ "scheduler" \in Callers
    BY DEF Poll, Callers
  <1> HIDE DEF k
  <1>4. Follows(calls["scheduler"], k)
    BY <1>1, <1>2, FreeStages, FreeFollows
  <1>5. CallsFollow
    BY <1>2, <1>3, <1>4, OneFollows
  <1> QED BY <1>5, RowsStay, RestStays DEF Poll, Ordinary

\* A claim marks the row, and that is new.
Claimed(l) ==
    /\ RowsKeep /\ UNCHANGED flight /\ CallsFollow /\ RestTyped
    /\ l \in calls["scheduler"].due /\ ~logs[l].started /\ logs'[l].started
    /\ claimed' = [claimed EXCEPT ![l] = @ + 1]

LEMMA ClaimsStep ==
    ASSUME TypeInv, NEW l \in Logs, Claims(l)
    PROVE  Ordinary \/ Claimed(l)
  <1> DEFINE due == calls["scheduler"].due \ {l}
  <1>0. "scheduler" \in Callers
    BY DEF Callers
  <1>1. due \in SUBSET Logs /\ due \subseteq calls["scheduler"].due
    BY <1>0, Typed DEF CallRecord
  <1>2. CASE ClaimableNow(logs[l])
    <2> DEFINE k   == [Idle EXCEPT !.at = "activate", !.log = l, !.due = due]
               new == [logs[l] EXCEPT !.started = TRUE]
    <2>1. "activate" \in Labels /\ "activate" \in Free \ Cutting /\ "activate" \notin OfRuntime
      BY FreeStages DEF Labels, Cutting, OfLog, OfRuntime
    <2>2. Go("scheduler", k) /\ logs' = [logs EXCEPT ![l] = new]
      BY <1>2 DEF Claims
    <2> HIDE DEF due
    <2>3. k \in CallRecord(Len(flight.rts)) /\ k.at = "activate" /\ k.due = due /\ k.log = l
      BY <1>1, <2>1, Typed, IdleFacts DEF CallRecord
    <2> HIDE DEF k
    <2>4. CallsFollow
      BY <1>0, <1>1, <2>1, <2>2, <2>3, Begins
    <2>5. logs[l] \in Row /\ logs[l].rev \in Nat /\ logs[l].rev <= logs[l].rev
      BY Typed DEF Row
    <2>6. RowKeeps(logs[l], new)
      BY <2>5, RowWrites
    <2>7. new.started
      BY <2>5 DEF Row
    <2> HIDE DEF new
    <2>8. RowsKeep /\ logs'[l].started
      BY <2>2, <2>6, <2>7, Typed, RowChanges
    <2> QED BY <1>2, <2>4, <2>8, RestStays DEF Claims, Claimed, ClaimableNow
  <1>3. CASE ~ClaimableNow(logs[l])
    <2> DEFINE k == ClaimNext(due)
    <2>1. Go("scheduler", k) /\ UNCHANGED <<logs, claimed>>
      BY <1>3 DEF Claims
    <2> HIDE DEF due
    <2>2. k \in Call(Len(flight.rts)) /\ Stage(k) \in {"idle", "claim"} /\ k.due = due
      BY <1>1, Typed, ClaimNextType
    <2> HIDE DEF k
    <2>3. Follows(calls["scheduler"], k)
      BY <1>1, <2>2, FreeStages, FreeFollows
    <2>4. CallsFollow
      BY <1>0, <2>1, <2>2, <2>3, OneFollows
    <2> QED BY <2>1, <2>4, RowsStay, RestStays DEF Claims, Ordinary
  <1> QED BY <1>2, <1>3

--------------------------------------------------------------------------------
\* cueOperations

LEMMA TurnTypes ==
    ASSUME TypeInv
    PROVE  /\ "turn" \in Callers /\ "advance" \in Callers /\ "song" \in Callers
           /\ flight.lock # <<>> => /\ Becomes(flight, Taken(flight))
                                    /\ NextTurn \in Waiting(Len(flight.rts))
           /\ flight.lock # <<>> /\ NextTurn.op = "cue" =>
                 /\ NextTurn.rt \in 1..Len(flight.rts)
                 /\ flight.rts[NextTurn.rt] \in Runtime
                 /\ NextTurn.gen \in Nat /\ NextTurn.index \in Nat \ {0}
                 /\ Aimed(NextTurn) \in Nat \ {0}
  <1>1. "turn" \in Callers /\ "advance" \in Callers /\ "song" \in Callers
    BY DEF Callers
  <1>2. flight.lock # <<>> => /\ Becomes(flight, Taken(flight))
                              /\ NextTurn \in Waiting(Len(flight.rts))
    BY Typed, TakenType DEF NextTurn
  <1>3. ASSUME flight.lock # <<>>, NextTurn.op = "cue"
        PROVE  /\ NextTurn.rt \in 1..Len(flight.rts)
               /\ flight.rts[NextTurn.rt] \in Runtime
               /\ NextTurn.gen \in Nat /\ NextTurn.index \in Nat \ {0}
               /\ Aimed(NextTurn) \in Nat \ {0}
    <2>1. /\ NextTurn.rt \in 1..Len(flight.rts)
          /\ NextTurn.gen \in Nat /\ NextTurn.index \in Nat \ {0}
      BY <1>2, <1>3 DEF Waiting, Request
    <2> QED BY <2>1, Typed, MemoryParts DEF Aimed
  <1> QED BY <1>1, <1>2, <1>3

LEMMA CueDroppedStep ==
    ASSUME TypeInv, CueDropped
    PROVE  Ordinary
  BY TurnTypes, RowsStay, RestStays DEF CueDropped, TurnFree, Ordinary

LEMMA CueOutOfRangeStep ==
    ASSUME TypeInv, CueOutOfRange
    PROVE  Ordinary
  <1> DEFINE r == NextTurn.rt
             k == Finishing(Idle, flight, r)
  <1>1. Becomes(flight, Taken(flight)) /\ IsMemory(Taken(flight))
    BY TurnTypes DEF CueOutOfRange, TurnFree, Becomes
  <1>2. Becomes(flight, flight')
    BY <1>1, FinishBegunType, BecomesTransitive DEF CueOutOfRange
  <1>3. /\ k \in Call(Len(flight.rts)) /\ k.due = {}
        /\ Stage(k) \in {"end", "prepare", "resume"}
    BY Typed, FinishingType
  <1>4. Go("turn", k)
    BY DEF CueOutOfRange
  <1> HIDE DEF k
  <1>5. Follows(calls["turn"], k)
    BY <1>3, FreeStages, FreeFollows
  <1>6. CallsFollow
    BY <1>3, <1>4, <1>5, TurnTypes, OneFollows
  <1> QED BY <1>2, <1>6, RowsStay, RestStays DEF CueOutOfRange, Ordinary

LEMMA CueHeldStep ==
    ASSUME TypeInv, CueHeld
    PROVE  Ordinary
  <1> DEFINE r   == NextTurn.rt
             rt  == flight.rts[r]
             i   == Aimed(NextTurn)
             cue == rt.items[i]
             f   == Taken(flight)
             t   == Timer(flight, r, "hold", i, DueAt(rt, cue))
  <1>1. /\ Becomes(flight, f) /\ IsMemory(f) /\ Len(f.rts) = Len(flight.rts)
        /\ r \in 1..Len(flight.rts) /\ rt \in Runtime /\ i \in Nat \ {0}
    BY TurnTypes DEF CueHeld, TurnFree, Becomes, SameRuns
  <1>2. i <= Len(rt.items) /\ Early(rt, cue) /\ flight' = Armed(f, r, t)
    BY DEF CueHeld
  <1>3. cue \in Cue
    <2>1. rt.items \in Seq(Cue) /\ i \in 1..Len(rt.items)
      BY <1>1, <1>2, LenProperties DEF Runtime
    <2> QED BY <2>1, ElementOfSeq
  <1>4. DueAt(rt, cue) \in Nat
    BY <1>1, <1>2, <1>3, DueAtType DEF Early
  <1>5. t \in Armable(Len(flight.rts))
    BY <1>1, <1>4, Typed, TimerType DEF TimerKinds
  <1> HIDE DEF f, t
  <1>6. Becomes(f, Armed(f, r, t))
    BY <1>1, <1>5, ArmedType
  <1>7. Becomes(flight, flight')
    BY <1>1, <1>2, <1>6, BecomesTransitive
  <1> QED BY <1>7, RowsStay, RestStays DEF CueHeld, Ordinary

\* A runtime moves to another cue, which the turn executes.
Began ==
    LET n == Len(flight.rts)
    IN  /\ RowsKeep /\ RestTyped /\ claimed' = claimed
        /\ IsMemory(flight') /\ Len(flight'.rts) = n
        /\ \A r \in 1..n : /\ flight'.rts[r].log = flight.rts[r].log
                           /\ flight'.rts[r].sched = flight.rts[r].sched
        /\ calls' \in [Callers -> Call(n)] /\ CueIsListed'
        /\ \A c \in Callers \ {"turn"} : calls'[c] = calls[c]
        /\ calls'["turn"].due = {} /\ Stage(calls'["turn"]) = "cue"

LEMMA CueBeginsStep ==
    ASSUME TypeInv, CueBegins
    PROVE  Began
  <1> DEFINE n   == Len(flight.rts)
             r   == NextTurn.rt
             i   == Aimed(NextTurn)
             rt  == flight.rts[r]
             cue == rt.items[i]
             f   == Taken(flight)
             new == [f.rts[r] EXCEPT !.index = i, !.waiting = FALSE]
             s   == [f.rts EXCEPT ![r] = new]
             at  == IF CutsFirst(rt, cue) THEN "cut" ELSE "cue"
             on  == IF rt.sched # Unclocked THEN "cueFailed" ELSE "ignore"
             k   == [Idle EXCEPT !.at = at, !.rt = r, !.gen = NextTurn.gen, !.keep = TRUE,
                                 !.then = "cue", !.items = <<cue>>, !.on = on]
  <1>1. /\ Becomes(flight, f) /\ IsMemory(f) /\ Len(f.rts) = n /\ n \in Nat
        /\ r \in 1..n /\ rt \in Runtime /\ i \in Nat \ {0} /\ NextTurn.gen \in Nat
        /\ f.rts = flight.rts
    <2>1. f.rts = flight.rts
      BY DEF Taken
    <2> QED BY <2>1, TurnTypes, Typed DEF CueBegins, TurnFree, Becomes, SameRuns
  <1>2. /\ i <= Len(rt.items) /\ Go("turn", k)
        /\ flight' = [f EXCEPT !.rts[r].index = i, !.rts[r].waiting = FALSE]
        /\ logs' = [logs EXCEPT ![rt.log].running = TRUE]
    BY DEF CueBegins
  <1>3. cue \in Cue
    <2>1. rt.items \in Seq(Cue) /\ i \in 1..Len(rt.items)
      BY <1>1, <1>2, LenProperties DEF Runtime
    <2> QED BY <2>1, ElementOfSeq
  <1>4. RowsKeep
    <2> DEFINE b == TRUE
    <2>1. b \in BOOLEAN /\ logs' = [logs EXCEPT ![rt.log].running = b] /\ rt.log \in Logs
      BY <1>1, <1>2 DEF Runtime
    <2> HIDE DEF b
    <2> QED BY <2>1, RowMarked
  <1>5. /\ f.rts[r] \in Run /\ f.rts[r] \in Runtime /\ f.rts \in Seq(Run)
    BY <1>1, MemoryParts
  <1>6. new \in Run /\ new.log = rt.log /\ new.items = rt.items /\ new.sched = rt.sched
        /\ new.index = i
    BY <1>1, <1>5 DEF Run, Runtime
  <1>7. flight' = [f EXCEPT !.rts = s]
    BY <1>1, <1>2, <1>5, MemoryParts
  <1> HIDE DEF new
  <1>8. /\ s \in Seq(Run) /\ Len(s) = n
        /\ \A j \in 1..n : s[j] = IF j = r THEN new ELSE flight.rts[j]
    BY <1>1, <1>5, <1>6, Replaced
  <1> HIDE DEF s
  <1>9. IsMemory(flight') /\ flight'.rts = s
    BY <1>1, <1>7, <1>8, MemoryParts DEF IsMemory, Memory
  <1>10. /\ k \in Call(n) /\ k.due = {} /\ Stage(k) = "cue" /\ k.rt = r
    <2>1. at \in {"cut", "cue"} /\ on \in {"cueFailed", "ignore"} /\ <<cue>> \in Seq(Cue)
          /\ <<cue>> # <<>>
      BY <1>3
    <2> DEFINE b == TRUE
               l == <<cue>>
               m == [Idle EXCEPT !.at = at, !.rt = r, !.gen = NextTurn.gen, !.keep = b,
                                 !.then = "cue", !.items = l, !.on = on]
    <2>2. /\ {"cut", "cue"} \subseteq Labels /\ {"cueFailed", "ignore"} \subseteq Outcomes
          /\ "cue" \in Aims /\ b \in BOOLEAN /\ "cue" \notin OfLog
          /\ "cue" # "cut" /\ "cue" # "mark" /\ "cue" # "cutting" /\ "cue" # "cutDone"
      BY DEF Labels, Outcomes, Aims, OfLog, OfRuntime
    <2> HIDE DEF at, on, l, b
    <2>3. l \in Seq(Cue) /\ l # <<>> /\ r \in 0..n /\ r # 0
      BY <1>1, <2>1 DEF l
    <2>4. m \in CallRecord(n)
      BY <1>1, <2>1, <2>2, <2>3, IdleFacts DEF CallRecord
    <2>5. /\ m.at = at /\ m.then = "cue" /\ m.rt = r /\ m.items = l /\ m.due = {}
      BY <1>1, IdleFacts DEF CallRecord
    <2> HIDE DEF m
    <2>6. Stage(m) = "cue"
      BY <2>1, <2>5 DEF Stage
    <2>7. m \in Call(n)
      BY <2>2, <2>3, <2>4, <2>5, <2>6 DEF Call
    <2>8. k = m
      BY DEF m, b, l
    <2> QED BY <2>5, <2>6, <2>7, <2>8
  <1> HIDE DEF k
  <1>11. /\ calls' \in [Callers -> Call(n)] /\ calls'["turn"] = k
         /\ \A c \in Callers \ {"turn"} : calls'[c] = calls[c]
    BY <1>2, <1>10, Typed, TurnTypes, GoType
  <1>12. CueIsListed'
    <2>1. flight'.rts[k.rt].index = i /\ flight'.rts[k.rt].items = rt.items
      BY <1>1, <1>6, <1>8, <1>9, <1>10
    <2> QED BY <1>2, <1>11, <2>1 DEF CueIsListed
  <1>13. RestTyped
    BY RestStays DEF CueBegins
  <1> QED BY <1>1, <1>4, <1>6, <1>8, <1>9, <1>10, <1>11, <1>12, <1>13 DEF Began, CueBegins

\* The cue in execution, and its runtime.
LEMMA TurnCueType ==
    ASSUME TypeInv, Turn.at \in OfCue
    PROVE  /\ Turn.rt \in 1..Len(flight.rts) /\ TurnCue \in Cue
           /\ flight.rts[Turn.rt] \in Runtime
           /\ flight.rts[Turn.rt].index <= Len(flight.rts[Turn.rt].items)
           /\ Stage(Turn) = Turn.at
  <1>1. /\ Turn \in Call(Len(flight.rts)) /\ Turn \in CallRecord(Len(flight.rts))
        /\ Turn = calls["turn"]
    BY Typed, TurnTypes DEF Turn
  <1>2. Stage(Turn) = Turn.at
    BY DEF Stage, OfCue
  <1>3. Turn.rt \in 1..Len(flight.rts) /\ Turn.items # <<>> /\ Turn.items \in Seq(Cue)
    <2>1. Turn.at \in OfRuntime
      BY DEF OfCue, OfRuntime
    <2> QED BY <1>1, <1>2, <2>1, Typed DEF Call, CallRecord
  <1>4. TurnCue \in Cue
    <2>1. 1 \in 1..Len(Turn.items)
      BY <1>3, EmptySeq, LenProperties
    <2> QED BY <1>3, <2>1, ElementOfSeq DEF TurnCue
  <1>5. flight.rts[Turn.rt].index <= Len(flight.rts[Turn.rt].items)
    BY <1>1, <1>2 DEF TypeInv, CueIsListed
  <1> QED BY <1>2, <1>3, <1>4, <1>5, Typed, MemoryParts

LEMMA TurnEndsStep ==
    ASSUME TypeInv, Turn.at \in OfCue, TurnEnds(flight)
    PROVE  Becomes(flight, flight') /\ CallsFollow
  <1> DEFINE r == Turn.rt
             k == [calls EXCEPT !["turn"] = Idle]
  <1>1. /\ r \in 1..Len(flight.rts) /\ TurnCue \in Cue /\ Len(flight.rts) \in Nat
        /\ flight.rts[r].index <= Len(flight.rts[r].items)
    BY Typed, TurnCueType
  <1>2. Becomes(flight, AfterCue(flight, r, TurnCue))
    BY <1>1, Typed, AfterCueType
  <1>3. Becomes(flight, flight')
    BY <1>2, Typed DEF TurnEnds
  <1>4. k \in [Callers -> Call(Len(flight.rts))]
    BY <1>1, Typed, IdleType
  <1>5. \A c \in Callers : k[c] = calls[c] \/ k[c] = Idle
    BY Typed
  <1>6. calls' = k \/ calls' = Spawned(k, "advance", flight, r)
    BY DEF TurnEnds
  <1> HIDE DEF k
  <1>7. /\ calls' \in [Callers -> Call(Len(flight.rts))]
        /\ \A c \in Callers : \/ calls'[c] = k[c]
                              \/ /\ Stage(calls'[c]) \in {"end", "prepare", "resume"}
                                 /\ calls'[c].due = {}
    <2>1. CASE calls' = k
      BY <1>4, <2>1
    <2>2. CASE calls' = Spawned(k, "advance", flight, r)
      <3>1. /\ IsMemory(flight) /\ pointer \in Logs \cup {None} /\ radio \in Radio
            /\ "advance" \in Callers
        BY Typed, TurnTypes
      <3> QED BY <1>4, <2>2, <3>1, SpawnedType
    <2> QED BY <1>6, <2>1, <2>2
  <1>8. Stage(Idle) = "idle" /\ Idle.due = {}
    BY DEF Idle, Stage
  <1>9. \A c \in Callers : calls'[c] = calls[c] \/ Follows(calls[c], calls'[c])
    BY <1>5, <1>7, <1>8, FreeStages, FreeFollows
  <1> QED BY <1>3, <1>7, <1>9 DEF CallsFollow

LEMMA CueUnplayableStep ==
    ASSUME TypeInv, CueUnplayable
    PROVE  Ordinary
  <1>1. Fails("turn") \/ TurnEnds(flight)
    BY DEF CueUnplayable
  <1>2. Turn.at \in OfCue
    BY DEF CueUnplayable, OfCue
  <1>3. Becomes(flight, flight') /\ CallsFollow
    BY <1>1, <1>2, FailsStep, TurnEndsStep, TurnTypes
  <1> QED BY <1>3, RowsStay, RestStays DEF CueUnplayable, Ordinary

LEMMA CueTakesSongStep ==
    ASSUME TypeInv, CueTakesSong
    PROVE  Ordinary
  <1>1. Turn.at \in OfCue
    BY DEF CueTakesSong, OfCue
  <1>2. Becomes(flight, flight') /\ CallsFollow
    BY <1>1, TurnEndsStep DEF CueTakesSong
  <1>3. radio' \in Radio
    <2>1. Turn.rt \in Nat /\ flight.rts[Turn.rt].index \in Nat
      BY <1>1, TurnCueType DEF Runtime
    <2>2. radio \in Radio /\ MemStopped(RowStopped(radio)) \in Radio
      BY Typed, RadioType
    <2> QED BY <2>1, <2>2, TakesType DEF CueTakesSong
  <1>4. RestTyped
    BY <1>3, Typed DEF RestTyped, CueTakesSong
  <1> QED BY <1>2, <1>4, RowsStay DEF CueTakesSong, Ordinary

LEMMA CueStopsSongStep ==
    ASSUME TypeInv, CueStopsSong
    PROVE  Ordinary
  <1> DEFINE b == OwnsAir(flight)
             k == [Turn EXCEPT !.at = "cut", !.keep = b, !.then = "after"]
  <1>1. /\ Turn.at \in OfCue /\ Turn = calls["turn"] /\ Go("turn", k)
        /\ {"cut", "after"} \subseteq Labels /\ "after" \in Aims
        /\ "after" \in OfCue /\ "after" \notin OfLog
        /\ "cut" # "mark" /\ "after" # "cut"
    BY DEF CueStopsSong, OfCue, Turn, Labels, Aims, OfLog, OfRuntime
  <1>2. b \in BOOLEAN
    BY DEF OwnsAir
  <1> HIDE DEF b
  <1>3. Turn \in CallRecord(Len(flight.rts)) /\ Turn \in Call(Len(flight.rts))
    BY <1>1, Typed, TurnTypes
  <1>4. /\ k \in CallRecord(Len(flight.rts)) /\ k.at = "cut" /\ k.then = "after"
        /\ k.rt = Turn.rt /\ k.items = Turn.items /\ k.due = Turn.due
    BY <1>1, <1>2, <1>3 DEF CallRecord
  <1> HIDE DEF k
  <1>5. Stage(k) = "after"
    BY <1>4 DEF Stage
  <1>6. Stage(Turn) \in OfCue /\ Turn.rt # 0 /\ Turn.items # <<>>
    <2>1. Stage(Turn) \in OfCue /\ Turn.rt \in 1..Len(flight.rts)
      BY <1>1, TurnCueType
    <2> QED BY <1>3, <2>1 DEF Call
  <1>7. k \in Call(Len(flight.rts))
    BY <1>1, <1>4, <1>5, <1>6 DEF Call
  <1>8. Follows(calls["turn"], k)
    BY <1>1, <1>4, <1>5, <1>6 DEF Follows, Launching
  <1>9. CallsFollow
    BY <1>1, <1>7, <1>8, TurnTypes, OneFollows
  <1> QED BY <1>9, RowsStay, RestStays DEF CueStopsSong, Ordinary

LEMMA CueNeedsNoAirStep ==
    ASSUME TypeInv, CueNeedsNoAir
    PROVE  Ordinary
  <1>1. Turn.at \in OfCue /\ TurnEnds(flight)
    BY DEF CueNeedsNoAir, OfCue
  <1>2. Becomes(flight, flight') /\ CallsFollow
    BY <1>1, TurnEndsStep
  <1> QED BY <1>2, RowsStay, RestStays DEF CueNeedsNoAir, Ordinary

LEMMA EditBeginsStep ==
    ASSUME TypeInv, EditBegins
    PROVE  Ordinary
  <1> DEFINE l == NextTurn.log
             r == flight.owner
             m == IF r # 0 /\ flight.rts[r].log = l THEN r ELSE 0
             k == [Idle EXCEPT !.at = "editing", !.log = l, !.snap = logs[l],
                               !.items = NextTurn.items, !.rt = m]
  <1>1. /\ Becomes(flight, Taken(flight)) /\ l \in Logs /\ NextTurn.items \in Seq(Cue)
        /\ NextTurn.op = "edit" /\ logs[l] \in Row
    <2>1. NextTurn \in Waiting(Len(flight.rts)) /\ NextTurn.op = "edit"
      BY TurnTypes DEF EditBegins, TurnFree
    <2> QED BY <2>1, Typed, TurnTypes DEF EditBegins, TurnFree, Waiting, Request
  <1>2. flight' = Taken(flight)
    BY DEF EditBegins
  <1>3. CASE UNCHANGED calls
    BY <1>1, <1>2, <1>3, RowsStay, RestStays DEF EditBegins, Ordinary
  <1>4. CASE EditAllowed(logs[l], l, NextTurn) /\ Go("turn", k)
    <2>1. m \in 0..Len(flight.rts)
      BY Typed
    <2>2. m # 0 => /\ m = r /\ flight.rts[m].log = l
                   /\ flight.rts[m].running =>
                         PlayedKept(flight.rts[m], logs[l].items, NextTurn.items)
      BY <1>4 DEF EditAllowed, IsRunning
    <2> HIDE DEF m, l
    <2>3. /\ "editing" \in Labels /\ "editing" \notin Cutting \cup OfRuntime \cup OfCue \cup Launching
          /\ "editing" \in OfLog
      BY DEF Labels, Cutting, OfLog, OfRuntime, OfCue, Launching
    <2>4. /\ k \in CallRecord(Len(flight.rts)) /\ k.at = "editing" /\ k.due = {} /\ k.log = l
          /\ k.snap = logs[l] /\ k.items = NextTurn.items /\ k.rt = m
      BY <1>1, <2>1, <2>3, Typed, IdleFacts DEF CallRecord
    <2>9. Go("turn", k)
      BY <1>4 DEF l, m
    <2> HIDE DEF k
    <2>5. k \in Call(Len(flight.rts)) /\ Stage(k) = "editing"
      BY <1>1, <2>3, <2>4, PlainCall
    <2>6. Saves(k)
      BY <2>1, <2>2, <2>4, Typed DEF Saves
    <2>7. Follows(calls["turn"], k)
      BY <2>3, <2>4, <2>5, <2>6 DEF Follows
    <2>8. CallsFollow
      BY <2>5, <2>7, <2>9, TurnTypes, OneFollows
    <2> QED BY <1>1, <1>2, <2>8, RowsStay, RestStays DEF EditBegins, Ordinary
  <1> QED BY <1>3, <1>4 DEF EditBegins

\* A save writes the items of its row, or is refused.
Saved ==
    LET l == Turn.log
    IN  /\ Turn.at = "editing" /\ l \in Logs /\ logs[l].rev = Turn.snap.rev
        /\ logs' \in [Logs -> Row] /\ logs'[l].sched = logs[l].sched
        /\ logs'[l].started = logs[l].started /\ logs'[l].items = Turn.items
        /\ \A m \in Logs \ {l} : logs'[m] = logs[m]
        /\ UNCHANGED flight /\ CallsFollow /\ RestTyped /\ claimed' = claimed
        /\ calls'["turn"].at = "edited"

LEMMA EditWritesStep ==
    ASSUME TypeInv, EditWrites
    PROVE  Ordinary \/ Saved
  <1> DEFINE l   == Turn.log
             rev == logs[l].rev + 1
             new == [logs[l] EXCEPT !.items = Turn.items, !.rev = rev]
  <1>1. l \in Logs /\ logs[l] \in Row /\ Turn.items \in Seq(Cue) /\ Turn = calls["turn"]
    <2>1. Turn.at \in OfLog /\ Turn = calls["turn"]
      BY DEF EditWrites, OfLog, Turn
    <2> QED BY <2>1, Typed, TurnTypes, StageType DEF CallRecord
  <1>2. CASE Go("turn", Idle) /\ UNCHANGED logs
    <2>1. CallsFollow
      BY <1>2, TurnTypes, IdleFollows
    <2> QED BY <1>2, <2>1, RowsStay, RestStays DEF EditWrites, Ordinary
  <1>3. CASE /\ logs' = [logs EXCEPT ![l] = new] /\ logs[l].rev = Turn.snap.rev
             /\ Go("turn", [Turn EXCEPT !.at = "edited"])
    <2>7. calls'["turn"].at = "edited"
      BY <1>1, <1>3, Typed, TurnTypes DEF Go, CallRecord
    <2>1. CallsFollow
      <3>1. "edited" \in Free \ Cutting /\ "edited" \notin OfRuntime
        BY FreeStages DEF Cutting, OfRuntime
      <3> QED BY <1>1, <1>3, <3>1, TurnTypes, GoesTo
    <2>2. rev \in Nat
      BY <1>1 DEF Row
    <2> HIDE DEF rev
    <2>3. new \in Row
      BY <1>1, <2>2 DEF Row
    <2>4. new.sched = logs[l].sched /\ new.started = logs[l].started /\ new.items = Turn.items
      BY <1>1 DEF Row
    <2>5. logs' = [logs EXCEPT ![l] = new]
      BY <1>3 DEF rev
    <2> HIDE DEF new
    <2>6. logs' \in [Logs -> Row] /\ logs'[l] = new /\ \A m \in Logs \ {l} : logs'[m] = logs[m]
      BY <1>1, <2>3, <2>5, Typed
    <2> QED BY <1>1, <1>3, <2>1, <2>4, <2>6, <2>7, RestStays DEF Saved, EditWrites
  <1>4. logs' = [logs EXCEPT ![l].items = Turn.items, ![l].rev = @ + 1]
           => logs' = [logs EXCEPT ![l] = new]
    BY <1>1, Typed
  <1> QED BY <1>2, <1>3, <1>4 DEF EditWrites

\* A runtime takes other items, and the turn is over.
Relisted ==
    LET n == Len(flight.rts)
    IN  /\ RowsKeep /\ RestTyped /\ CallsFollow /\ claimed' = claimed
        /\ IsMemory(flight') /\ Len(flight'.rts) = n
        /\ \A r \in 1..n : /\ flight'.rts[r].log = flight.rts[r].log
                           /\ flight'.rts[r].sched = flight.rts[r].sched
        /\ Stage(calls'["turn"]) = "idle"

LEMMA EditAppliesStep ==
    ASSUME TypeInv, EditApplies
    PROVE  Relisted
  <1> DEFINE n   == Len(flight.rts)
             r   == Turn.rt
             f   == [flight EXCEPT !.rts[r].items = Turn.items]
             cue == Turn.items[f.rts[r].index]
  <1>1. Turn \in CallRecord(n) /\ n \in Nat
    BY Typed, TurnTypes DEF Turn
  <1>2. r \in 0..n /\ Turn.items \in Seq(Cue)
    BY <1>1 DEF CallRecord
  <1>3. CallsFollow /\ Stage(calls'["turn"]) = "idle"
    <2>1. Go("turn", Idle)
      BY DEF EditApplies
    <2> QED BY <2>1, Typed, TurnTypes, IdleFollows DEF Go, Idle, Stage
  <1>4. CASE r = 0 \/ ~flight.rts[r].running
    <2>1. UNCHANGED flight
      BY <1>4 DEF EditApplies
    <2> QED BY <1>3, <2>1, Typed, RowsStay, RestStays DEF Relisted, EditApplies
  <1>5. CASE ~(r = 0 \/ ~flight.rts[r].running)
    <2> DEFINE rt == [flight.rts[r] EXCEPT !.items = Turn.items]
               s  == [flight.rts EXCEPT ![r] = rt]
    <2>0. r \in 1..n
      BY <1>2, <1>5
    <2>1. flight.rts[r] \in Run /\ flight.rts[r] \in Runtime /\ flight.rts \in Seq(Run)
      BY <2>0, Typed, MemoryParts
    <2>2. /\ rt \in Run /\ rt.log = flight.rts[r].log /\ rt.sched = flight.rts[r].sched
          /\ rt.items = Turn.items
      BY <1>2, <2>1 DEF Run, Runtime
    <2>3. f = [flight EXCEPT !.rts = s]
      BY <2>0, <2>1, Typed, MemoryParts
    <2> HIDE DEF rt
    <2>4. /\ s \in Seq(Run) /\ Len(s) = n
          /\ \A j \in 1..n : s[j] = IF j = r THEN rt ELSE flight.rts[j]
      BY <2>0, <2>1, <2>2, Replaced
    <2> HIDE DEF s
    <2>5. f.rts = s /\ IsMemory(f)
      BY <2>3, <2>4, Typed, MemoryParts DEF IsMemory, Memory
    <2>6. /\ Len(f.rts) = n /\ f.rts[r].items = Turn.items
          /\ \A j \in 1..n : f.rts[j].log = flight.rts[j].log /\ f.rts[j].sched = flight.rts[j].sched
      BY <2>0, <2>2, <2>4, <2>5
    <2>7. \/ flight' = HardArmed(f, r) \/ flight' = f
          \/ f.rts[r].index <= Len(Turn.items) /\ flight' = ClipArmed(f, r)
      BY <1>5 DEF EditApplies
    <2> HIDE DEF f
    <2>8. Becomes(f, flight')
      BY <2>0, <2>5, <2>6, <2>7, HardArmedType, ClipArmedType, BecomesReflexive
    <2>9. /\ IsMemory(flight') /\ Len(flight'.rts) = n
          /\ \A j \in 1..n : /\ flight'.rts[j].log = flight.rts[j].log
                             /\ flight'.rts[j].sched = flight.rts[j].sched
      BY <2>6, <2>8 DEF Becomes, SameRuns
    <2> QED BY <1>3, <2>9, RowsStay, RestStays DEF Relisted, EditApplies
  <1> QED BY <1>4, <1>5

--------------------------------------------------------------------------------
\* Timers

LEMMA ExpiredType ==
    ASSUME TypeInv, NEW t \in flight.timers
    PROVE  /\ Becomes(flight, Fired(flight, t)) /\ IsMemory(Fired(flight, t))
           /\ t.rt \in 1..Len(Fired(flight, t).rts) /\ t.gen \in Nat /\ t.gen + 1 \in Nat
           /\ t.kind = "hold" => t.cue \in Nat \ {0}
           /\ Fired(flight, t).rts[t.rt] \in Runtime
  <1>1. /\ Becomes(flight, Fired(flight, t)) /\ t \in Armable(Len(flight.rts))
        /\ t.rt \in 1..Len(flight.rts)
    BY Typed, FiredType
  <1>2. IsMemory(Fired(flight, t)) /\ t.rt \in 1..Len(Fired(flight, t).rts)
    BY <1>1 DEF Becomes, SameRuns
  <1>3. t.gen \in Nat /\ (t.kind = "hold" => t.cue \in Nat \ {0})
    BY <1>1 DEF Armable, TimerRecord
  <1> QED BY <1>1, <1>2, <1>3, MemoryParts

LEMMA HoldFiresStep ==
    ASSUME TypeInv, NEW t \in flight.timers, HoldFires(t)
    PROVE  Ordinary
  <1> DEFINE f == Fired(flight, t)
  <1>1. /\ Becomes(flight, f) /\ IsMemory(f) /\ t.rt \in 1..Len(f.rts) /\ t.gen \in Nat
        /\ t.cue \in Nat \ {0}
    BY ExpiredType DEF HoldFires
  <1>2. flight' = Requested(f, t.rt, t.gen, t.cue)
    BY DEF HoldFires
  <1> HIDE DEF f
  <1>3. Becomes(flight, flight')
    BY <1>1, <1>2, RequestedType, BecomesTransitive
  <1> QED BY <1>3, RowsStay, RestStays DEF HoldFires, OnlyFlight, Ordinary

LEMMA WaitFiresStep ==
    ASSUME TypeInv, NEW t \in flight.timers, WaitFires(t)
    PROVE  Ordinary
  <1> DEFINE f == Fired(flight, t)
  <1>1. Becomes(flight, f) /\ t.rt \in 1..Len(f.rts)
    BY ExpiredType
  <1>2. \/ flight' = f /\ UNCHANGED calls
        \/ flight' = MovedOn(f, t.rt) /\ calls' = Spawned(calls, "advance", f, t.rt)
    BY DEF WaitFires
  <1> HIDE DEF f
  <1>3. Becomes(flight, flight') /\ CallsFollow
    BY <1>1, <1>2, TurnTypes, RestStays, MovesOn
  <1> QED BY <1>3, RowsStay, RestStays DEF WaitFires, OnlyFlight, Ordinary

\* A runtime stops waiting and starts a new generation.
LEMMA NewGeneration ==
    ASSUME NEW f, IsMemory(f), NEW r \in 1..Len(f.rts), NEW g,
           g = [f EXCEPT !.rts[r].waiting = FALSE, !.rts[r].gen = @ + 1]
    PROVE  Becomes(f, g) /\ IsMemory(g) /\ r \in 1..Len(g.rts)
  <1>1. f.rts[r] \in Runtime
    BY MemoryParts
  <1> DEFINE gen == f.rts[r].gen + 1
             b   == FALSE
  <1>2. gen \in Nat /\ b \in BOOLEAN
    BY <1>1 DEF Runtime
  <1>3. g = [f EXCEPT !.rts[r].waiting = b, !.rts[r].gen = gen]
    BY MemoryParts
  <1> HIDE DEF gen, b
  <1>4. Becomes(f, g)
    BY <1>2, <1>3, Unwaiting
  <1> QED BY <1>4 DEF Becomes, SameRuns

LEMMA SongEndTimesOutStep ==
    ASSUME TypeInv, NEW t \in flight.timers, SongEndTimesOut(t)
    PROVE  Ordinary
  <1> DEFINE f == Fired(flight, t)
             r == f.owner
             g == [f EXCEPT !.rts[r].waiting = FALSE, !.rts[r].gen = @ + 1]
  <1>1. Becomes(flight, f) /\ IsMemory(f)
    BY ExpiredType
  <1>2. \/ flight' = f /\ UNCHANGED calls
        \/ /\ r # 0
           /\ \/ flight' = g /\ UNCHANGED calls
              \/ flight' = MovedOn(g, r) /\ calls' = Spawned(calls, "advance", g, r)
    BY DEF SongEndTimesOut
  <1>3. CASE flight' = f /\ UNCHANGED calls
    BY <1>1, <1>3, RowsStay, RestStays DEF SongEndTimesOut, OnlyFlight, Ordinary
  <1>4. CASE r # 0
    <2> HIDE DEF f
    <2>1. r \in 1..Len(f.rts)
      BY <1>1, <1>4, MemoryParts
    <2>2. Becomes(f, g) /\ r \in 1..Len(g.rts)
      BY <1>1, <2>1, NewGeneration
    <2> HIDE DEF g, r
    <2>3. Becomes(flight, g)
      BY <1>1, <2>2, BecomesTransitive
    <2>4. Becomes(flight, flight') /\ CallsFollow
      BY <1>1, <1>2, <2>2, <2>3, TurnTypes, RestStays, MovesOn
    <2> QED BY <2>4, RowsStay, RestStays DEF SongEndTimesOut, OnlyFlight, Ordinary
  <1> QED BY <1>2, <1>3, <1>4

\* The row of a cue, if it is still ahead.
LEMMA RowOfType ==
    ASSUME NEW items \in Seq(Cue), NEW id
    PROVE  RowOf(items, id) \in Nat
  <1>1. Len(items) \in Nat
    BY LenProperties
  <1> QED BY <1>1 DEF RowOf, Rows

LEMMA ClipFiresStep ==
    ASSUME TypeInv, NEW t \in flight.timers, ClipFires(t)
    PROVE  Ordinary
  <1> DEFINE f  == Fired(flight, t)
             rt == f.rts[t.rt]
             i  == IF t.cue = 0 THEN rt.index + 1 ELSE RowOf(rt.items, t.cue)
  <1>1. /\ Becomes(flight, f) /\ IsMemory(f) /\ t.rt \in 1..Len(f.rts) /\ t.gen \in Nat
        /\ rt \in Runtime
    BY ExpiredType
  <1>2. i \in Nat /\ rt.index \in Nat
    BY <1>1, RowOfType DEF Runtime
  <1>3. flight' = f \/ (~(i <= rt.index) /\ flight' = Requested(f, t.rt, t.gen, i))
    BY DEF ClipFires
  <1>4. ~(i <= rt.index) => i \in Nat \ {0}
    BY <1>2
  <1> HIDE DEF f, i, rt
  <1>5. Becomes(flight, flight')
    BY <1>1, <1>3, <1>4, RequestedType, BecomesTransitive
  <1> QED BY <1>5, RowsStay, RestStays DEF ClipFires, OnlyFlight, Ordinary

LEMMA HardFiresStep ==
    ASSUME TypeInv, NEW t \in flight.timers, HardFires(t)
    PROVE  Ordinary
  <1> DEFINE f   == Fired(flight, t)
             rt  == f.rts[t.rt]
             i   == RowOf(rt.items, t.cue)
             g   == [f EXCEPT !.rts[t.rt].waiting = FALSE, !.rts[t.rt].gen = @ + 1]
             gen == t.gen + 1
  <1>1. /\ Becomes(flight, f) /\ IsMemory(f) /\ t.rt \in 1..Len(f.rts) /\ gen \in Nat
        /\ rt \in Runtime
    BY ExpiredType
  <1>2. i \in Nat /\ rt.index \in Nat
    BY <1>1, RowOfType DEF Runtime
  <1>3. flight' = f \/ (~(i <= rt.index) /\ flight' = Requested(g, t.rt, gen, i))
    BY DEF HardFires
  <1>4. ~(i <= rt.index) => i \in Nat \ {0}
    BY <1>2
  <1> HIDE DEF f, i, rt, gen
  <1>5. Becomes(f, g) /\ IsMemory(g) /\ t.rt \in 1..Len(g.rts)
    BY <1>1, NewGeneration
  <1> HIDE DEF g
  <1>6. Becomes(flight, g)
    BY <1>1, <1>5, BecomesTransitive
  <1>7. ~(i <= rt.index) => Becomes(g, Requested(g, t.rt, gen, i))
    BY <1>1, <1>4, <1>5, RequestedType
  <1>8. Becomes(flight, flight')
    BY <1>1, <1>3, <1>6, <1>7, BecomesTransitive
  <1> QED BY <1>8, RowsStay, RestStays DEF HardFires, OnlyFlight, Ordinary

--------------------------------------------------------------------------------
\* The radio and the environment

LEMMA SongEndedStep ==
    ASSUME TypeInv, SongEnded
    PROVE  Becomes(flight, flight') /\ CallsFollow
  <1> DEFINE r == flight.owner
             f == Bumped(flight, r)
  <1>1. CASE UNCHANGED <<flight, calls>>
    BY <1>1, RestStays
  <1>2. CASE /\ IsRunning(flight)
             /\ flight' = MovedOn(f, r) /\ calls' = Spawned(calls, "song", f, r)
    <2>1. r \in 1..Len(flight.rts)
      BY <1>2, Typed DEF IsRunning
    <2>2. Becomes(flight, f) /\ r \in 1..Len(f.rts)
      BY <2>1, Typed, BumpedType DEF Becomes, SameRuns
    <2> HIDE DEF f
    <2> QED BY <1>2, <2>2, TurnTypes, MovesOn
  <1> QED BY <1>1, <1>2 DEF SongEnded

LEMMA TrackEndsStep ==
    ASSUME TypeInv, TrackEnds
    PROVE  Ordinary
  <1> DEFINE kind == IF IsRotation(radio, radio.onAir) THEN "rotation" ELSE "song"
  <1>1. kind \in Steps /\ Spend(kind)
    BY DEF Steps, TrackEnds
  <1>2. RestTyped
    BY <1>1, Typed, SpendType, SilencedType DEF TrackEnds, RestTyped
  <1> QED BY <1>2, RowsStay, RestStays DEF TrackEnds, Ordinary

LEMMA EndArrivesStep ==
    ASSUME TypeInv, NEW n \in radio.ended, EndArrives(n)
    PROVE  Ordinary
  <1> DEFINE x == [radio EXCEPT !.ended = @ \ {n}]
  <1>1. x \in Radio
    BY Typed DEF Radio
  <1>2. [x EXCEPT !.active = 0] \in Radio
    BY <1>1 DEF Radio
  <1>3. radio' = x \/ radio' = [x EXCEPT !.active = 0] \/ radio' = Continues(x, n)
    BY DEF EndArrives
  <1>4. SongEnded \/ UNCHANGED <<flight, calls>>
    BY DEF EndArrives
  <1> HIDE DEF x
  <1>5. RestTyped
    BY <1>1, <1>2, <1>3, Typed, RadioType DEF EndArrives, RestTyped
  <1>6. Becomes(flight, flight') /\ CallsFollow
    BY <1>4, SongEndedStep, RestStays
  <1> QED BY <1>5, <1>6, RowsStay DEF EndArrives, Ordinary

LEMMA IdleSnapshotStep ==
    ASSUME TypeInv, IdleSnapshot
    PROVE  Ordinary
  <1>1. RestTyped
    BY Typed, RadioType DEF IdleSnapshot, RestTyped
  <1> QED BY <1>1, RowsStay, RestStays DEF IdleSnapshot, Ordinary

LEMMA TicksStep ==
    ASSUME TypeInv, Ticks
    PROVE  Ordinary
  <1>1. clock' \in 0..2 * MaxClock
    BY Typed, FlightAssumption DEF Ticks
  <1>2. RestTyped
    BY <1>1, Typed DEF Ticks, RestTyped
  <1> QED BY <1>2, RowsStay, RestStays DEF Ticks, Ordinary

LEMMA DisableStep ==
    ASSUME TypeInv, NEW m \in Cues, Disable(m)
    PROVE  Ordinary
  <1>1. "disable" \in Steps
    BY DEF Steps
  <1>2. RestTyped
    BY <1>1, Typed, SpendType DEF Disable, RestTyped
  <1> QED BY <1>2, RowsStay, RestStays DEF Disable, Ordinary

LEMMA RestartStep ==
    ASSUME TypeInv, Restart
    PROVE  Ordinary
  <1> DEFINE n   == Len(flight.rts)
             off == FALSE
             rts == [r \in 1..n |-> [flight.rts[r] EXCEPT !.running = off, !.timer = NoTimer]]
  <1>0. /\ flight.rts \in Seq(Run) /\ n \in Nat /\ DOMAIN flight.rts = 1..n /\ off \in BOOLEAN
        /\ ~off
    BY Typed, MemoryParts, LenProperties
  <1>1. flight' = [rts |-> rts, owner |-> 0, timers |-> {}, lock |-> <<>>]
    BY <1>0 DEF Restart
  <1> HIDE DEF off
  <1>2. \A r \in 1..n : Alike(flight.rts[r], rts[r])
    <2> SUFFICES ASSUME NEW r \in 1..n PROVE Alike(flight.rts[r], rts[r])
      OBVIOUS
    <2>1. flight.rts[r] \in Run /\ flight.rts[r] \in Runtime
      BY Typed, MemoryParts
    <2>2. rts[r] = [flight.rts[r] EXCEPT !.running = off, !.timer = NoTimer]
      OBVIOUS
    <2> DEFINE new == [flight.rts[r] EXCEPT !.running = off, !.timer = NoTimer]
    <2>3. new \in Runtime
      BY <1>0, <2>1, NoTimerType DEF Runtime
    <2>4. /\ new.log = flight.rts[r].log /\ new.items = flight.rts[r].items
          /\ new.sched = flight.rts[r].sched /\ new.index = flight.rts[r].index
          /\ new.running = off /\ new.clipAt = flight.rts[r].clipAt
      BY <2>1 DEF Runtime
    <2> HIDE DEF new, rts
    <2>5. Alike(flight.rts[r], new)
      BY <1>0, <2>1, <2>3, <2>4 DEF Alike, Run
    <2> QED BY <2>2, <2>5 DEF new
  <1>3. \A r \in 1..n : rts[r] \in Run
    BY <1>2 DEF Alike
  <1>4. rts \in [1..n -> Run]
    BY <1>3
  <1> HIDE DEF rts
  <1>5. rts \in Seq(Run) /\ Len(rts) = n
    BY <1>0, <1>4, LenProperties, SeqDef
  <1>6. IsMemory(flight') /\ flight'.rts = rts
    <2>1. <<>> \in Seq(Waiting(n)) /\ 0 \in 0..n /\ {} \subseteq Armable(n)
      BY <1>0, EmptySeq
    <2> QED BY <1>1, <1>5, <2>1 DEF IsMemory, Memory
  <1>7. Becomes(flight, flight')
    <2>1. SameRuns(flight, flight')
      BY <1>2, <1>5, <1>6 DEF SameRuns, Alike
    <2> QED BY <1>6, <2>1 DEF Becomes
  <1>8. CallsFollow
    <2>1. calls' = [c \in Callers |-> Idle]
      BY DEF Restart
    <2>2. Idle \in Call(n) /\ Stage(Idle) = "idle" /\ Idle.due = {}
      BY <1>0, IdleType DEF Idle, Stage
    <2>3. \A c \in Callers : Follows(calls[c], Idle)
      BY <2>2, FreeStages, FreeFollows
    <2> QED BY <2>1, <2>2, <2>3 DEF CallsFollow
  <1>9. RowsKeep
    <2>1. logs' = [l \in Logs |-> Interrupted(logs[l])]
      BY DEF Restart
    <2>2. \A l \in Logs : RowKeeps(logs[l], Interrupted(logs[l]))
      <3> SUFFICES ASSUME NEW l \in Logs PROVE RowKeeps(logs[l], Interrupted(logs[l]))
        OBVIOUS
      <3> DEFINE b == logs[l].running /\ logs[l].sched = Unclocked
      <3>1. /\ Interrupted(logs[l]) = [logs[l] EXCEPT !.running = b] /\ b \in BOOLEAN
            /\ logs[l] \in Row
        BY Typed DEF Interrupted
      <3> HIDE DEF b
      <3>2. logs[l].rev \in Nat /\ logs[l].rev <= logs[l].rev
        BY <3>1 DEF Row
      <3> QED BY <3>1, <3>2, RowWrites
    <2> QED BY <2>1, <2>2 DEF RowsKeep, RowKeeps
  <1>10. RestTyped
    <2>1. "crash" \in Steps
      BY DEF Steps
    <2> QED BY <2>1, Typed, SpendType, RadioType DEF Restart, RestTyped
  <1> QED BY <1>7, <1>8, <1>9, <1>10 DEF Restart, Ordinary

--------------------------------------------------------------------------------
\* Every step

\* What a step is: one that all share, or one of the few that do more.
Progress == \/ Ordinary \/ (\E c \in Callers : Launched(c)) \/ (\E l \in Logs : Claimed(l))
            \/ Began \/ Saved \/ Relisted

LEMMA EveryStep ==
    ASSUME TypeInv, [Next]_vars
    PROVE  Progress
  <1>1. CASE UNCHANGED vars
    BY <1>1, RowsStay, RestStays DEF vars, Progress, Ordinary
  <1>2. ASSUME NEW c \in Callers, Stops(c) \/ Completes(c) PROVE Progress
    BY <1>2, StopMarksStep, StopCutsStep, StopForwardsStep, StopEndsStep, PreparesStep,
       PreparedStep, ResumesStep DEF Stops, Completes, Progress
  <1>3. ASSUME NEW c \in Callers, Starts(c) PROVE Progress
    BY <1>3, StartReadsStep, StartChecksStep, StartLaunchesStep, StartPersistsStep,
       StartAnnouncesStep DEF Starts, Progress
  <1>4. ASSUME NEW c \in Callers, Manages(c) PROVE Progress
    BY <1>4, ActivateReadsStep, ActivateChecksStep, ActivatePointsStep, ActivateUnmarksStep,
       DeactivateEndsStep, ResetRewindsStep, DeleteUnlistsStep, DeleteUnpointsStep,
       PublishWritesStep DEF Manages, Progress
  <1>5. CASE Schedules
    BY <1>5, PollStep, ClaimsStep DEF Schedules, Progress
  <1>6. CASE Turns
    BY <1>6, CueDroppedStep, CueOutOfRangeStep, CueHeldStep, CueBeginsStep, CueUnplayableStep,
       CueTakesSongStep, CueStopsSongStep, CueNeedsNoAirStep, EditBeginsStep, EditWritesStep,
       EditAppliesStep DEF Turns, Progress
  <1>7. CASE Timers
    BY <1>7, HoldFiresStep, WaitFiresStep, SongEndTimesOutStep, ClipFiresStep, HardFiresStep
       DEF Timers, Progress
  <1>8. CASE Reports \/ IdleSnapshot \/ TrackEnds \/ Ticks
    BY <1>8, EndArrivesStep, IdleSnapshotStep, TrackEndsStep, TicksStep DEF Reports, Progress
  <1>9. CASE Operator
    BY <1>9, AskStartStep, AskStopStep, AskResetStep, AskDeactivateStep, AskGoStep,
       AskActivateStep, AskDeleteStep, AskPublishStep, AskEditStep DEF Operator, Progress
  <1>10. CASE Faults
    BY <1>10, RestartStep, StopFailsStep, PrepareFailsStep, DisableStep DEF Faults, Progress
  <1> QED BY <1>1, <1>2, <1>3, <1>4, <1>5, <1>6, <1>7, <1>8, <1>9, <1>10 DEF Next, Proceeds

LEMMA InitIsTyped == Init => TypeInv
  <1> SUFFICES ASSUME Init PROVE TypeInv
    OBVIOUS
  <1>1. PICK s \in Setups : /\ logs = s.logs /\ pointer = s.pointer
                            /\ radio = IdleRadio(s.auto) /\ left = s.budget
    BY DEF Init
  <1>2. logs \in [Logs -> Row] /\ pointer \in Logs \cup {None} /\ left \in [Steps -> Nat]
    BY <1>1, FlightAssumption
  <1>3. radio \in Radio
    <2>1. s.auto \in BOOLEAN
      BY FlightAssumption
    <2> DEFINE auto == s.auto
    <2>2. auto \in BOOLEAN /\ radio = IdleRadio(auto)
      BY <1>1, <2>1
    <2> HIDE DEF auto
    <2> QED BY <2>2, EmptySeq DEF IdleRadio, Radio, Sequencing
  <1>4. IsMemory(flight) /\ Len(flight.rts) = 0
    BY EmptySeq DEF Init, IsMemory, Memory
  <1>5. calls \in [Callers -> Call(Len(flight.rts))] /\ CueIsListed
    <2>1. calls = [c \in Callers |-> Idle] /\ "turn" \in Callers
      BY DEF Init, Callers
    <2>2. Idle \in Call(Len(flight.rts))
      BY <1>4, IdleType
    <2>3. Stage(Idle) \notin OfCue
      BY DEF Idle, Stage, OfCue
    <2> QED BY <2>1, <2>2, <2>3 DEF CueIsListed
  <1>6. clock \in 0..2 * MaxClock /\ claimed \in [Logs -> Nat] /\ playable \subseteq Cues
    BY FlightAssumption DEF Init
  <1> QED BY <1>2, <1>3, <1>4, <1>5, <1>6 DEF TypeInv

\* A turn that executes no cue has none to keep listed.
LEMMA NoCueIsListed ==
    ASSUME Stage(calls'["turn"]) \notin OfCue
    PROVE  CueIsListed'
  BY DEF CueIsListed

LEMMA NextIsTyped ==
    ASSUME TypeInv, [Next]_vars
    PROVE  TypeInv'
  <1>1. CASE Ordinary
    BY <1>1, OrdinaryIsTyped
  <1>2. ASSUME NEW c \in Callers, Launched(c) PROVE TypeInv'
    <2> DEFINE n == Len(flight.rts)
               t == calls["turn"]
               u == calls'["turn"]
    <2>1. /\ IsMemory(flight') /\ Len(flight'.rts) = n + 1 /\ calls' \in [Callers -> Call(n + 1)]
          /\ RowsKeep /\ RestTyped /\ claimed' = claimed
      BY <1>2 DEF Launched
    <2>2. CueIsListed'
      <3> SUFFICES ASSUME Stage(u) \in OfCue
                   PROVE  flight'.rts[u.rt].index <= Len(flight'.rts[u.rt].items)
        BY DEF CueIsListed
      <3>1. Stage(t) \in OfCue /\ u.rt = t.rt
        BY <1>2, TurnTypes DEF Launched, Follows
      <3>2. flight.rts[t.rt].index <= Len(flight.rts[t.rt].items)
        BY <3>1 DEF TypeInv, CueIsListed
      <3>3. t.rt \in 1..n
        <4>1. t \in Call(n) /\ t \in CallRecord(n) /\ OfCue \subseteq OfRuntime
          BY Typed, TurnTypes DEF OfCue, OfRuntime
        <4> QED BY <3>1, <4>1, Typed DEF Call, CallRecord
      <3> QED BY <1>2, <3>1, <3>2, <3>3 DEF Launched
    <2> QED BY <2>1, <2>2, Typed DEF TypeInv, RowsKeep, RestTyped
  <1>3. ASSUME NEW l \in Logs, Claimed(l) PROVE TypeInv'
    <2>1. CueIsListed'
      <3>1. Becomes(flight, flight') /\ CallsFollow /\ RowsKeep /\ RestTyped
        BY <1>3, RestStays DEF Claimed
      <3> DEFINE t == calls["turn"]
                 u == calls'["turn"]
      <3>2. t = u \/ Follows(t, u)
        BY <3>1, TurnTypes DEF CallsFollow
      <3>3. UNCHANGED flight
        BY <1>3 DEF Claimed
      <3> QED BY <3>2, <3>3 DEF CueIsListed, TypeInv, Follows
    <2>2. claimed' \in [Logs -> Nat]
      BY <1>3, Typed DEF Claimed
    <2> QED BY <1>3, <2>1, <2>2, Typed DEF Claimed, TypeInv, RowsKeep, RestTyped, CallsFollow
  <1>4. CASE Began
    BY <1>4, Typed DEF Began, TypeInv, RowsKeep, RestTyped
  <1>5. CASE Saved
    <2>1. CueIsListed'
      <3> DEFINE t == calls["turn"]
                 u == calls'["turn"]
      <3>1. UNCHANGED flight /\ (t = u \/ Follows(t, u))
        BY <1>5, TurnTypes DEF Saved, CallsFollow
      <3> QED BY <3>1 DEF CueIsListed, TypeInv, Follows
    <2> QED BY <1>5, <2>1, Typed DEF Saved, TypeInv, RestTyped, CallsFollow
  <1>6. CASE Relisted
    <2>1. CueIsListed'
      <3>1. "idle" \notin OfCue
        BY DEF OfCue
      <3> QED BY <1>6, <3>1, NoCueIsListed DEF Relisted
    <2> QED BY <1>6, <2>1, Typed DEF Relisted, TypeInv, RowsKeep, RestTyped, CallsFollow
  <1>7. Progress
    BY EveryStep
  <1> QED BY <1>1, <1>2, <1>3, <1>4, <1>5, <1>6, <1>7 DEF Progress

THEOREM FlightTyped == Spec => []TypeInv
  BY InitIsTyped, NextIsTyped, PTL DEF Spec

\* Every variable of the flight service keeps its type: rows, runtimes, timers, the
\* requests that wait, the calls in progress and the radio.
THEOREM FlightTypeCorrect == Spec => []TypeOK
  BY FlightTyped, TypeInvIsTyped, PTL

--------------------------------------------------------------------------------
\* The scheduler's claims

\* What was claimed was started, a runtime has the start of its row, a clocked one
\* that of a started row, and what a call launches is what it read of the row, whose
\* start never changes and whose mark is never taken back.
ClaimInv ==
    /\ \A l \in Logs : claimed[l] > 0 => logs[l].started
    /\ \A r \in 1..Len(flight.rts) :
          /\ flight.rts[r].sched = logs[flight.rts[r].log].sched
          /\ flight.rts[r].sched # Unclocked => logs[flight.rts[r].log].started
    /\ \A c \in Callers : \A l \in calls[c].due : logs[l].sched # Unclocked
    /\ \A c \in Callers : Stage(calls[c]) \in Launching =>
          /\ calls[c].snap.sched = logs[calls[c].log].sched
          /\ calls[c].snap.started => logs[calls[c].log].started

LEMMA InitClaims == Init => ClaimInv
  <1> SUFFICES ASSUME Init PROVE ClaimInv
    OBVIOUS
  <1>1. \A l \in Logs : ~(claimed[l] > 0)
    BY DEF Init
  <1>2. Len(flight.rts) = 0
    BY EmptySeq DEF Init
  <1>3. \A c \in Callers : calls[c].due = {} /\ Stage(calls[c]) = "idle"
    BY DEF Init, Idle, Stage
  <1>4. "idle" \notin Launching
    BY DEF Launching
  <1> QED BY <1>1, <1>2, <1>3, <1>4 DEF ClaimInv

\* The logs of runtimes, and of the calls that launch one.
LEMMA LogsOf ==
    ASSUME TypeInv
    PROVE  /\ \A r \in 1..Len(flight.rts) : flight.rts[r].log \in Logs
           /\ \A c \in Callers : /\ Stage(calls[c]) \in Launching => calls[c].log \in Logs
                                  /\ calls[c].due \subseteq Logs
  <1>1. \A r \in 1..Len(flight.rts) : flight.rts[r].log \in Logs
    <2> TAKE r \in 1..Len(flight.rts)
    <2>1. flight.rts[r] \in Runtime
      BY Typed, MemoryParts
    <2> QED BY <2>1 DEF Runtime
  <1>2. Launching \subseteq OfLog
    BY DEF Launching, OfLog
  <1>3. \A c \in Callers : /\ Stage(calls[c]) \in Launching => calls[c].log \in Logs
                            /\ calls[c].due \subseteq Logs
    BY <1>2, Typed DEF Call, CallRecord
  <1> QED BY <1>1, <1>3

\* The start of rows that were started stays, whatever else of them changes.
StartsStay == \A l \in Logs : /\ logs'[l].sched = logs[l].sched
                              /\ logs[l].started => logs'[l].started

\* The calls keep to ClaimInv.
LEMMA CallsKeepClaims ==
    ASSUME TypeInv, TypeInv', ClaimInv, StartsStay, NEW c \in Callers,
           calls'[c] = calls[c] \/ Follows(calls[c], calls'[c])
    PROVE  /\ \A l \in calls'[c].due : logs'[l].sched # Unclocked
           /\ Stage(calls'[c]) \in Launching =>
                 /\ calls'[c].snap.sched = logs'[calls'[c].log].sched
                 /\ calls'[c].snap.started => logs'[calls'[c].log].started
  <1> DEFINE old == calls[c]
             new == calls'[c]
  <1>1. /\ \A l \in old.due : l \in Logs /\ logs[l].sched # Unclocked
        /\ Stage(old) \in Launching =>
              /\ old.log \in Logs /\ old.snap.sched = logs[old.log].sched
              /\ old.snap.started => logs[old.log].started
    <2>1. \A l \in old.due : l \in Logs /\ logs[l].sched # Unclocked
      <3>1. calls[c].due \subseteq Logs
        <4>1. calls[c] \in CallRecord(Len(flight.rts))
          BY Typed
        <4> QED BY <4>1 DEF CallRecord
      <3>2. \A l \in calls[c].due : logs[l].sched # Unclocked
        BY DEF ClaimInv
      <3> QED BY <3>1, <3>2
    <2>2. Stage(old) \in Launching =>
              /\ old.log \in Logs /\ old.snap.sched = logs[old.log].sched
              /\ old.snap.started => logs[old.log].started
      BY LogsOf DEF ClaimInv
    <2> QED BY <2>1, <2>2
  <1>2. Stage(new) \in Launching => new.log \in Logs
    <2>1. new \in Call(Len(flight'.rts))
      BY DEF TypeInv
    <2>2. Launching \subseteq OfLog
      BY DEF Launching, OfLog
    <2> HIDE DEF new
    <2> QED BY <2>1, <2>2 DEF Call
  <1> HIDE DEF old, new
  <1>3. new = old \/ Follows(old, new)
    BY DEF old, new
  <1>4. \A l \in new.due : logs'[l].sched # Unclocked
    BY <1>1, <1>3 DEF Follows, StartsStay
  <1>5. Stage(new) \in Launching =>
           /\ new.snap.sched = logs'[new.log].sched
           /\ new.snap.started => logs'[new.log].started
    BY <1>1, <1>2, <1>3 DEF Follows, StartsStay
  <1> QED BY <1>4, <1>5 DEF new

LEMMA NextClaims ==
    ASSUME TypeInv, ClaimInv, [Next]_vars
    PROVE  ClaimInv'
  <1>0. TypeInv' /\ Progress
    BY NextIsTyped, EveryStep
  <1>1. StartsStay
    <2>1. CASE Saved
      BY <2>1 DEF Saved, StartsStay
    <2>2. CASE ~Saved
      <3>1. RowsKeep
        BY <1>0, <2>2 DEF Progress, Ordinary, Launched, Claimed, Began, Relisted
      <3> QED BY <3>1 DEF RowsKeep, RowKeeps, StartsStay
    <2> QED BY <2>1, <2>2
  <1>2. \A l \in Logs : claimed'[l] > 0 => logs'[l].started
    <2>1. CASE \E m \in Logs : Claimed(m)
      <3> PICK m \in Logs : Claimed(m)
        BY <2>1
      <3> QED BY <1>1, Typed DEF Claimed, ClaimInv, StartsStay
    <2>2. CASE claimed' = claimed
      BY <1>1, <2>2 DEF ClaimInv, StartsStay
    <2> QED BY <1>0, <2>1, <2>2 DEF Progress, Ordinary, Launched, Began, Saved, Relisted
  <1>3. ASSUME NEW c \in Callers
        PROVE  /\ \A l \in calls'[c].due : logs'[l].sched # Unclocked
               /\ Stage(calls'[c]) \in Launching =>
                     /\ calls'[c].snap.sched = logs'[calls'[c].log].sched
                     /\ calls'[c].snap.started => logs'[calls'[c].log].started
    <2>1. CASE calls'[c] = calls[c] \/ Follows(calls[c], calls'[c])
      BY <1>0, <1>1, <2>1, CallsKeepClaims
    <2>2. CASE calls'[c].due = {} /\ Stage(calls'[c]) = "cue"
      BY <2>2 DEF Launching
    <2> QED BY <1>0, <2>1, <2>2 DEF Progress, Ordinary, Launched, Claimed, Began, Saved, Relisted,
                                    CallsFollow
  <1>4. ASSUME NEW r \in 1..Len(flight'.rts)
        PROVE  /\ flight'.rts[r].sched = logs'[flight'.rts[r].log].sched
               /\ flight'.rts[r].sched # Unclocked => logs'[flight'.rts[r].log].started
    <2> DEFINE n == Len(flight.rts)
    <2>1. r \in 1..n => /\ flight.rts[r].log \in Logs
                        /\ flight.rts[r].sched = logs[flight.rts[r].log].sched
                        /\ flight.rts[r].sched # Unclocked => logs[flight.rts[r].log].started
      BY LogsOf DEF ClaimInv
    <2>2. CASE r \in 1..n /\ flight'.rts[r].log = flight.rts[r].log
                          /\ flight'.rts[r].sched = flight.rts[r].sched
      BY <1>1, <2>1, <2>2 DEF StartsStay
    <2>3. ASSUME NEW c \in Callers, Launched(c), r = n + 1
          PROVE  /\ flight'.rts[r].sched = logs'[flight'.rts[r].log].sched
                 /\ flight'.rts[r].sched # Unclocked => logs'[flight'.rts[r].log].started
      <3>1. /\ calls[c].log \in Logs /\ calls[c].snap.sched = logs[calls[c].log].sched
            /\ calls[c].snap.started => logs[calls[c].log].started
        BY <2>3, LogsOf DEF Launched, ClaimInv
      <3>2. /\ flight'.rts[r].log = calls[c].log /\ flight'.rts[r].sched = calls[c].snap.sched
            /\ flight'.rts[r].sched # Unclocked =>
                  calls[c].snap.started \/ logs'[calls[c].log].started
        BY <2>3 DEF Launched
      <3> QED BY <1>1, <3>1, <3>2 DEF StartsStay
    <2>4. CASE Ordinary
      BY <2>2, <2>4 DEF Ordinary, Becomes, SameRuns
    <2>5. CASE (\E l \in Logs : Claimed(l)) \/ Saved
      <3>1. UNCHANGED flight
        BY <2>5 DEF Claimed, Saved
      <3> QED BY <2>2, <3>1
    <2>6. CASE Began \/ Relisted
      BY <2>2, <2>6 DEF Began, Relisted
    <2>7. ASSUME NEW c \in Callers, Launched(c)
          PROVE  /\ flight'.rts[r].sched = logs'[flight'.rts[r].log].sched
                 /\ flight'.rts[r].sched # Unclocked => logs'[flight'.rts[r].log].started
      <3>1. Len(flight'.rts) = n + 1 /\ n \in Nat
        BY <2>7, Typed DEF Launched
      <3>2. r \in 1..n \/ r = n + 1
        BY <3>1
      <3>3. CASE r \in 1..n
        BY <2>2, <2>7, <3>3 DEF Launched
      <3> QED BY <2>3, <2>7, <3>2, <3>3
    <2> QED BY <1>0, <2>4, <2>5, <2>6, <2>7 DEF Progress
  <1> QED BY <1>2, <1>3, <1>4 DEF ClaimInv

THEOREM FlightClaims == Spec => [](TypeInv /\ ClaimInv)
  <1>1. Init => TypeInv /\ ClaimInv
    BY InitIsTyped, InitClaims
  <1>2. TypeInv /\ ClaimInv /\ [Next]_vars => (TypeInv /\ ClaimInv)'
    BY NextIsTyped, NextClaims
  <1> QED BY <1>1, <1>2, PTL DEF Spec

\* The scheduler claims a log once, and before anything of it ever ran: whatever fails,
\* however often the process restarts, and whatever operators start beside it.
THEOREM LogsAreClaimedFresh == Spec => ClaimsAreFresh
  <1> DEFINE Fresh == \A l \in Logs : claimed'[l] > claimed[l] =>
                         claimed[l] = 0 /\ \A r \in DOMAIN flight.rts : flight.rts[r].log # l
  <1>1. TypeInv /\ ClaimInv /\ [Next]_vars => [Fresh]_vars
    <2> SUFFICES ASSUME TypeInv, ClaimInv, [Next]_vars, NEW l \in Logs, claimed'[l] > claimed[l]
                 PROVE  claimed[l] = 0 /\ \A r \in DOMAIN flight.rts : flight.rts[r].log # l
      OBVIOUS
    <2>1. claimed[l] \in Nat /\ claimed' # claimed
      BY Typed
    <2>2. PICK m \in Logs : Claimed(m)
      BY <2>1, EveryStep DEF Progress, Ordinary, Launched, Began, Saved, Relisted
    <2>3. m = l
      BY <2>1, <2>2, Typed DEF Claimed
    <2>4. ~logs[l].started /\ logs[l].sched # Unclocked
      <3>1. "scheduler" \in Callers
        BY DEF Callers
      <3> QED BY <2>2, <2>3, <3>1 DEF Claimed, ClaimInv
    <2>5. claimed[l] = 0
      BY <2>1, <2>4 DEF ClaimInv
    <2>6. DOMAIN flight.rts = 1..Len(flight.rts)
      BY Typed, MemoryParts, LenProperties
    <2> QED BY <2>4, <2>5, <2>6 DEF ClaimInv
  <1> QED BY <1>1, FlightClaims, PTL DEF Spec, ClaimsAreFresh

--------------------------------------------------------------------------------
\* Saves

\* A save in progress: no row is older than what it read, it wrote the items the save
\* read unless the revision moved on, and the runtime it found keeps what it played.
SaveInv ==
    LET t == calls["turn"]
    IN  t.at = "editing" =>
           /\ t.snap.rev <= logs[t.log].rev
           /\ t.snap.rev = logs[t.log].rev => t.snap.items = logs[t.log].items
           /\ t.rt # 0 => /\ flight.rts[t.rt].log = t.log
                          /\ flight.rts[t.rt].running =>
                                PlayedKept(flight.rts[t.rt], t.snap.items, t.items)

LEMMA InitSaves == Init => SaveInv
  <1> SUFFICES ASSUME Init PROVE SaveInv
    OBVIOUS
  <1>1. calls["turn"] = Idle
    BY DEF Init, Callers
  <1>2. Idle.at # "editing"
    BY DEF Idle
  <1> QED BY <1>1, <1>2 DEF SaveInv

\* What a save in progress has read and found.
LEMMA SaveTypes ==
    ASSUME TypeInv, calls["turn"].at = "editing"
    PROVE  /\ calls["turn"].log \in Logs /\ calls["turn"].rt \in 0..Len(flight.rts)
           /\ Stage(calls["turn"]) = "editing"
           /\ logs[calls["turn"].log].rev \in Nat /\ calls["turn"].snap.rev \in Nat
           /\ logs[calls["turn"].log] \in Row
  <1>1. calls["turn"].log \in Logs /\ Stage(calls["turn"]) = "editing"
    BY TurnTypes, StageType DEF OfLog
  <1>2. calls["turn"].rt \in 0..Len(flight.rts) /\ calls["turn"].snap \in Row
    BY Typed, TurnTypes DEF CallRecord
  <1>3. logs[calls["turn"].log] \in Row
    BY <1>1, Typed
  <1> QED BY <1>1, <1>2, <1>3 DEF Row

\* The runtimes that were there stay at their cues, and none runs again.
CuesStay == \A r \in 1..Len(flight.rts) :
    /\ flight'.rts[r].log = flight.rts[r].log
    /\ flight'.rts[r].index = flight.rts[r].index
    /\ flight'.rts[r].running => flight.rts[r].running

LEMMA SaveStays ==
    ASSUME TypeInv, TypeInv', SaveInv, RowsKeep, CuesStay,
           calls'["turn"] = calls["turn"] \/ Follows(calls["turn"], calls'["turn"])
    PROVE  SaveInv'
  <1> DEFINE t == calls["turn"]
             u == calls'["turn"]
  <1> SUFFICES ASSUME u.at = "editing"
               PROVE  /\ u.snap.rev <= logs'[u.log].rev
                      /\ u.snap.rev = logs'[u.log].rev => u.snap.items = logs'[u.log].items
                      /\ u.rt # 0 => /\ flight'.rts[u.rt].log = u.log
                                     /\ flight'.rts[u.rt].running =>
                                           PlayedKept(flight'.rts[u.rt], u.snap.items, u.items)
    BY DEF SaveInv
  <1>1. u.log \in Logs /\ Stage(u) = "editing"
    <2>1. u \in Call(Len(flight'.rts))
      BY TurnTypes DEF TypeInv
    <2>2. Stage(u) = "editing" /\ "editing" \in OfLog
      BY DEF Stage, OfLog
    <2> QED BY <2>1, <2>2 DEF Call
  <1>2. /\ logs[u.log] \in Row /\ logs[u.log].rev \in Nat /\ logs'[u.log].rev \in Nat
        /\ logs[u.log].rev <= logs'[u.log].rev
        /\ logs'[u.log].items = logs[u.log].items
    <2>1. RowKeeps(logs[u.log], logs'[u.log]) /\ logs[u.log] \in Row
      BY <1>1, Typed DEF RowsKeep
    <2> QED BY <2>1 DEF RowKeeps, Row
  <1>3. /\ u.snap.rev \in Nat
        /\ u.snap.rev <= logs[u.log].rev
        /\ u.snap.rev = logs[u.log].rev => u.snap.items = logs[u.log].items
        /\ u.rt # 0 => /\ u.rt \in 1..Len(flight.rts)
                       /\ flight.rts[u.rt].log = u.log
                       /\ flight.rts[u.rt].running =>
                             PlayedKept(flight.rts[u.rt], u.snap.items, u.items)
    <2>1. CASE u = t
      BY <2>1, SaveTypes DEF SaveInv
    <2>2. CASE Follows(t, u)
      <3>1. Saves(u)
        BY <1>1, <2>2 DEF Follows
      <3> QED BY <1>2, <3>1 DEF Saves
    <2> QED BY <2>1, <2>2
  <1>4. u.snap.rev <= logs'[u.log].rev
    BY <1>2, <1>3
  <1>5. u.snap.rev = logs'[u.log].rev => u.snap.items = logs'[u.log].items
    BY <1>2, <1>3
  <1>6. ASSUME u.rt # 0
        PROVE  /\ flight'.rts[u.rt].log = u.log
               /\ flight'.rts[u.rt].running =>
                     PlayedKept(flight'.rts[u.rt], u.snap.items, u.items)
    BY <1>3, <1>6 DEF CuesStay, PlayedKept
  <1> QED BY <1>4, <1>5, <1>6

LEMMA NextSaves ==
    ASSUME TypeInv, SaveInv, [Next]_vars
    PROVE  SaveInv'
  <1>0. TypeInv' /\ Progress
    BY NextIsTyped, EveryStep
  <1>1. CASE Ordinary
    <2>1. CuesStay
      BY <1>1 DEF Ordinary, Becomes, SameRuns, CuesStay
    <2> QED BY <1>0, <1>1, <2>1, TurnTypes, SaveStays DEF Ordinary, CallsFollow
  <1>2. ASSUME NEW c \in Callers, Launched(c) PROVE SaveInv'
    <2>1. CuesStay
      BY <1>2 DEF Launched, CuesStay
    <2> QED BY <1>0, <1>2, <2>1, TurnTypes, SaveStays DEF Launched
  <1>3. ASSUME NEW l \in Logs, Claimed(l) PROVE SaveInv'
    <2>1. CuesStay
      BY <1>3 DEF Claimed, CuesStay
    <2> QED BY <1>0, <1>3, <2>1, TurnTypes, SaveStays DEF Claimed, CallsFollow
  <1>4. CASE Began
    BY <1>4 DEF Began, SaveInv, Stage
  <1>5. CASE Saved
    BY <1>5 DEF Saved, SaveInv
  <1>6. CASE Relisted
    BY <1>6 DEF Relisted, SaveInv, Stage
  <1> QED BY <1>0, <1>1, <1>2, <1>3, <1>4, <1>5, <1>6 DEF Progress

THEOREM FlightSaves == Spec => [](TypeInv /\ SaveInv)
  <1>1. Init => TypeInv /\ SaveInv
    BY InitIsTyped, InitSaves
  <1>2. TypeInv /\ SaveInv /\ [Next]_vars => (TypeInv /\ SaveInv)'
    BY NextIsTyped, NextSaves
  <1> QED BY <1>1, <1>2, PTL DEF Spec

\* A save that found its log running changes nothing up to the cue on the air, although
\* it writes several steps after it checked that.
THEOREM PlayedItemsAreKept == Spec => PlayedItemsKept
  <1> DEFINE Keeps == LET r == calls["turn"].rt
                          l == flight.rts[r].log
                      IN  /\ r # 0 /\ r = flight.owner /\ flight.rts[r].running
                          /\ logs'[l].items # logs[l].items
                          => Kept(flight.rts[r].index, logs[l].items, logs'[l].items)
  <1>1. TypeInv /\ SaveInv /\ [Next]_vars => [Keeps]_vars
    <2> DEFINE t == calls["turn"]
               l == flight.rts[t.rt].log
    <2> SUFFICES ASSUME TypeInv, SaveInv, [Next]_vars, t.rt # 0, t.rt = flight.owner,
                        flight.rts[t.rt].running, logs'[l].items # logs[l].items
                 PROVE  Kept(flight.rts[t.rt].index, logs[l].items, logs'[l].items)
      OBVIOUS
    <2>1. l \in Logs
      <3>1. t.rt \in 1..Len(flight.rts)
        BY Typed
      <3> QED BY <3>1, LogsOf
    <2>2. ~RowsKeep
      BY <2>1 DEF RowsKeep, RowKeeps
    <2>3. Saved
      BY <2>2, EveryStep DEF Progress, Ordinary, Launched, Claimed, Began, Relisted
    <2>4. Turn = t /\ t.at = "editing" /\ logs[t.log].rev = t.snap.rev
          /\ logs'[t.log].items = t.items
      BY <2>3 DEF Saved, Turn
    <2>5. /\ t.snap.items = logs[t.log].items /\ l = t.log
          /\ PlayedKept(flight.rts[t.rt], t.snap.items, t.items)
      BY <2>4 DEF SaveInv
    <2> QED BY <2>4, <2>5 DEF PlayedKept, Kept
  <1> QED BY <1>1, FlightSaves, PTL DEF Spec, PlayedItemsKept

--------------------------------------------------------------------------------
\* Cues in order, timers held

\* The runtime whose cue a turn executes, and the one a call is launching: 0 for none.
ExecutedBy(k) == IF Stage(k) \in OfCue THEN k.rt ELSE 0
LaunchedBy(k) == IF Stage(k) \in {"persist", "announce"} THEN k.rt ELSE 0
Executed == ExecutedBy(calls["turn"])
Announced == LaunchedBy(calls["scheduler"])

\* Runtime r aired nothing from its k-th cue on.
Ahead(aired, r, k) == \A i \in 1..Len(aired) : aired[i].rt = r => aired[i].pos < k

\* A clocked log plays songs, clips and stops, once.
Clockwork(rt) == rt.sched # Unclocked /\ ~rt.loop /\ ClockItems(rt.items)

\* With e executing a cue and n being launched: nothing but a waiting request can
\* move r on.
Clear(f, e, n, r) ==
    f.rts[r].timer = NoTimer /\ ~f.rts[r].waiting /\ e # r /\ n # r

\* The requests of r that are not stale.
Asked(f, r) == {i \in 1..Len(f.lock) : f.lock[i].rt = r /\ f.lock[i].gen = f.rts[r].gen}

\* Nothing at all is pending for r.
Spare(f, e, n, r) == Clear(f, e, n, r) /\ Asked(f, r) = {}

\* The timer of r is for what r does.
TimerFits(f, aired, r) ==
    LET t == f.rts[r].timer
    IN  t # NoTimer => /\ t.gen = f.rts[r].gen /\ t.kind \in {"hold", "clip", "hard"}
                       /\ f.rts[r].waiting => t.kind = "hard"
                       /\ t.kind = "hold" => Ahead(aired, r, t.cue)

\* One thing at most is pending for r: its timer or the end of its song, the cue in
\* execution, the launch, or one request, and it leads to a cue that was not aired.
Single(f, e, n, aired, r) ==
    /\ Clockwork(f.rts[r])
    /\ TimerFits(f, aired, r)
    /\ f.rts[r].timer # NoTimer \/ f.rts[r].waiting => e # r /\ n # r
    /\ e # r \/ n # r
    /\ \A i \in Asked(f, r) : Clear(f, e, n, r) /\ Ahead(aired, r, f.lock[i].index)
    /\ \A i, j \in Asked(f, r) : i = j
    /\ Ahead(aired, r, f.rts[r].index + 1)
    /\ e = r => Ahead(aired, r, f.rts[r].index)
    /\ n = r => Ahead(aired, r, 1)

Held(f) == \A t \in f.timers : f.rts[t.rt].timer = t

\* What waits are cues, none of a generation to come.
CuesWait(f) == \A i \in 1..Len(f.lock) :
    f.lock[i].op = "cue" /\ f.lock[i].gen <= f.rts[f.lock[i].rt].gen

Steady(f, e, n, aired) ==
    /\ \A r \in 1..Len(f.rts) : Single(f, e, n, aired, r)
    /\ Held(f) /\ CuesWait(f)
    /\ \A i \in 1..Len(aired) : aired[i].rt <= Len(f.rts)

\* g is f with timers cleared, waits ended, and requests taken.
Eased(old, new) ==
    /\ new.gen = old.gen /\ new.index = old.index /\ new.items = old.items
    /\ new.sched = old.sched /\ new.loop = old.loop
    /\ new.timer \in {old.timer, NoTimer}
    /\ new.waiting => old.waiting

Behind(L, M, h) == Len(M) = Len(L) - h /\ \A i \in 1..Len(M) : M[i] = L[i + h]

Eases(f, g) ==
    /\ IsMemory(g) /\ Len(g.rts) = Len(f.rts)
    /\ \A r \in 1..Len(f.rts) : Eased(f.rts[r], g.rts[r])
    /\ Held(g)
    /\ \E h \in 0..Len(f.lock) : Behind(f.lock, g.lock, h)

LEMMA WaitingOnes ==
    ASSUME NEW f, IsMemory(f), NEW i \in 1..Len(f.lock)
    PROVE  /\ f.lock[i] \in Request /\ Len(f.lock) \in Nat
           /\ f.lock[i].op = "cue" => f.lock[i].rt \in 1..Len(f.rts) /\ f.lock[i].index \in Nat \ {0}
  <1>1. f.lock \in Seq(Waiting(Len(f.rts)))
    BY MemoryParts
  <1>2. f.lock[i] \in Waiting(Len(f.rts)) /\ Len(f.lock) \in Nat
    BY <1>1, ElementOfSeq, LenProperties
  <1> QED BY <1>2 DEF Waiting, Request

\* What eases the memory keeps it steady, and the runtimes spare that were.
LEMMA SteadyEases ==
    ASSUME NEW f, IsMemory(f), NEW g, Eases(f, g), NEW e, NEW n, NEW aired,
           Steady(f, e, n, aired), NEW d \in {0, e}, NEW m \in {0, n}
    PROVE  /\ Steady(g, d, m, aired)
           /\ \A r \in 1..Len(f.rts) : Spare(f, e, n, r) => Spare(g, d, m, r)
  <1>1. PICK h \in 0..Len(f.lock) : Behind(f.lock, g.lock, h)
    BY DEF Eases
  <1>2. /\ Len(f.lock) \in Nat /\ Len(g.lock) = Len(f.lock) - h /\ h \in Nat
        /\ \A i \in 1..Len(g.lock) : i + h \in 1..Len(f.lock) /\ g.lock[i] = f.lock[i + h]
    BY <1>1, MemoryParts, LenProperties DEF Behind
  <1>3. Len(g.rts) = Len(f.rts) /\ IsMemory(g) /\ Len(f.rts) \in Nat
    BY MemoryParts DEF Eases
  <1>4. ASSUME NEW r \in 1..Len(f.rts)
        PROVE  /\ r # 0 /\ Eased(f.rts[r], g.rts[r])
               /\ \A i \in Asked(g, r) : i + h \in Asked(f, r) /\ g.lock[i] = f.lock[i + h]
               /\ Clear(f, e, n, r) => Clear(g, d, m, r)
               /\ \A i \in Asked(g, r) : i \in Nat
    <2>1. Eased(f.rts[r], g.rts[r]) /\ r # 0
      BY DEF Eases
    <2>2. \A i \in Asked(g, r) : i + h \in Asked(f, r) /\ g.lock[i] = f.lock[i + h] /\ i \in Nat
      BY <1>2, <2>1 DEF Asked, Eased
    <2>3. Clear(f, e, n, r) => Clear(g, d, m, r)
      BY <2>1 DEF Clear, Eased
    <2> QED BY <2>1, <2>2, <2>3
  <1>5. ASSUME NEW r \in 1..Len(f.rts)
        PROVE  Single(g, d, m, aired, r)
    <2>0. Single(f, e, n, aired, r)
      BY DEF Steady
    <2>1. Clockwork(g.rts[r]) /\ TimerFits(g, aired, r)
      BY <1>4, <2>0 DEF Single, Clockwork, TimerFits, Eased
    <2>2. /\ g.rts[r].timer # NoTimer \/ g.rts[r].waiting => d # r /\ m # r
          /\ d # r \/ m # r
      BY <1>4, <2>0 DEF Single, Eased
    <2>3. \A i \in Asked(g, r) : Clear(g, d, m, r) /\ Ahead(aired, r, g.lock[i].index)
      BY <1>4, <2>0 DEF Single
    <2>4. \A i, j \in Asked(g, r) : i = j
      <3> SUFFICES ASSUME NEW i \in Asked(g, r), NEW j \in Asked(g, r) PROVE i = j
        OBVIOUS
      <3>1. i + h \in Asked(f, r) /\ j + h \in Asked(f, r) /\ i \in Nat /\ j \in Nat
        BY <1>4
      <3>2. i + h = j + h
        BY <2>0, <3>1 DEF Single
      <3> QED BY <1>2, <3>1, <3>2
    <2>5. /\ Ahead(aired, r, g.rts[r].index + 1)
          /\ d = r => Ahead(aired, r, g.rts[r].index)
          /\ m = r => Ahead(aired, r, 1)
      BY <1>4, <2>0 DEF Single, Eased
    <2> QED BY <2>1, <2>2, <2>3, <2>4, <2>5 DEF Single
  <1>6. CuesWait(g)
    <2> SUFFICES ASSUME NEW i \in 1..Len(g.lock)
                 PROVE  g.lock[i].op = "cue" /\ g.lock[i].gen <= g.rts[g.lock[i].rt].gen
      BY DEF CuesWait
    <2>1. i + h \in 1..Len(f.lock) /\ g.lock[i] = f.lock[i + h]
      BY <1>2
    <2>2. f.lock[i + h].op = "cue" /\ f.lock[i + h].gen <= f.rts[f.lock[i + h].rt].gen
      BY <2>1 DEF Steady, CuesWait
    <2>3. f.lock[i + h].rt \in 1..Len(f.rts)
      BY <2>1, <2>2, WaitingOnes
    <2> QED BY <1>4, <2>1, <2>2, <2>3 DEF Eased
  <1>7. Steady(g, d, m, aired)
    BY <1>3, <1>5, <1>6 DEF Steady, Eases
  <1>8. \A r \in 1..Len(f.rts) : Spare(f, e, n, r) => Spare(g, d, m, r)
    BY <1>4 DEF Spare
  <1> QED BY <1>7, <1>8

\* One runtime and the timers replaced.
Rewrites(f, g, r, rt, T) ==
    /\ g.timers = T /\ g.lock = f.lock /\ g.owner = f.owner /\ Len(g.rts) = Len(f.rts)
    /\ \A j \in 1..Len(f.rts) : g.rts[j] = IF j = r THEN rt ELSE f.rts[j]

LEMMA Rewritten ==
    ASSUME NEW f, IsMemory(f), NEW r \in 1..Len(f.rts), NEW rt \in Run, NEW T, NEW g,
           g = [f EXCEPT !.timers = T, !.rts = [f.rts EXCEPT ![r] = rt]]
    PROVE  Rewrites(f, g, r, rt, T)
  <1> DEFINE s == [f.rts EXCEPT ![r] = rt]
  <1>1. f \in [rts : Seq(Run), owner : 0..Len(f.rts), timers : SUBSET Armable(Len(f.rts)),
               lock : Seq(Waiting(Len(f.rts)))]
    BY MemoryParts
  <1>2. /\ Len(s) = Len(f.rts)
        /\ \A j \in 1..Len(f.rts) : s[j] = IF j = r THEN rt ELSE f.rts[j]
    BY <1>1, Replaced
  <1>3. g = [f EXCEPT !.timers = T, !.rts = s]
    OBVIOUS
  <1> HIDE DEF s
  <1> QED BY <1>1, <1>2, <1>3 DEF Rewrites

LEMMA LockStays ==
    ASSUME NEW f, IsMemory(f), NEW L, L = f.lock
    PROVE  \E h \in 0..Len(f.lock) : Behind(f.lock, L, h)
  <1>1. Len(f.lock) \in Nat
    BY MemoryParts, LenProperties
  <1>2. 0 \in 0..Len(f.lock) /\ Len(L) = Len(f.lock) - 0
    BY <1>1
  <1>3. \A i \in 1..Len(L) : L[i] = f.lock[i + 0]
    BY <1>1
  <1> QED BY <1>2, <1>3 DEF Behind

\* A timer names its runtime.
LEMMA TimerOf ==
    ASSUME NEW f, IsMemory(f), NEW t \in f.timers
    PROVE  t \in TimerRecord /\ t.rt \in 1..Len(f.rts) /\ t # NoTimer
  <1>1. t \in Armable(Len(f.rts))
    BY MemoryParts
  <1>2. Len(f.rts) \in Nat
    BY MemoryParts
  <1> QED BY <1>1, <1>2 DEF Armable, NoTimer

\* A change of one runtime that eases.
LEMMA RewrittenEases ==
    ASSUME NEW f, IsMemory(f), Held(f), NEW r \in 1..Len(f.rts), NEW rt \in Run,
           Eased(f.rts[r], rt), NEW T, T \subseteq f.timers,
           rt.timer = f.rts[r].timer \/ f.rts[r].timer \notin T,
           NEW g, IsMemory(g), g = [f EXCEPT !.timers = T, !.rts = [f.rts EXCEPT ![r] = rt]]
    PROVE  Eases(f, g) /\ Rewrites(f, g, r, rt, T)
  <1>1. Rewrites(f, g, r, rt, T)
    BY Rewritten
  <1>2. /\ g.timers = T /\ g.lock = f.lock /\ Len(g.rts) = Len(f.rts)
        /\ \A j \in 1..Len(f.rts) : g.rts[j] = IF j = r THEN rt ELSE f.rts[j]
    BY <1>1 DEF Rewrites
  <1>3. \A j \in 1..Len(f.rts) : Eased(f.rts[j], g.rts[j])
    BY <1>2 DEF Eased
  <1>4. Held(g)
    <2> SUFFICES ASSUME NEW t \in g.timers PROVE g.rts[t.rt].timer = t
      BY DEF Held
    <2>1. t \in T /\ t \in f.timers /\ f.rts[t.rt].timer = t
      BY <1>2 DEF Held
    <2>2. t.rt \in 1..Len(f.rts)
      BY <2>1, TimerOf
    <2> QED BY <1>2, <2>1, <2>2
  <1>5. \E h \in 0..Len(f.lock) : Behind(f.lock, g.lock, h)
    BY <1>2, LockStays
  <1> QED BY <1>1, <1>2, <1>3, <1>4, <1>5 DEF Eases

LEMMA EasesTransitive ==
    ASSUME NEW f, IsMemory(f), NEW g, Eases(f, g), NEW k, Eases(g, k)
    PROVE  Eases(f, k)
  <1>1. PICK h \in 0..Len(f.lock) : Behind(f.lock, g.lock, h)
    BY DEF Eases
  <1>2. PICK j \in 0..Len(g.lock) : Behind(g.lock, k.lock, j)
    BY DEF Eases
  <1>3. Len(f.lock) \in Nat /\ Len(g.lock) \in Nat /\ Len(k.lock) \in Nat
    BY MemoryParts, LenProperties DEF Eases
  <1>4. /\ Len(g.lock) = Len(f.lock) - h /\ Len(k.lock) = Len(g.lock) - j
        /\ \A i \in 1..Len(g.lock) : g.lock[i] = f.lock[i + h]
        /\ \A i \in 1..Len(k.lock) : k.lock[i] = g.lock[i + j]
    BY <1>1, <1>2 DEF Behind
  <1>5. h + j \in 0..Len(f.lock) /\ Len(k.lock) = Len(f.lock) - (h + j)
    BY <1>3, <1>4
  <1>6. \A i \in 1..Len(k.lock) : k.lock[i] = f.lock[i + (h + j)]
    <2> TAKE i \in 1..Len(k.lock)
    <2>1. i + j \in 1..Len(g.lock) /\ (i + j) + h = i + (h + j)
      BY <1>3, <1>4
    <2> QED BY <1>4, <2>1
  <1>7. \A r \in 1..Len(f.rts) : Eased(f.rts[r], k.rts[r])
    BY DEF Eases, Eased
  <1> QED BY <1>5, <1>6, <1>7 DEF Eases, Behind

LEMMA EasesReflexive ==
    ASSUME NEW f, IsMemory(f), Held(f)
    PROVE  Eases(f, f)
  <1>1. \A r \in 1..Len(f.rts) : Eased(f.rts[r], f.rts[r])
    BY DEF Eased
  <1> QED BY <1>1, LockStays DEF Eases

\* clearTimer
LEMMA DisarmedEases ==
    ASSUME NEW f, IsMemory(f), Held(f), NEW r \in 1..Len(f.rts)
    PROVE  /\ Eases(f, Disarmed(f, r))
           /\ Rewrites(f, Disarmed(f, r), r, [f.rts[r] EXCEPT !.timer = NoTimer],
                       f.timers \ {f.rts[r].timer})
           /\ Disarmed(f, r).rts[r].timer = NoTimer
  <1> DEFINE rt == [f.rts[r] EXCEPT !.timer = NoTimer]
             T  == f.timers \ {f.rts[r].timer}
  <1>0. f.rts[r] \in Run /\ f.rts[r] \in Runtime
    BY MemoryParts
  <1>1. rt \in Run /\ Eased(f.rts[r], rt) /\ rt.timer = NoTimer
    <2>1. rt \in Run
      BY <1>0, NoTimerType, TimerReplaced DEF Alike
    <2> QED BY <1>0, <2>1 DEF Eased, Runtime
  <1>2. Disarmed(f, r) = [f EXCEPT !.timers = T, !.rts = [f.rts EXCEPT ![r] = rt]]
    BY DEF Disarmed
  <1>3. IsMemory(Disarmed(f, r))
    BY DisarmedType DEF Becomes
  <1>4. T \subseteq f.timers /\ f.rts[r].timer \notin T
    OBVIOUS
  <1>5. Eases(f, Disarmed(f, r)) /\ Rewrites(f, Disarmed(f, r), r, rt, T)
    <2> HIDE DEF rt, T
    <2> QED BY <1>1, <1>2, <1>3, <1>4, RewrittenEases
  <1>6. Disarmed(f, r).rts[r] = rt
    <2> HIDE DEF rt, T
    <2> QED BY <1>5 DEF Rewrites
  <1> QED BY <1>1, <1>5, <1>6

\* A runtime waits no more, or stops.
LEMMA LoosedEases ==
    ASSUME NEW f, IsMemory(f), Held(f), NEW r \in 1..Len(f.rts), NEW g, IsMemory(g),
           \/ g = [f EXCEPT !.rts[r].waiting = FALSE]
           \/ g = [f EXCEPT !.rts[r].running = FALSE]
    PROVE  Eases(f, g)
  <1>0. f.rts[r] \in Run /\ f.rts[r] \in Runtime /\ f.rts \in Seq(Run)
    BY MemoryParts
  <1>1. ASSUME NEW rt, rt \in {[f.rts[r] EXCEPT !.waiting = FALSE], [f.rts[r] EXCEPT !.running = FALSE]}
        PROVE  rt \in Run /\ Eased(f.rts[r], rt) /\ rt.timer = f.rts[r].timer
    <2>1. CASE rt = [f.rts[r] EXCEPT !.waiting = FALSE]
      BY <1>0, <2>1 DEF Run, Runtime, Eased
    <2>2. CASE rt = [f.rts[r] EXCEPT !.running = FALSE]
      BY <1>0, <2>2 DEF Run, Runtime, Eased
    <2> QED BY <1>1, <2>1, <2>2
  <1>2. ASSUME NEW rt, rt \in Run, Eased(f.rts[r], rt), rt.timer = f.rts[r].timer,
               g = [f EXCEPT !.rts = [f.rts EXCEPT ![r] = rt]]
        PROVE  Eases(f, g)
    <2> DEFINE T == f.timers
    <2>1. g = [f EXCEPT !.timers = T, !.rts = [f.rts EXCEPT ![r] = rt]]
      BY <1>2, MemoryParts
    <2>2. T \subseteq f.timers
      OBVIOUS
    <2> HIDE DEF T
    <2> QED BY <1>2, <2>1, <2>2, RewrittenEases
  <1>3. CASE g = [f EXCEPT !.rts[r].waiting = FALSE]
    <2> DEFINE rt == [f.rts[r] EXCEPT !.waiting = FALSE]
    <2>1. g = [f EXCEPT !.rts = [f.rts EXCEPT ![r] = rt]]
      BY <1>0, <1>3, MemoryParts
    <2>2. rt \in Run /\ Eased(f.rts[r], rt) /\ rt.timer = f.rts[r].timer
      BY <1>1
    <2> HIDE DEF rt
    <2> QED BY <1>2, <2>1, <2>2
  <1>4. CASE g = [f EXCEPT !.rts[r].running = FALSE]
    <2> DEFINE rt == [f.rts[r] EXCEPT !.running = FALSE]
    <2>1. g = [f EXCEPT !.rts = [f.rts EXCEPT ![r] = rt]]
      BY <1>0, <1>4, MemoryParts
    <2>2. rt \in Run /\ Eased(f.rts[r], rt) /\ rt.timer = f.rts[r].timer
      BY <1>1
    <2> HIDE DEF rt
    <2> QED BY <1>2, <2>1, <2>2
  <1> QED BY <1>3, <1>4

\* stopRuntime up to its first await, and finishBlock.
LEMMA StopBegunEases ==
    ASSUME NEW f, IsMemory(f), Held(f)
    PROVE  Eases(f, StopBegun(f)) /\ \A r : Eases(f, FinishBegun(f, r))
  <1>1. CASE f.owner = 0
    BY <1>1, EasesReflexive DEF StopBegun, FinishBegun
  <1>2. CASE f.owner # 0
    <2> DEFINE r == f.owner
               g == Disarmed(f, r)
    <2>1. r \in 1..Len(f.rts)
      BY <1>2, MemoryParts
    <2>2. Eases(f, g) /\ IsMemory(g) /\ Held(g) /\ r \in 1..Len(g.rts)
      BY <2>1, DisarmedEases DEF Eases
    <2>3. StopBegun(f) = [g EXCEPT !.rts[r].waiting = FALSE]
      BY <1>2 DEF StopBegun
    <2>4. IsMemory(StopBegun(f))
      BY StopBegunType DEF Becomes
    <2> HIDE DEF g, r
    <2>5. Eases(g, StopBegun(f))
      BY <2>2, <2>3, <2>4, LoosedEases
    <2>6. Eases(f, StopBegun(f))
      BY <2>2, <2>5, EasesTransitive
    <2> QED BY <2>6, EasesReflexive DEF FinishBegun
  <1> QED BY <1>1, <1>2

\* Another runtime, or none, in the map.
LEMMA OwnerEases ==
    ASSUME NEW f, IsMemory(f), Held(f), NEW o, NEW g, IsMemory(g), g = [f EXCEPT !.owner = o]
    PROVE  Eases(f, g)
  <1>1. g.rts = f.rts /\ g.timers = f.timers /\ g.lock = f.lock
    BY MemoryParts
  <1>2. \A r \in 1..Len(f.rts) : Eased(f.rts[r], g.rts[r])
    BY <1>1 DEF Eased
  <1> QED BY <1>1, <1>2, LockStays DEF Eases, Held

LEMMA ReleasedEases ==
    ASSUME NEW f, IsMemory(f), Held(f), NEW r \in 0..Len(f.rts)
    PROVE  Eases(f, Released(f, r)) /\ Eases(f, Unmapped(f))
  <1>1. Eases(f, Unmapped(f))
    <2>1. IsMemory(Unmapped(f))
      BY ReleasedType DEF Becomes
    <2> QED BY <2>1, OwnerEases DEF Unmapped
  <1>2. CASE r = 0
    BY <1>1, <1>2, EasesReflexive DEF Released
  <1>3. CASE r # 0
    <2> DEFINE g == [f EXCEPT !.rts[r].running = FALSE]
               o == IF f.owner = r THEN 0 ELSE f.owner
    <2>1. r \in 1..Len(f.rts) /\ f.rts[r] \in Run /\ f.rts[r] \in Runtime /\ f.rts \in Seq(Run)
      BY <1>3, MemoryParts
    <2>2. Released(f, r) = [g EXCEPT !.owner = o]
      BY <1>3, MemoryParts DEF Released
    <2>3. IsMemory(g)
      <3> DEFINE rt == [f.rts[r] EXCEPT !.running = FALSE]
      <3>1. Alike(f.rts[r], rt)
        BY <2>1 DEF Alike, Run, Runtime
      <3>2. g = [f EXCEPT !.rts = [f.rts EXCEPT ![r] = rt]]
        BY <2>1, MemoryParts
      <3> HIDE DEF rt, g
      <3> QED BY <2>1, <3>1, <3>2, RunChanged DEF Becomes
    <2>4. IsMemory(Released(f, r))
      BY ReleasedType DEF Becomes
    <2>5. g = [f EXCEPT !.rts[r].running = FALSE]
      OBVIOUS
    <2> HIDE DEF g, o
    <2>6. Eases(f, g)
      BY <2>1, <2>3, <2>5, LoosedEases
    <2>7. Eases(g, Released(f, r))
      BY <2>2, <2>3, <2>4, <2>6, OwnerEases DEF Eases
    <2> QED BY <1>1, <2>6, <2>7, EasesTransitive
  <1> QED BY <1>2, <1>3

\* An operation leaves the queue of cueOperations: its runtime is spare, when the
\* operation was not stale.
LEMMA TakenEases ==
    ASSUME NEW f, IsMemory(f), Held(f), f.lock # <<>>
    PROVE  /\ Eases(f, Taken(f)) /\ Taken(f).rts = f.rts /\ Taken(f).owner = f.owner
           /\ Len(f.lock) \in Nat \ {0} /\ Head(f.lock) = f.lock[1]
           /\ Len(Taken(f).lock) = Len(f.lock) - 1
           /\ \A i \in 1..Len(Taken(f).lock) : Taken(f).lock[i] = f.lock[i + 1]
  <1>1. f.lock \in Seq(Waiting(Len(f.rts))) /\ Len(f.lock) \in Nat \ {0}
    BY MemoryParts, LenProperties, EmptySeq
  <1>2. /\ Head(f.lock) = f.lock[1] /\ Len(Tail(f.lock)) = Len(f.lock) - 1
        /\ \A i \in 1..Len(Tail(f.lock)) : Tail(f.lock)[i] = f.lock[i + 1]
    BY <1>1, HeadTailProperties
  <1>3. Taken(f).rts = f.rts /\ Taken(f).timers = f.timers /\ Taken(f).lock = Tail(f.lock)
        /\ Taken(f).owner = f.owner
    BY MemoryParts DEF Taken
  <1>4. IsMemory(Taken(f))
    BY TakenType DEF Becomes
  <1>5. \A r \in 1..Len(f.rts) : Eased(f.rts[r], Taken(f).rts[r])
    BY <1>3 DEF Eased
  <1>6. 1 \in 0..Len(f.lock) /\ Behind(f.lock, Taken(f).lock, 1)
    BY <1>1, <1>2, <1>3 DEF Behind
  <1> QED BY <1>1, <1>2, <1>3, <1>4, <1>5, <1>6 DEF Eases, Held

LEMMA TakenSpares ==
    ASSUME NEW f, IsMemory(f), f.lock # <<>>, NEW e, NEW n, NEW aired, Steady(f, e, n, aired),
           Head(f.lock).gen = f.rts[Head(f.lock).rt].gen
    PROVE  /\ Head(f.lock).rt \in 1..Len(f.rts) /\ Head(f.lock).index \in Nat \ {0}
           /\ Spare(Taken(f), e, n, Head(f.lock).rt)
           /\ Steady(Taken(f), e, n, aired)
           /\ Ahead(aired, Head(f.lock).rt, Head(f.lock).index)
  <1> DEFINE q == f.lock[1]
             r == q.rt
  <1>1. Held(f) /\ CuesWait(f)
    BY DEF Steady
  <1>2. /\ Eases(f, Taken(f)) /\ Taken(f).rts = f.rts /\ Head(f.lock) = q
        /\ Len(f.lock) \in Nat \ {0} /\ Len(Taken(f).lock) = Len(f.lock) - 1
        /\ \A i \in 1..Len(Taken(f).lock) : Taken(f).lock[i] = f.lock[i + 1]
    BY <1>1, TakenEases
  <1>3. 1 \in 1..Len(f.lock) /\ q.op = "cue"
    BY <1>1, <1>2 DEF CuesWait
  <1>4. r \in 1..Len(f.rts) /\ q.index \in Nat \ {0}
    BY <1>3, WaitingOnes
  <1>5. 1 \in Asked(f, r)
    BY <1>2, <1>3 DEF Asked
  <1>6. Single(f, e, n, aired, r)
    BY <1>4 DEF Steady
  <1>7. Clear(f, e, n, r) /\ Ahead(aired, r, q.index)
    BY <1>5, <1>6 DEF Single
  <1>8. Asked(Taken(f), r) = {}
    <2> SUFFICES ASSUME NEW i \in Asked(Taken(f), r) PROVE FALSE
      OBVIOUS
    <2>1. i \in 1..Len(Taken(f).lock) /\ i + 1 \in Asked(f, r) /\ i \in Nat \ {0}
      BY <1>2 DEF Asked
    <2>2. i + 1 = 1
      BY <1>5, <1>6, <2>1 DEF Single
    <2> QED BY <2>1, <2>2
  <1>9. Steady(Taken(f), e, n, aired)
    BY <1>2, SteadyEases
  <1> QED BY <1>2, <1>4, <1>7, <1>8, <1>9 DEF Spare, Clear

\* What a step leaves alone of the runtimes other than r.
Spares(f, g, r) ==
    /\ \A j \in 1..Len(f.rts) : j # r => g.rts[j] = f.rts[j]
    /\ \A i \in 1..Len(g.lock) : \/ (i \in 1..Len(f.lock) /\ g.lock[i] = f.lock[i])
                                  \/ g.lock[i].rt = r

\* The runtime that something is pending for, if any, stays, is done with, or is r.
Passes(old, new, r) == new \in {old, 0, r}

LEMMA OthersSame ==
    ASSUME NEW f, NEW g, NEW r, Spares(f, g, r), NEW e, NEW n, NEW d, Passes(e, d, r),
           NEW m, Passes(n, m, r), NEW aired, NEW j \in 1..Len(f.rts), j # r,
           Single(f, e, n, aired, j)
    PROVE  Single(g, d, m, aired, j)
  <1>1. g.rts[j] = f.rts[j] /\ j # 0
    BY DEF Spares
  <1>2. (d = j => e = j) /\ (m = j => n = j)
    BY <1>1 DEF Passes
  <1>3. \A i \in Asked(g, j) : i \in Asked(f, j) /\ g.lock[i] = f.lock[i]
    BY <1>1 DEF Asked, Spares
  <1>4. Clear(f, e, n, j) => Clear(g, d, m, j)
    BY <1>1, <1>2 DEF Clear
  <1>5. Clockwork(g.rts[j]) /\ TimerFits(g, aired, j)
    BY <1>1 DEF Single, TimerFits
  <1>6. /\ g.rts[j].timer # NoTimer \/ g.rts[j].waiting => d # j /\ m # j
        /\ d # j \/ m # j
    BY <1>1, <1>2 DEF Single
  <1>7. /\ \A i \in Asked(g, j) : Clear(g, d, m, j) /\ Ahead(aired, j, g.lock[i].index)
        /\ \A i, h \in Asked(g, j) : i = h
    BY <1>3, <1>4 DEF Single
  <1>8. /\ Ahead(aired, j, g.rts[j].index + 1)
        /\ d = j => Ahead(aired, j, g.rts[j].index)
        /\ m = j => Ahead(aired, j, 1)
    BY <1>1, <1>2 DEF Single
  <1> QED BY <1>5, <1>6, <1>7, <1>8 DEF Single

\* What airs is not of runtime j.
LEMMA SingleAired ==
    ASSUME NEW f, NEW e, NEW n, NEW aired, NEW after, NEW j,
           \A k : Ahead(aired, j, k) => Ahead(after, j, k), Single(f, e, n, aired, j)
    PROVE  Single(f, e, n, after, j)
  BY DEF Single, TimerFits

\* A later position is ahead when an earlier one is.
LEMMA AheadOfLater ==
    ASSUME NEW aired \in Seq([rt : Nat, pos : Nat]), NEW r, NEW k \in Nat, NEW m \in Nat, k <= m,
           Ahead(aired, r, k)
    PROVE  Ahead(aired, r, m)
  <1> SUFFICES ASSUME NEW i \in 1..Len(aired), aired[i].rt = r PROVE aired[i].pos < m
    BY DEF Ahead
  <1>1. aired[i] \in [rt : Nat, pos : Nat]
    BY ElementOfSeq
  <1>2. aired[i].pos \in Nat /\ aired[i].pos < k
    BY <1>1 DEF Ahead
  <1> QED BY <1>2

\* A spare runtime asks for a cue.
LEMMA RequestedSteady ==
    ASSUME NEW f, IsMemory(f), NEW e, NEW n, NEW aired, Steady(f, e, n, aired),
           NEW r \in 1..Len(f.rts), Spare(f, e, n, r), NEW k \in Nat \ {0}, Ahead(aired, r, k)
    PROVE  Steady(Requested(f, r, f.rts[r].gen, k), e, n, aired)
  <1> DEFINE gen == f.rts[r].gen
             g == Requested(f, r, gen, k)
             q == [op |-> "cue", rt |-> r, gen |-> gen, index |-> k,
                   log |-> None, items |-> <<>>]
             L == Append(f.lock, q)
             N == Len(f.lock)
  <1>0. f.rts[r] \in Runtime /\ f.lock \in Seq(Waiting(Len(f.rts)))
    BY MemoryParts
  <1>1. gen \in Nat /\ N \in Nat
    BY <1>0, LenProperties DEF Runtime
  <1>2. q \in Waiting(Len(f.rts))
    BY <1>1, MemoryParts DEF Waiting, Request
  <1>3. Len(L) = N + 1 /\ L[N + 1] = q /\ \A i \in 1..N : L[i] = f.lock[i]
    BY <1>0, <1>2, AppendProperties
  <1>4. g.rts = f.rts /\ g.timers = f.timers /\ g.lock = L
    BY MemoryParts DEF Requested
  <1>5. q.op = "cue" /\ q.rt = r /\ q.gen = gen /\ q.index = k
    OBVIOUS
  <1> HIDE DEF g, q, L
  <1>6. \A i \in 1..Len(L) : i \in 1..N \/ i = N + 1
    BY <1>1, <1>3
  <1>7. Spares(f, g, r)
    BY <1>3, <1>4, <1>5, <1>6 DEF Spares
  <1>8. Asked(g, r) = {N + 1}
    <2>1. \A i \in Asked(g, r) : i = N + 1
      <3> SUFFICES ASSUME NEW i \in Asked(g, r), i # N + 1 PROVE FALSE
        OBVIOUS
      <3>1. i \in 1..N /\ g.lock[i] = f.lock[i]
        BY <1>3, <1>4, <1>6 DEF Asked
      <3>2. i \in Asked(f, r)
        BY <1>4, <3>1 DEF Asked
      <3> QED BY <3>2 DEF Spare
    <2>2. N + 1 \in Asked(g, r)
      BY <1>1, <1>3, <1>4, <1>5 DEF Asked
    <2> QED BY <2>1, <2>2
  <1>9. Single(f, e, n, aired, r)
    BY DEF Steady
  <1>10. Single(g, e, n, aired, r)
    <2>1. Clear(g, e, n, r) /\ Ahead(aired, r, g.lock[N + 1].index)
      BY <1>3, <1>4, <1>5 DEF Spare, Clear
    <2> QED BY <1>4, <1>8, <1>9, <2>1 DEF Single, TimerFits
  <1>11. \A j \in 1..Len(f.rts) : Single(g, e, n, aired, j)
    <2> SUFFICES ASSUME NEW j \in 1..Len(f.rts), j # r PROVE Single(g, e, n, aired, j)
      BY <1>10
    <2>1. Single(f, e, n, aired, j)
      BY DEF Steady
    <2> QED BY <1>7, <2>1, OthersSame DEF Passes
  <1>12. CuesWait(g)
    <2> SUFFICES ASSUME NEW i \in 1..Len(L)
                 PROVE  L[i].op = "cue" /\ L[i].gen <= f.rts[L[i].rt].gen
      BY <1>4 DEF CuesWait
    <2>1. CASE i \in 1..N
      BY <1>3, <2>1 DEF Steady, CuesWait
    <2>2. CASE i = N + 1
      BY <1>1, <1>3, <1>5, <2>2
    <2> QED BY <1>6, <2>1, <2>2
  <1>13. Steady(g, e, n, aired)
    BY <1>4, <1>11, <1>12 DEF Steady, Held
  <1> QED BY <1>13 DEF g

\* A timer that fires is the one its runtime holds.
LEMMA FiredSteady ==
    ASSUME NEW f, IsMemory(f), NEW e, NEW n, NEW aired, Steady(f, e, n, aired), NEW t \in f.timers
    PROVE  LET g == Fired(f, t)
               r == t.rt
           IN  /\ IsMemory(g) /\ Steady(g, e, n, aired) /\ r \in 1..Len(f.rts)
               /\ Rewrites(f, g, r, [f.rts[r] EXCEPT !.timer = NoTimer], f.timers \ {t})
               /\ g.rts[r].timer = NoTimer /\ e # r /\ n # r /\ Asked(g, r) = {}
               /\ g.rts[r].gen = t.gen /\ t.kind \in {"hold", "clip", "hard"}
               /\ t.kind # "hard" => Spare(g, e, n, r)
               /\ t.kind = "hold" => Ahead(aired, r, t.cue)
  <1> DEFINE r  == t.rt
             rt == [f.rts[r] EXCEPT !.timer = NoTimer]
             T  == f.timers \ {t}
             g  == Fired(f, t)
  <1>1. Held(f) /\ f.rts[r].timer = t /\ r \in 1..Len(f.rts) /\ t # NoTimer
    BY TimerOf DEF Steady, Held
  <1>2. f.rts[r] \in Run /\ f.rts[r] \in Runtime /\ f.rts \in Seq(Run)
    BY <1>1, MemoryParts
  <1>3. rt \in Run /\ Eased(f.rts[r], rt) /\ rt.timer = NoTimer /\ rt.waiting = f.rts[r].waiting
    <2>1. rt \in Run
      BY <1>2, NoTimerType, TimerReplaced DEF Alike
    <2> QED BY <1>2, <2>1 DEF Eased, Runtime
  <1>4. g = [f EXCEPT !.timers = T, !.rts = [f.rts EXCEPT ![r] = rt]]
    BY <1>1, <1>2, MemoryParts DEF Fired
  <1>5. IsMemory(g) /\ T \subseteq f.timers /\ f.rts[r].timer \notin T
    BY <1>1, FiredType DEF Becomes
  <1>6. Eases(f, g) /\ Rewrites(f, g, r, rt, T)
    <2> HIDE DEF rt, T, g, r
    <2> QED BY <1>1, <1>3, <1>4, <1>5, RewrittenEases
  <1>7. Steady(g, e, n, aired)
    <2> HIDE DEF g
    <2> QED BY <1>6, SteadyEases
  <1>8. Single(f, e, n, aired, r)
    BY <1>1 DEF Steady
  <1>9. Asked(f, r) = {}
    BY <1>1, <1>8 DEF Single, Clear
  <1>10. g.rts[r] = rt /\ g.lock = f.lock
    <2> HIDE DEF g, rt, T, r
    <2> QED BY <1>1, <1>6 DEF Rewrites
  <1>11. Asked(g, r) = {} /\ g.rts[r].gen = f.rts[r].gen
    <2>1. rt.gen = f.rts[r].gen
      BY <1>2 DEF Runtime
    <2> HIDE DEF g, rt, r
    <2> QED BY <1>9, <1>10, <2>1 DEF Asked
  <1>12. t.gen = f.rts[r].gen /\ t.kind \in {"hold", "clip", "hard"} /\ e # r /\ n # r
         /\ (t.kind = "hold" => Ahead(aired, r, t.cue))
         /\ (t.kind # "hard" => ~f.rts[r].waiting)
    BY <1>1, <1>8 DEF Single, TimerFits
  <1>13. t.kind # "hard" => Spare(g, e, n, r)
    BY <1>3, <1>10, <1>11, <1>12 DEF Spare, Clear
  <1> HIDE DEF g, rt, T, r
  <1>14. /\ IsMemory(g) /\ Steady(g, e, n, aired) /\ r \in 1..Len(f.rts)
         /\ g.rts[r].timer = NoTimer
    BY <1>1, <1>3, <1>5, <1>7, <1>10
  <1> QED BY <1>6, <1>11, <1>12, <1>13, <1>14 DEF g, rt, T, r

\* One runtime differs, the requests do not: it is enough to look at that runtime.
LEMMA OneChanges ==
    ASSUME NEW f, IsMemory(f), NEW e, NEW n, NEW aired, Steady(f, e, n, aired),
           NEW g, NEW r \in 1..Len(f.rts), NEW rt, NEW T, Rewrites(f, g, r, rt, T),
           NEW d, Passes(e, d, r), NEW m, Passes(n, m, r), Single(g, d, m, aired, r),
           f.rts[r].gen \in Nat, rt.gen \in Nat, f.rts[r].gen <= rt.gen,
           \A t \in T : (t \in f.timers /\ t.rt # r) \/ (t.rt = r /\ rt.timer = t)
    PROVE  Steady(g, d, m, aired)
  <1>1. /\ g.timers = T /\ g.lock = f.lock /\ Len(g.rts) = Len(f.rts)
        /\ \A j \in 1..Len(f.rts) : g.rts[j] = IF j = r THEN rt ELSE f.rts[j]
    BY DEF Rewrites
  <1>2. Spares(f, g, r)
    BY <1>1 DEF Spares
  <1>3. \A j \in 1..Len(f.rts) : Single(g, d, m, aired, j)
    <2> SUFFICES ASSUME NEW j \in 1..Len(f.rts), j # r PROVE Single(g, d, m, aired, j)
      OBVIOUS
    <2>1. Single(f, e, n, aired, j)
      BY DEF Steady
    <2> QED BY <1>2, <2>1, OthersSame
  <1>4. Held(g)
    <2> SUFFICES ASSUME NEW t \in T PROVE g.rts[t.rt].timer = t
      BY <1>1 DEF Held
    <2>1. CASE t \in f.timers /\ t.rt # r
      <3>1. f.rts[t.rt].timer = t /\ t.rt \in 1..Len(f.rts)
        BY <2>1, TimerOf DEF Steady, Held
      <3> QED BY <1>1, <2>1, <3>1
    <2>2. CASE t.rt = r /\ rt.timer = t
      BY <1>1, <2>2
    <2> QED BY <2>1, <2>2
  <1>5. CuesWait(g)
    <2> SUFFICES ASSUME NEW i \in 1..Len(f.lock)
                 PROVE  f.lock[i].op = "cue" /\ f.lock[i].gen <= g.rts[f.lock[i].rt].gen
      BY <1>1 DEF CuesWait
    <2>1. f.lock[i].op = "cue" /\ f.lock[i].gen <= f.rts[f.lock[i].rt].gen
      BY DEF Steady, CuesWait
    <2>2. f.lock[i].rt \in 1..Len(f.rts) /\ f.lock[i].gen \in Nat
      BY <2>1, WaitingOnes DEF Request
    <2>3. CASE f.lock[i].rt = r
      BY <1>1, <2>1, <2>2, <2>3
    <2> QED BY <1>1, <2>1, <2>2, <2>3
  <1> QED BY <1>1, <1>3, <1>4, <1>5 DEF Steady

\* g is f with runtime r in a new generation, in which nothing is pending for it.
Renews(f, g, e, n, aired, r) ==
    /\ IsMemory(g) /\ Len(g.rts) = Len(f.rts) /\ g.owner = f.owner
    /\ Steady(g, e, n, aired) /\ Spare(g, e, n, r)
    /\ g.rts[r].gen = f.rts[r].gen + 1 /\ g.rts[r].index = f.rts[r].index
    /\ g.rts[r].items = f.rts[r].items /\ g.rts[r].running = f.rts[r].running
    /\ g.rts[r].sched = f.rts[r].sched

\* A new generation of a runtime whose timer is cleared: what it asked is stale.
LEMMA GenerationSpares ==
    ASSUME NEW f, IsMemory(f), NEW e, NEW n, NEW aired, Steady(f, e, n, aired),
           NEW r \in 1..Len(f.rts), f.rts[r].timer = NoTimer, e # r, n # r, NEW g,
           g = [f EXCEPT !.rts[r].waiting = FALSE, !.rts[r].gen = @ + 1]
    PROVE  Renews(f, g, e, n, aired, r)
  <1> DEFINE gen == f.rts[r].gen + 1
             rt  == [f.rts[r] EXCEPT !.waiting = FALSE, !.gen = gen]
             T   == f.timers
  <1>1. f.rts[r] \in Run /\ f.rts[r] \in Runtime /\ f.rts \in Seq(Run)
    BY MemoryParts
  <1>2. rt \in Run
    <2>1. gen \in Nat
      BY <1>1 DEF Runtime
    <2> HIDE DEF gen
    <2>2. Alike(f.rts[r], rt)
      BY <1>1, <2>1 DEF Alike, Run, Runtime
    <2> QED BY <2>2 DEF Alike
  <1>3. /\ rt.gen = gen /\ ~rt.waiting /\ rt.timer = f.rts[r].timer /\ rt.index = f.rts[r].index
        /\ rt.items = f.rts[r].items /\ rt.sched = f.rts[r].sched /\ rt.loop = f.rts[r].loop
        /\ rt.running = f.rts[r].running
    BY <1>1 DEF Runtime
  <1>4. g = [f EXCEPT !.timers = T, !.rts = [f.rts EXCEPT ![r] = rt]]
    BY <1>1, MemoryParts
  <1>5. IsMemory(g)
    BY NewGeneration
  <1>6. f.rts[r].gen \in Nat /\ gen = f.rts[r].gen + 1
    BY <1>1 DEF Runtime
  <1> HIDE DEF rt, gen
  <1>7. Rewrites(f, g, r, rt, T)
    BY <1>2, <1>4, Rewritten
  <1>8. g.rts[r] = rt /\ g.lock = f.lock /\ g.owner = f.owner /\ Len(g.rts) = Len(f.rts)
    BY <1>7 DEF Rewrites
  <1>9. Asked(g, r) = {}
    <2> SUFFICES ASSUME NEW i \in 1..Len(f.lock), f.lock[i].rt = r, f.lock[i].gen = gen
                 PROVE  FALSE
      BY <1>3, <1>8 DEF Asked
    <2>1. f.lock[i].gen <= f.rts[r].gen
      BY DEF Steady, CuesWait
    <2> QED BY <1>6, <2>1
  <1>10. Spare(g, e, n, r)
    BY <1>3, <1>8, <1>9 DEF Spare, Clear
  <1>11. Single(g, e, n, aired, r)
    <2>1. Single(f, e, n, aired, r)
      BY DEF Steady
    <2> QED BY <1>3, <1>8, <1>9, <2>1 DEF Single, Clockwork, TimerFits
  <1>12. \A t \in T : t \in f.timers /\ t.rt # r
    <2> SUFFICES ASSUME NEW t \in f.timers, t.rt = r PROVE FALSE
      OBVIOUS
    <2> QED BY TimerOf DEF Steady, Held
  <1>13. Steady(g, e, n, aired)
    <2>1. rt.gen \in Nat /\ f.rts[r].gen <= rt.gen
      BY <1>3, <1>6
    <2>2. Passes(e, e, r) /\ Passes(n, n, r)
      BY DEF Passes
    <2> HIDE DEF T
    <2> QED BY <1>6, <1>7, <1>11, <1>12, <2>1, <2>2, OneChanges
  <1> QED BY <1>3, <1>5, <1>6, <1>8, <1>10, <1>13 DEF Renews

\* go and handleSongEnded drop the timer and start a new generation.
LEMMA BumpedSpares ==
    ASSUME NEW f, IsMemory(f), NEW e, NEW n, NEW aired, Steady(f, e, n, aired),
           NEW r \in 1..Len(f.rts), e # r, n # r
    PROVE  /\ IsMemory(Bumped(f, r)) /\ Len(Bumped(f, r).rts) = Len(f.rts)
           /\ Steady(Bumped(f, r), e, n, aired) /\ Spare(Bumped(f, r), e, n, r)
  <1> DEFINE g == Disarmed(f, r)
  <1>1. Eases(f, g) /\ g.rts[r].timer = NoTimer
    BY DisarmedEases DEF Steady
  <1>2. Bumped(f, r) = [g EXCEPT !.rts[r].waiting = FALSE, !.rts[r].gen = @ + 1]
    BY DEF Bumped
  <1> HIDE DEF g
  <1>3. IsMemory(g) /\ Len(g.rts) = Len(f.rts) /\ r \in 1..Len(g.rts)
    BY <1>1 DEF Eases
  <1>4. Steady(g, e, n, aired)
    BY <1>1, SteadyEases
  <1>5. PICK b : b = Bumped(f, r)
    OBVIOUS
  <1>6. b = [g EXCEPT !.rts[r].waiting = FALSE, !.rts[r].gen = @ + 1]
    BY <1>2, <1>5
  <1>7. Renews(g, b, e, n, aired, r)
    BY <1>1, <1>3, <1>4, <1>6, GenerationSpares
  <1> QED BY <1>3, <1>5, <1>7 DEF Renews

\* A spare runtime goes on with the cue that follows, or its block ends.
LEMMA MovedOnSteady ==
    ASSUME NEW f, IsMemory(f), NEW e, NEW n, NEW aired, Steady(f, e, n, aired),
           NEW r \in 1..Len(f.rts), Spare(f, e, n, r)
    PROVE  Steady(MovedOn(f, r), e, n, aired)
  <1>1. CASE Finishes(f, r)
    <2>1. Eases(f, MovedOn(f, r))
      BY <1>1, StopBegunEases DEF MovedOn, Steady
    <2> QED BY <2>1, SteadyEases
  <1>2. CASE ~Finishes(f, r)
    <2> DEFINE k == f.rts[r].index + 1
    <2>1. Single(f, e, n, aired, r) /\ f.rts[r] \in Runtime
      BY MemoryParts DEF Steady
    <2>2. ~(k > Len(f.rts[r].items)) /\ Ahead(aired, r, k) /\ k \in Nat \ {0}
      BY <1>2, <2>1 DEF Single, Clockwork, Finishes, Runtime
    <2>3. MovedOn(f, r) = Requested(f, r, f.rts[r].gen, k)
      BY <1>2, <2>2 DEF MovedOn, NextRequested
    <2> HIDE DEF k
    <2> QED BY <2>2, <2>3, RequestedSteady
  <1> QED BY <1>1, <1>2

\* A runtime for which nothing is pending waits for the end of a song, or arms a timer.
LEMMA ArmsSteady ==
    ASSUME NEW f, IsMemory(f), NEW e, NEW n, NEW aired, Steady(f, e, n, aired),
           NEW r \in 1..Len(f.rts), f.rts[r].timer = NoTimer, e # r, n # r, Asked(f, r) = {},
           NEW rt \in Run, NEW T, NEW g, Rewrites(f, g, r, rt, T),
           rt.gen = f.rts[r].gen, rt.index = f.rts[r].index, rt.items = f.rts[r].items,
           rt.sched = f.rts[r].sched, rt.loop = f.rts[r].loop,
           \/ T = f.timers /\ rt.timer = NoTimer
           \/ T = f.timers \cup {rt.timer} /\ rt.timer.rt = r,
           TimerFits(g, aired, r)
    PROVE  Steady(g, e, n, aired) /\ Asked(g, r) = {}
  <1>1. f.rts[r] \in Runtime
    BY MemoryParts
  <1>2. g.rts[r] = rt /\ g.lock = f.lock
    BY DEF Rewrites
  <1>3. Asked(g, r) = {}
    BY <1>2 DEF Asked
  <1>4. Single(g, e, n, aired, r)
    <2>1. Single(f, e, n, aired, r)
      BY DEF Steady
    <2> QED BY <1>2, <1>3, <2>1 DEF Single, Clockwork
  <1>5. \A t \in T : (t \in f.timers /\ t.rt # r) \/ (t.rt = r /\ rt.timer = t)
    <2> SUFFICES ASSUME NEW t \in f.timers, t.rt = r PROVE FALSE
      OBVIOUS
    <2> QED BY TimerOf DEF Steady, Held
  <1>6. f.rts[r].gen \in Nat /\ f.rts[r].gen <= rt.gen /\ rt.gen \in Nat
    BY <1>1 DEF Runtime
  <1>7. Passes(e, e, r) /\ Passes(n, n, r)
    BY DEF Passes
  <1> QED BY <1>3, <1>4, <1>5, <1>6, <1>7, OneChanges

\* A runtime with no timer arms one.
LEMMA ArmedSteady ==
    ASSUME NEW f, IsMemory(f), NEW e, NEW n, NEW aired, Steady(f, e, n, aired),
           NEW r \in 1..Len(f.rts), f.rts[r].timer = NoTimer, e # r, n # r, Asked(f, r) = {},
           NEW t \in Armable(Len(f.rts)), t.rt = r, t.gen = f.rts[r].gen,
           t.kind \in {"hold", "clip", "hard"}, f.rts[r].waiting => t.kind = "hard",
           t.kind = "hold" => Ahead(aired, r, t.cue)
    PROVE  Steady(Armed(f, r, t), e, n, aired)
  <1> DEFINE rt == [f.rts[r] EXCEPT !.timer = t]
             T  == f.timers \cup {t}
             g  == Armed(f, r, t)
  <1>1. f.rts[r] \in Run /\ f.rts[r] \in Runtime
    BY MemoryParts
  <1>2. rt \in Run
    BY <1>1, TimerReplaced DEF Alike, Armable
  <1>3. /\ rt.gen = f.rts[r].gen /\ rt.index = f.rts[r].index /\ rt.items = f.rts[r].items
        /\ rt.sched = f.rts[r].sched /\ rt.loop = f.rts[r].loop /\ rt.timer = t
        /\ rt.waiting = f.rts[r].waiting
    BY <1>1 DEF Runtime
  <1>4. g = [f EXCEPT !.timers = T, !.rts = [f.rts EXCEPT ![r] = rt]]
    BY DEF Armed
  <1> HIDE DEF rt, g
  <1>5. T = f.timers \cup {rt.timer} /\ rt.timer.rt = r
    BY <1>3
  <1> HIDE DEF T
  <1>6. Rewrites(f, g, r, rt, T)
    BY <1>2, <1>4, Rewritten
  <1>7. TimerFits(g, aired, r)
    BY <1>3, <1>6 DEF Rewrites, TimerFits
  <1>8. Steady(g, e, n, aired)
    BY <1>2, <1>3, <1>5, <1>6, <1>7, ArmsSteady
  <1> QED BY <1>8 DEF g

\* What clearTimer leaves of a runtime that has no timer.
LEMMA DisarmedAgain ==
    ASSUME NEW f, IsMemory(f), NEW e, NEW n, NEW aired, Steady(f, e, n, aired),
           NEW r \in 1..Len(f.rts), Asked(f, r) = {}
    PROVE  LET g == Disarmed(f, r)
           IN  /\ IsMemory(g) /\ Steady(g, e, n, aired) /\ Len(g.rts) = Len(f.rts)
               /\ g.rts[r].timer = NoTimer /\ Asked(g, r) = {} /\ g.rts[r].gen = f.rts[r].gen
               /\ g.rts[r].waiting = f.rts[r].waiting
  <1> DEFINE g  == Disarmed(f, r)
             rt == [f.rts[r] EXCEPT !.timer = NoTimer]
             T  == f.timers \ {f.rts[r].timer}
  <1>1. Eases(f, g) /\ Rewrites(f, g, r, rt, T) /\ g.rts[r].timer = NoTimer
    BY DisarmedEases DEF Steady
  <1>2. f.rts[r] \in Runtime
    BY MemoryParts
  <1>3. rt.gen = f.rts[r].gen /\ rt.waiting = f.rts[r].waiting
    BY <1>2 DEF Runtime
  <1> HIDE DEF g, rt, T
  <1>4. g.rts[r] = rt /\ g.lock = f.lock
    BY <1>1 DEF Rewrites
  <1>5. Asked(g, r) = {}
    BY <1>3, <1>4 DEF Asked
  <1>6. Steady(g, e, n, aired)
    BY <1>1, SteadyEases
  <1>7. IsMemory(g) /\ Len(g.rts) = Len(f.rts)
    BY <1>1 DEF Eases
  <1> QED BY <1>1, <1>3, <1>4, <1>5, <1>6, <1>7 DEF g

\* armNextHardCue
LEMMA HardArmedSteady ==
    ASSUME NEW f, IsMemory(f), NEW e, NEW n, NEW aired, Steady(f, e, n, aired),
           NEW r \in 1..Len(f.rts), e # r, n # r, Asked(f, r) = {}
    PROVE  Steady(HardArmed(f, r), e, n, aired)
  <1> DEFINE rt  == f.rts[r]
             cue == rt.items[FirstFixed(rt)]
             t   == Timer(f, r, "hard", cue.id, DueAt(rt, cue))
             g   == Disarmed(f, r)
  <1>1. /\ IsMemory(g) /\ Steady(g, e, n, aired) /\ Len(g.rts) = Len(f.rts)
        /\ g.rts[r].timer = NoTimer /\ Asked(g, r) = {} /\ g.rts[r].gen = f.rts[r].gen
    BY DisarmedAgain
  <1>2. CASE NextFixed(rt) = {} \/ rt.sched = Unclocked
    BY <1>1, <1>2 DEF HardArmed
  <1>3. CASE ~(NextFixed(rt) = {} \/ rt.sched = Unclocked)
    <2>1. rt \in Runtime
      BY MemoryParts
    <2>2. cue \in Cue /\ Fixed(cue) /\ DueAt(rt, cue) \in Nat /\ cue.id \in Cues
      BY <1>3, <2>1, FirstFixedType, DueAtType DEF Cue
    <2>3. t \in Armable(Len(f.rts))
      BY <2>2, TimerType DEF TimerKinds
    <2>4. HardArmed(f, r) = Armed(g, r, t)
      BY <1>3 DEF HardArmed
    <2>5. t.rt = r /\ t.gen = f.rts[r].gen /\ t.kind = "hard"
      BY DEF Timer
    <2> HIDE DEF t, g, cue, rt
    <2>6. t \in Armable(Len(g.rts)) /\ r \in 1..Len(g.rts)
      BY <1>1, <2>3
    <2> QED BY <1>1, <2>4, <2>5, <2>6, ArmedSteady
  <1> QED BY <1>2, <1>3

\* armTimedClip
LEMMA ClipArmedSteady ==
    ASSUME NEW f, IsMemory(f), NEW e, NEW n, NEW aired, Steady(f, e, n, aired),
           NEW r \in 1..Len(f.rts), Spare(f, e, n, r), f.rts[r].index <= Len(f.rts[r].items)
    PROVE  Steady(ClipArmed(f, r), e, n, aired)
  <1> DEFINE rt  == f.rts[r]
             g   == Disarmed(f, r)
             cue == rt.items[FirstFixed(rt)]
             end == rt.clipAt + rt.items[rt.index].ms
             t   == Timer(f, r, "clip", cue.id, DueAt(rt, cue))
             u   == Timer(f, r, "clip", 0, end)
  <1>0. f.rts[r].timer = NoTimer /\ e # r /\ n # r /\ Asked(f, r) = {} /\ ~f.rts[r].waiting
    BY DEF Spare, Clear
  <1>1. /\ IsMemory(g) /\ Steady(g, e, n, aired) /\ Len(g.rts) = Len(f.rts)
        /\ g.rts[r].timer = NoTimer /\ Asked(g, r) = {} /\ g.rts[r].gen = f.rts[r].gen
        /\ g.rts[r].waiting = f.rts[r].waiting
    BY <1>0, DisarmedAgain
  <1>2. rt \in Runtime /\ rt \in Run
    BY MemoryParts
  <1>3. CASE rt.clipAt = Unset
    BY <1>1, <1>3 DEF ClipArmed
  <1>4. CASE rt.clipAt # Unset
    <2>1. rt.sched # Unclocked /\ rt.items \in Seq(Cue)
      BY <1>2, <1>4 DEF Run, Runtime
    <2>2. rt.index \in 1..Len(rt.items)
      BY <1>2, <2>1, LenProperties DEF Runtime
    <2>3. rt.items[rt.index] \in Cue
      BY <2>1, <2>2, ElementOfSeq
    <2>4. end \in Nat
      BY <1>2, <1>4, <2>3 DEF Runtime, Cue
    <2>5. NextFixed(rt) # {} => cue.id \in Cues /\ DueAt(rt, cue) \in Nat
      BY <1>2, <2>1, FirstFixedType, DueAtType DEF Cue
    <2>6. \/ ClipArmed(f, r) = Armed(g, r, u)
          \/ NextFixed(rt) # {} /\ ClipArmed(f, r) = Armed(g, r, t)
      BY <1>4 DEF ClipArmed
    <2>7. /\ t.rt = r /\ t.gen = f.rts[r].gen /\ t.kind = "clip"
          /\ u.rt = r /\ u.gen = f.rts[r].gen /\ u.kind = "clip"
      BY DEF Timer
    <2>8. u \in Armable(Len(f.rts)) /\ (NextFixed(rt) # {} => t \in Armable(Len(f.rts)))
      <3> HIDE DEF cue, end, rt
      <3> QED BY <2>4, <2>5, TimerType DEF TimerKinds
    <2> HIDE DEF t, u, g, rt, cue, end
    <2>9. r \in 1..Len(g.rts) /\ ~g.rts[r].waiting
      BY <1>0, <1>1
    <2>10. ASSUME NEW v \in Armable(Len(f.rts)), v.rt = r, v.gen = f.rts[r].gen, v.kind = "clip"
           PROVE  Steady(Armed(g, r, v), e, n, aired)
      BY <1>0, <1>1, <2>9, <2>10, ArmedSteady
    <2> QED BY <2>6, <2>7, <2>8, <2>10
  <1> QED BY <1>3, <1>4

\* What follows the execution of a cue of a clocked log.
LEMMA AfterCueSteady ==
    ASSUME NEW f, IsMemory(f), NEW e, NEW n, NEW aired, Steady(f, e, n, aired),
           NEW r \in 1..Len(f.rts), Spare(f, e, n, r), f.rts[r].index <= Len(f.rts[r].items),
           NEW cue, cue.kind \in {"song", "clip", "stop"}, clock \in Nat
    PROVE  Steady(AfterCue(f, r, cue), e, n, aired)
  <1> DEFINE T == f.timers
  <1>0. f.rts[r].timer = NoTimer /\ e # r /\ n # r /\ Asked(f, r) = {} /\ ~f.rts[r].waiting
    BY DEF Spare, Clear
  <1>1. /\ f.rts[r] \in Run /\ f.rts[r] \in Runtime /\ f.rts \in Seq(Run)
        /\ f.rts[r].sched # Unclocked
    BY MemoryParts DEF Steady, Single, Clockwork
  <1>2. CASE cue.kind = "song"
    <2> DEFINE rt == [f.rts[r] EXCEPT !.waiting = TRUE]
               g  == [f EXCEPT !.rts[r].waiting = TRUE]
    <2>1. AfterCue(f, r, cue) = HardArmed(g, r)
      BY <1>1, <1>2 DEF AfterCue
    <2>2. Becomes(f, g)
      BY WaitingType
    <2>3. rt \in Run
      BY <1>1 DEF Run, Runtime
    <2>4. /\ rt.gen = f.rts[r].gen /\ rt.index = f.rts[r].index /\ rt.items = f.rts[r].items
          /\ rt.sched = f.rts[r].sched /\ rt.loop = f.rts[r].loop /\ rt.timer = NoTimer
      BY <1>0, <1>1 DEF Runtime
    <2>5. g = [f EXCEPT !.timers = T, !.rts = [f.rts EXCEPT ![r] = rt]]
      BY <1>1, MemoryParts
    <2> HIDE DEF rt, g
    <2>6. Rewrites(f, g, r, rt, T)
      BY <2>3, <2>5, Rewritten
    <2>7. TimerFits(g, aired, r)
      BY <2>4, <2>6 DEF Rewrites, TimerFits
    <2>8. Steady(g, e, n, aired) /\ Asked(g, r) = {}
      BY <1>0, <2>3, <2>4, <2>6, <2>7, ArmsSteady
    <2>9. IsMemory(g) /\ r \in 1..Len(g.rts)
      BY <2>2 DEF Becomes, SameRuns
    <2> QED BY <1>0, <2>1, <2>8, <2>9, HardArmedSteady
  <1>3. CASE cue.kind = "clip" /\ cue.ms > 0
    <2> DEFINE rt == [f.rts[r] EXCEPT !.clipAt = clock]
               g  == [f EXCEPT !.rts[r].clipAt = clock]
    <2>1. AfterCue(f, r, cue) = ClipArmed(g, r)
      BY <1>1, <1>3 DEF AfterCue
    <2>2. Becomes(f, g)
      BY <1>1, WaitingType
    <2>3. rt \in Run
      BY <1>1 DEF Run, Runtime
    <2>4. /\ rt.gen = f.rts[r].gen /\ rt.index = f.rts[r].index /\ rt.items = f.rts[r].items
          /\ rt.sched = f.rts[r].sched /\ rt.loop = f.rts[r].loop /\ rt.timer = NoTimer
          /\ ~rt.waiting
      BY <1>0, <1>1 DEF Runtime
    <2>5. g = [f EXCEPT !.timers = T, !.rts = [f.rts EXCEPT ![r] = rt]]
      BY <1>1, MemoryParts
    <2> HIDE DEF rt, g
    <2>6. Rewrites(f, g, r, rt, T)
      BY <2>3, <2>5, Rewritten
    <2>7. TimerFits(g, aired, r) /\ g.rts[r] = rt
      BY <2>4, <2>6 DEF Rewrites, TimerFits
    <2>8. Steady(g, e, n, aired) /\ Asked(g, r) = {}
      BY <1>0, <2>3, <2>4, <2>6, <2>7, ArmsSteady
    <2>9. IsMemory(g) /\ r \in 1..Len(g.rts) /\ g.rts[r].index <= Len(g.rts[r].items)
      BY <2>2 DEF Becomes, SameRuns
    <2>10. Spare(g, e, n, r)
      BY <1>0, <2>4, <2>7, <2>8 DEF Spare, Clear
    <2> QED BY <2>1, <2>8, <2>9, <2>10, ClipArmedSteady
  <1>4. \/ cue.kind = "song" \/ (cue.kind = "clip" /\ cue.ms > 0)
        \/ AfterCue(f, r, cue) = MovedOn(f, r) \/ AfterCue(f, r, cue) = f
    BY DEF AfterCue
  <1> QED BY <1>2, <1>3, <1>4, MovedOnSteady

\* A runtime is made and launched.
LEMMA LaunchSteady ==
    ASSUME NEW f, IsMemory(f), NEW e \in 0..Len(f.rts), NEW aired, Steady(f, e, 0, aired),
           NEW g, NEW N, N = Len(f.rts) + 1, Len(g.rts) = N,
           \A r \in 1..Len(f.rts) : g.rts[r] = f.rts[r],
           g.lock = f.lock, g.timers = f.timers,
           g.rts[N].timer = NoTimer, ~g.rts[N].waiting, g.rts[N].index = 1,
           Clockwork(g.rts[N]), aired \in Seq([rt : Nat, pos : Nat])
    PROVE  Steady(g, e, N, aired)
  <1>0. Len(f.rts) \in Nat /\ N \in Nat \ {0} /\ N \notin 1..Len(f.rts) /\ e # N
    BY MemoryParts
  <1>1. \A j \in 1..Len(g.rts) : (j \in 1..Len(f.rts) /\ j # N) \/ j = N
    BY <1>0
  <1>2. ASSUME NEW i \in 1..Len(f.lock)
        PROVE  f.lock[i].op = "cue" /\ f.lock[i].rt \in 1..Len(f.rts) /\ f.lock[i].rt # N
    BY <1>0, WaitingOnes DEF Steady, CuesWait
  <1>3. Spares(f, g, N) /\ Passes(e, e, N) /\ Passes(0, N, N)
    BY DEF Spares, Passes
  <1>4. \A j \in 1..Len(f.rts) : Single(g, e, N, aired, j)
    <2> TAKE j \in 1..Len(f.rts)
    <2>1. Single(f, e, 0, aired, j) /\ j # N
      BY <1>0 DEF Steady
    <2> QED BY <1>3, <2>1, OthersSame
  <1>5. \A k : Ahead(aired, N, k)
    <2> SUFFICES ASSUME NEW i \in 1..Len(aired), aired[i].rt = N PROVE FALSE
      BY DEF Ahead
    <2>1. aired[i].rt <= Len(f.rts) /\ aired[i] \in [rt : Nat, pos : Nat]
      BY ElementOfSeq DEF Steady
    <2> QED BY <1>0, <2>1
  <1>6. Asked(g, N) = {}
    BY <1>2 DEF Asked
  <1>7. Single(g, e, N, aired, N)
    BY <1>0, <1>5, <1>6 DEF Single, TimerFits
  <1>8. Held(g)
    <2> SUFFICES ASSUME NEW t \in f.timers PROVE g.rts[t.rt].timer = t
      BY DEF Held
    <2>1. f.rts[t.rt].timer = t /\ t.rt \in 1..Len(f.rts)
      BY TimerOf DEF Steady, Held
    <2> QED BY <2>1
  <1>9. CuesWait(g)
    <2> SUFFICES ASSUME NEW i \in 1..Len(f.lock)
                 PROVE  f.lock[i].op = "cue" /\ f.lock[i].gen <= g.rts[f.lock[i].rt].gen
      BY DEF CuesWait
    <2> QED BY <1>2 DEF Steady, CuesWait
  <1>10. \A i \in 1..Len(aired) : aired[i].rt <= Len(g.rts)
    <2> TAKE i \in 1..Len(aired)
    <2>1. aired[i].rt <= Len(f.rts) /\ aired[i] \in [rt : Nat, pos : Nat]
      BY ElementOfSeq DEF Steady
    <2> QED BY <1>0, <2>1
  <1>11. \A j \in 1..Len(g.rts) : Single(g, e, N, aired, j)
    BY <1>1, <1>4, <1>7
  <1> QED BY <1>8, <1>9, <1>10, <1>11 DEF Steady

\* The cursor of a spare runtime moves to a cue that is still ahead, which a turn executes.
LEMMA BegunSteady ==
    ASSUME NEW f, IsMemory(f), NEW n, NEW aired \in Seq([rt : Nat, pos : Nat]),
           Steady(f, 0, n, aired), NEW r \in 1..Len(f.rts), Spare(f, 0, n, r),
           NEW i \in Nat \ {0}, Ahead(aired, r, i),
           NEW rt \in Run, NEW T, T = f.timers, NEW g, Rewrites(f, g, r, rt, T),
           rt.gen = f.rts[r].gen, rt.items = f.rts[r].items, rt.sched = f.rts[r].sched,
           rt.loop = f.rts[r].loop, rt.timer = f.rts[r].timer, ~rt.waiting, rt.index = i
    PROVE  Steady(g, r, n, aired)
  <1>1. g.rts[r] = rt /\ g.lock = f.lock
    BY DEF Rewrites
  <1>2. rt.timer = NoTimer /\ n # r /\ Asked(f, r) = {}
    BY DEF Spare, Clear
  <1>3. Asked(g, r) = {}
    BY <1>1, <1>2 DEF Asked
  <1>4. Ahead(aired, r, i + 1)
    BY AheadOfLater
  <1>5. Single(g, r, n, aired, r)
    <2>1. Single(f, 0, n, aired, r)
      BY DEF Steady
    <2> QED BY <1>1, <1>2, <1>3, <1>4, <2>1 DEF Single, Clockwork, TimerFits
  <1>6. f.rts[r].gen \in Nat /\ rt.gen \in Nat /\ f.rts[r].gen <= rt.gen
    <2>1. f.rts[r] \in Runtime
      BY MemoryParts
    <2> QED BY <2>1 DEF Runtime
  <1>7. \A t \in T : (t \in f.timers /\ t.rt # r) \/ (t.rt = r /\ rt.timer = t)
    <2> SUFFICES ASSUME NEW t \in f.timers, t.rt = r PROVE FALSE
      OBVIOUS
    <2> QED BY <1>2, TimerOf DEF Steady, Held
  <1>8. Passes(0, r, r) /\ Passes(n, n, r)
    BY DEF Passes
  <1> QED BY <1>5, <1>6, <1>7, <1>8, OneChanges

\* What went on the air, in the order of the cues.
InOrder(aired) ==
    \A i, j \in 1..Len(aired) : i < j /\ aired[i].rt = aired[j].rt /\ aired[i].rt # 0
                                => aired[i].pos < aired[j].pos

\* Something else of r goes on the air, as far as r had got.
LEMMA AiredInOrder ==
    ASSUME NEW aired \in Seq([rt : Nat, pos : Nat]), InOrder(aired), NEW r \in Nat, NEW k \in Nat,
           NEW after, after = Append(aired, [rt |-> r, pos |-> k])
    PROVE  /\ r = 0 \/ Ahead(aired, r, k) => InOrder(after)
           /\ \A j : j # r => \A p : Ahead(aired, j, p) => Ahead(after, j, p)
           /\ \A p \in Nat : k < p /\ Ahead(aired, r, p) => Ahead(after, r, p)
           /\ \A p \in Nat : (\A i \in 1..Len(aired) : aired[i].rt <= p) /\ r <= p
                              => \A i \in 1..Len(after) : after[i].rt <= p
           /\ after \in Seq([rt : Nat, pos : Nat])
  <1> DEFINE q == [rt |-> r, pos |-> k]
             N == Len(aired)
  <1>1. q \in [rt : Nat, pos : Nat] /\ N \in Nat /\ q.rt = r /\ q.pos = k
    BY LenProperties
  <1>2. /\ after \in Seq([rt : Nat, pos : Nat]) /\ Len(after) = N + 1
        /\ after[N + 1] = q /\ \A i \in 1..N : after[i] = aired[i]
    BY <1>1, AppendProperties
  <1> HIDE DEF q
  <1>3. \A i \in 1..Len(after) : i \in 1..N \/ i = N + 1
    BY <1>1, <1>2
  <1>4. r = 0 \/ Ahead(aired, r, k) => InOrder(after)
    <2> SUFFICES ASSUME r = 0 \/ Ahead(aired, r, k),
                        NEW i \in 1..Len(after), NEW j \in 1..Len(after), i < j,
                        after[i].rt = after[j].rt, after[i].rt # 0
                 PROVE  after[i].pos < after[j].pos
      BY DEF InOrder
    <2>1. i \in 1..N
      BY <1>1, <1>2
    <2>2. CASE j \in 1..N
      BY <1>2, <2>1, <2>2 DEF InOrder
    <2>3. CASE j = N + 1
      BY <1>1, <1>2, <2>1, <2>3 DEF Ahead
    <2> QED BY <1>3, <2>2, <2>3
  <1>5. \A j : j # r => \A p : Ahead(aired, j, p) => Ahead(after, j, p)
    BY <1>1, <1>2, <1>3 DEF Ahead
  <1>6. \A p \in Nat : k < p /\ Ahead(aired, r, p) => Ahead(after, r, p)
    BY <1>1, <1>2, <1>3 DEF Ahead
  <1>7. \A p \in Nat : (\A i \in 1..Len(aired) : aired[i].rt <= p) /\ r <= p
                        => \A i \in 1..Len(after) : after[i].rt <= p
    BY <1>1, <1>2, <1>3
  <1> QED BY <1>2, <1>4, <1>5, <1>6, <1>7

\* The rotation airs something.
LEMMA RotationSteady ==
    ASSUME NEW f, IsMemory(f), NEW e, NEW n, NEW aired \in Seq([rt : Nat, pos : Nat]),
           InOrder(aired), Steady(f, e, n, aired), NEW k \in Nat, NEW after,
           after = Append(aired, [rt |-> 0, pos |-> k])
    PROVE  Steady(f, e, n, after) /\ InOrder(after)
  <1> DEFINE r == 0
  <1>1. r \in Nat /\ after = Append(aired, [rt |-> r, pos |-> k]) /\ Len(f.rts) \in Nat
    BY MemoryParts
  <1>2. r = 0 /\ \A j \in 1..Len(f.rts) : j # r
    OBVIOUS
  <1> HIDE DEF r
  <1>3. /\ InOrder(after)
        /\ \A j : j # r => \A p : Ahead(aired, j, p) => Ahead(after, j, p)
        /\ \A p \in Nat : (\A i \in 1..Len(aired) : aired[i].rt <= p) /\ r <= p
                              => \A i \in 1..Len(after) : after[i].rt <= p
    BY <1>1, <1>2, AiredInOrder
  <1>4. \A j \in 1..Len(f.rts) : Single(f, e, n, after, j)
    <2> TAKE j \in 1..Len(f.rts)
    <2>1. Single(f, e, n, aired, j) /\ \A p : Ahead(aired, j, p) => Ahead(after, j, p)
      BY <1>2, <1>3 DEF Steady
    <2> QED BY <2>1, SingleAired
  <1>5. \A i \in 1..Len(after) : after[i].rt <= Len(f.rts)
    <2>1. r <= Len(f.rts)
      BY <1>1, <1>2
    <2> QED BY <1>1, <1>3, <2>1 DEF Steady
  <1> QED BY <1>3, <1>4, <1>5 DEF Steady

\* The cue of r was executed: nothing is pending for it.
LEMMA ExecutedSpares ==
    ASSUME NEW f, IsMemory(f), NEW r \in 1..Len(f.rts), NEW n, NEW aired, Steady(f, r, n, aired)
    PROVE  Steady(f, 0, n, aired) /\ Spare(f, 0, n, r) /\ Ahead(aired, r, f.rts[r].index)
  <1>1. Eases(f, f)
    BY EasesReflexive DEF Steady
  <1>2. Steady(f, 0, n, aired)
    BY <1>1, SteadyEases
  <1>3. Single(f, r, n, aired, r)
    BY DEF Steady
  <1>4. Spare(f, 0, n, r)
    BY <1>3 DEF Single, Spare, Clear
  <1> QED BY <1>2, <1>3, <1>4 DEF Single

\* The song of the cue in execution goes on the air.
LEMMA SongSteady ==
    ASSUME NEW f, IsMemory(f), NEW r \in 1..Len(f.rts), NEW n,
           NEW aired \in Seq([rt : Nat, pos : Nat]), InOrder(aired), Steady(f, r, n, aired),
           NEW after, after = Append(aired, [rt |-> r, pos |-> f.rts[r].index])
    PROVE  Steady(f, 0, n, after) /\ InOrder(after) /\ Spare(f, 0, n, r)
  <1> DEFINE k == f.rts[r].index
  <1>1. Len(f.rts) \in Nat /\ r \in Nat /\ k \in Nat
    <2>1. f.rts[r] \in Runtime /\ Len(f.rts) \in Nat
      BY MemoryParts
    <2> QED BY <2>1 DEF Runtime
  <1>2. Steady(f, 0, n, aired) /\ Spare(f, 0, n, r) /\ Ahead(aired, r, k)
    BY ExecutedSpares
  <1>3. after = Append(aired, [rt |-> r, pos |-> k])
    OBVIOUS
  <1>4. k = f.rts[r].index
    OBVIOUS
  <1> HIDE DEF k
  <1>5. /\ InOrder(after)
        /\ \A j : j # r => \A p : Ahead(aired, j, p) => Ahead(after, j, p)
        /\ \A p \in Nat : k < p /\ Ahead(aired, r, p) => Ahead(after, r, p)
        /\ \A p \in Nat : (\A i \in 1..Len(aired) : aired[i].rt <= p) /\ r <= p
                              => \A i \in 1..Len(after) : after[i].rt <= p
    BY <1>1, <1>2, <1>3, AiredInOrder
  <1>6. ASSUME NEW j \in 1..Len(f.rts), j # r PROVE Single(f, 0, n, after, j)
    <2>1. Single(f, 0, n, aired, j) /\ \A p : Ahead(aired, j, p) => Ahead(after, j, p)
      BY <1>2, <1>5, <1>6 DEF Steady
    <2> QED BY <2>1, SingleAired
  <1>7. Single(f, 0, n, after, r)
    <2>1. Single(f, 0, n, aired, r)
      BY <1>2 DEF Steady
    <2>2. Ahead(aired, r, k + 1) /\ r # 0 /\ n # r
      BY <1>2, <1>4, <2>1 DEF Single, Spare, Clear
    <2>3. Ahead(after, r, k + 1)
      BY <1>1, <1>5, <2>2
    <2> QED BY <1>2, <1>4, <2>1, <2>2, <2>3 DEF Single, Spare, Clear, TimerFits
  <1>8. \A i \in 1..Len(after) : after[i].rt <= Len(f.rts)
    BY <1>1, <1>5 DEF Steady
  <1> QED BY <1>2, <1>5, <1>6, <1>7, <1>8 DEF Steady

\* Where a call can be while no operator asks for anything.  Ends of blocks, cues and
\* the scheduler's starts are all there is, and the scheduler starts clocked logs only.
Ending == {"idle", "prepare", "prepared", "resume", "end"}
Activating == {"activate", "activating", "point"}
Pointed == {"unmark", "start"}
Scheduled == {"idle", "claim", "persist", "announce", "end"}
             \cup Activating \cup Pointed \cup Launching

InLine(c, k, L, p) ==
    /\ c # "scheduler" => /\ k.due = {}
                          /\ Stage(k) \in Ending \/ (c = "turn" /\ Stage(k) \in OfCue)
    /\ c = "scheduler" => Stage(k) \in Scheduled
    /\ Stage(k) \in OfCue => k.items[1].kind \in {"song", "clip", "stop"}
    /\ Stage(k) \in Activating => L[k.log].sched # Unclocked
    /\ Stage(k) \in Pointed => p # None /\ L[p].sched # Unclocked
    /\ Stage(k) \in Launching => k.snap.sched # Unclocked /\ ~k.snap.loop
    /\ Stage(k) = "launch" => ClockItems(k.snap.items)

NoLoops(L) == \A l \in Logs : L[l].sched # Unclocked => ~L[l].loop

OrderInv ==
    /\ Steady(flight, Executed, Announced, radio.aired)
    /\ InOrder(radio.aired)
    /\ \A c \in Callers : InLine(c, calls[c], logs, pointer)
    /\ NoLoops(logs)

\* The labels that InLine tells apart are different ones.
LEMMA LinesApart ==
    /\ Launching = {"starting", "launch"} /\ OfCue = {"cue", "after"}
    /\ Cutting = {"mark", "cut", "cutting", "cutDone"}
    /\ Ending = {"idle", "prepare", "prepared", "resume", "end"}
    /\ Activating = {"activate", "activating", "point"} /\ Pointed = {"unmark", "start"}
    /\ Scheduled = {"idle", "claim", "persist", "announce", "end", "activate", "activating",
                    "point", "unmark", "start", "starting", "launch"}
  BY DEF Launching, OfCue, Cutting, Ending, Activating, Pointed, Scheduled

\* A call stays in line when rows keep their start.
LEMMA LineStays ==
    ASSUME NEW c, NEW k, NEW L, NEW M, NEW p \in Logs \cup {None},
           \A l \in Logs : M[l].sched = L[l].sched,
           Stage(k) \in OfLog => k.log \in Logs, InLine(c, k, L, p)
    PROVE  InLine(c, k, M, p)
  <1>1. Activating \subseteq OfLog
    BY DEF Activating, OfLog
  <1> QED BY <1>1 DEF InLine

\* A call that has nothing of a log, a cue or a launch about it.
Plain == {"idle", "claim", "end", "prepare", "prepared", "resume"}
LEMMA PlainInLine ==
    ASSUME NEW c, NEW k, NEW L, NEW p, Stage(k) \in Plain,
           c # "scheduler" => k.due = {} /\ Stage(k) \in Ending,
           c = "scheduler" => Stage(k) \in Scheduled
    PROVE  InLine(c, k, L, p) /\ LaunchedBy(k) = 0
  <1>1. Stage(k) \notin Activating \cup Pointed \cup Launching \cup OfCue
    BY LinesApart DEF Plain
  <1>2. Stage(k) # "launch" /\ Stage(k) \notin {"persist", "announce"}
    BY DEF Plain
  <1> QED BY <1>1, <1>2 DEF InLine, LaunchedBy

\* A call that returns is in line, and so is one that reports an error.
LEMMA ReturnedInLine ==
    ASSUME NEW n \in Nat, NEW k \in Call(n), NEW c, NEW L, NEW p, InLine(c, k, L, p)
    PROVE  InLine(c, Returned(k), L, p) /\ LaunchedBy(Returned(k)) = 0
  <1>1. /\ Returned(k).due = k.due /\ Stage(Returned(k)) \in {"idle", "claim"}
        /\ k.due = {} => Stage(Returned(k)) = "idle"
    <2>1. k.due = {} => Stage(Returned(k)) = "idle"
      BY DEF Returned, ClaimNext, Idle, Stage
    <2> QED BY <2>1, ReturnedType
  <1>2. c # "scheduler" => k.due = {}
    BY DEF InLine
  <1> QED BY <1>1, <1>2, PlainInLine, LinesApart DEF Plain

LEMMA FailedInLine ==
    ASSUME NEW n \in Nat, NEW k \in Call(n), NEW f, f.owner \in 0..n,
           pointer \in Logs \cup {None}, NEW c, NEW L, NEW p, InLine(c, k, L, p)
    PROVE  InLine(c, Failed(k, f), L, p) /\ LaunchedBy(Failed(k, f)) = 0
  <1>1. CASE ~Recovers(k)
    BY <1>1, ReturnedInLine DEF Failed
  <1>2. CASE Recovers(k)
    <2>1. Failed(k, f) = Stopping([k EXCEPT !.on = "end"], f, FALSE, "end")
      BY <1>2 DEF Failed
    <2>2. Failed(k, f).due = k.due
      BY FailedType
    <2>3. k \in CallRecord(n) /\ "end" \in Aims /\ "mark" \in Labels
      BY DEF Call, Aims, Labels, OfLog, OfRuntime
    <2>4. Failed(k, f).at = "mark" /\ Failed(k, f).then = "end"
      BY <2>1, <2>3 DEF Stopping, CallRecord
    <2> DEFINE s == Failed(k, f)
    <2> HIDE DEF s
    <2>5. s.at = "mark" /\ s.then = "end" /\ s.due = k.due
      BY <2>2, <2>4 DEF s
    <2>6. Stage(s) = "end"
      BY <2>5 DEF Stage
    <2>7. c # "scheduler" => k.due = {}
      BY DEF InLine
    <2>8. InLine(c, s, L, p) /\ LaunchedBy(s) = 0
      BY <2>5, <2>6, <2>7, PlainInLine, LinesApart DEF Plain
    <2> QED BY <2>8 DEF s
  <1> QED BY <1>1, <1>2

\* The call of finishBlock.
LEMMA FinishingInLine ==
    ASSUME NEW n \in Nat, NEW f, f.owner \in 0..n, NEW r, pointer \in Logs \cup {None},
           radio \in Radio, NEW c, c # "scheduler", NEW L, NEW p
    PROVE  InLine(c, Finishing(Idle, f, r), L, p) /\ LaunchedBy(Finishing(Idle, f, r)) = 0
  <1>1. /\ Finishing(Idle, f, r).due = {}
        /\ Stage(Finishing(Idle, f, r)) \in {"end", "prepare", "resume"}
    BY FinishingType
  <1> QED BY <1>1, PlainInLine, LinesApart DEF Plain

\* The same stage of the same thing.
LEMMA SameInLine ==
    ASSUME NEW c, NEW k, NEW j, NEW L, NEW p, InLine(c, k, L, p), Stage(j) = Stage(k),
           j.due = k.due, j.items = k.items, j.log = k.log, j.snap = k.snap, j.rt = k.rt
    PROVE  InLine(c, j, L, p) /\ LaunchedBy(j) = LaunchedBy(k)
  BY DEF InLine, LaunchedBy

\* One step further in a stop, or to what follows it.
LEMMA StopInLine ==
    ASSUME NEW n \in Nat, NEW k \in Call(n), k.at \in Cutting, NEW c, NEW L, NEW p,
           InLine(c, k, L, p), NEW j,
           \/ \E at \in Cutting : j = [k EXCEPT !.at = at]
           \/ j = Onward(k, k.then)
    PROVE  InLine(c, j, L, p) /\ LaunchedBy(j) \in {0, LaunchedBy(k)}
  <1>1. k \in CallRecord(n) /\ Stage(k) = k.then
    BY DEF Call, Stage, Cutting
  <1>2. ASSUME NEW at \in Labels, j = [k EXCEPT !.at = at], at \in Cutting \/ at = k.then
        PROVE  InLine(c, j, L, p) /\ LaunchedBy(j) \in {0, LaunchedBy(k)}
    <2>1. /\ j.at = at /\ j.then = k.then /\ j.due = k.due /\ j.items = k.items
          /\ j.log = k.log /\ j.snap = k.snap /\ j.rt = k.rt
      BY <1>1, <1>2 DEF CallRecord
    <2>2. Stage(j) = k.then
      BY <1>2, <2>1 DEF Stage, Cutting
    <2> QED BY <1>1, <2>1, <2>2, SameInLine
  <1>3. CASE j = Returned(k)
    BY <1>3, ReturnedInLine
  <1>4. Cutting \subseteq Labels /\ k.then \in Labels
    BY <1>1 DEF Cutting, Labels, CallRecord, Aims
  <1> QED BY <1>2, <1>3, <1>4 DEF Onward

\* A call that stops the program for the sake of something.
LEMMA StoppingInLine ==
    ASSUME NEW n \in Nat, NEW k \in CallRecord(n), NEW f, NEW c, NEW L, NEW p, NEW then,
           c # "scheduler" => k.due = {} /\ then \in Ending, then \notin OfCue,
           c = "scheduler" => then \in Scheduled, then \notin {"persist", "announce"},
           then \in Activating => L[k.log].sched # Unclocked,
           then \in Pointed => p # None /\ L[p].sched # Unclocked,
           then \in Launching => k.snap.sched # Unclocked /\ ~k.snap.loop,
           then = "launch" => ClockItems(k.snap.items), NEW keep
    PROVE  /\ InLine(c, Stopping(k, f, keep, then), L, p)
           /\ LaunchedBy(Stopping(k, f, keep, then)) = 0
  <1> DEFINE s == Stopping(k, f, keep, then)
  <1>1. /\ s.at = "mark" /\ s.then = then /\ s.due = k.due /\ s.log = k.log /\ s.snap = k.snap
    BY DEF Stopping, CallRecord
  <1> HIDE DEF s
  <1>2. Stage(s) = then
    BY <1>1 DEF Stage
  <1>3. InLine(c, s, L, p) /\ LaunchedBy(s) = 0
    BY <1>1, <1>2 DEF InLine, LaunchedBy
  <1> QED BY <1>3 DEF s

\* What goes on the air, if anything, is of the rotation.
Airs(x, y) == \/ y.aired = x.aired
              \/ \E k \in Nat : y.aired = Append(x.aired, [rt |-> 0, pos |-> k])

LEMMA RadioAirs ==
    ASSUME NEW x \in Radio
    PROVE  /\ Airs(x, x) /\ Airs(x, RotationStarts(x)) /\ \A n : Airs(x, Continues(x, n))
           /\ RowStopped(x).aired = x.aired /\ MemStopped(x).aired = x.aired
           /\ Silenced(x).aired = x.aired /\ Rebooted(x).aired = x.aired
           /\ x.aired \in Seq([rt : Nat, pos : Nat])
  <1>1. \A y \in Radio : Airs(y, RotationStarts(y))
    <2> SUFFICES ASSUME NEW y \in Radio PROVE Airs(y, RotationStarts(y))
      OBVIOUS
    <2>1. y.mem.cursor \in Nat
      BY DEF Radio, Sequencing
    <2>2. Silenced(y) \in Radio
      BY SilencedType
    <2>3. Takes(y, 0, y.mem.cursor).aired = Append(y.aired, [rt |-> 0, pos |-> y.mem.cursor])
      <3> DEFINE s == Append(y.aired, [rt |-> 0, pos |-> y.mem.cursor])
                 n == Len(y.aired) + 1
      <3>1. Silenced(y).aired = y.aired
        BY SilencedType
      <3>2. Takes(y, 0, y.mem.cursor) = [Silenced(y) EXCEPT !.aired = s, !.onAir = n, !.active = n]
        BY <3>1 DEF Takes
      <3> HIDE DEF s, n
      <3>3. Takes(y, 0, y.mem.cursor).aired = s
        BY <2>2, <3>2 DEF Radio
      <3> QED BY <3>3 DEF s
    <2> QED BY <2>1, <2>3 DEF RotationStarts, Airs
  <1>2. ASSUME NEW n PROVE Airs(x, Continues(x, n))
    <2> DEFINE c == IF x.mem.auto /\ IsRotation(x, n) THEN x.mem.cursor + 1 ELSE x.mem.cursor
               m == [x.mem EXCEPT !.cursor = c]
               y == [x EXCEPT !.active = 0, !.mem = m]
    <2>1. x.mem \in Sequencing /\ x.mem.cursor \in Nat
      BY DEF Radio, Sequencing
    <2>2. c \in Nat
      BY <2>1
    <2>3. Continues(x, n) = RotationStarts(y)
      BY <2>1 DEF Continues, Radio
    <2> HIDE DEF c
    <2>4. m \in Sequencing
      BY <2>1, <2>2 DEF Sequencing
    <2> HIDE DEF m
    <2>5. y \in Radio /\ y.aired = x.aired
      BY <2>4 DEF Radio
    <2> HIDE DEF y
    <2>6. Airs(y, RotationStarts(y))
      BY <1>1, <2>5
    <2> QED BY <2>3, <2>5, <2>6 DEF Airs
  <1>3. RowStopped(x).aired = x.aired /\ MemStopped(x).aired = x.aired
    BY DEF RowStopped, MemStopped, Radio
  <1>4. Silenced(x).aired = x.aired /\ Rebooted(x).aired = x.aired
    BY SilencedType DEF Rebooted, Radio
  <1> QED BY <1>1, <1>2, <1>3, <1>4 DEF Airs, Radio

\* What the calls are in line with: the lines, and what a step adds to them.
Lines == (\A c \in Callers : InLine(c, calls[c], logs, pointer)) /\ NoLoops(logs)

LEMMA LinesKept ==
    ASSUME TypeInv, TypeInv', OrderInv, RowsKeep, UNCHANGED pointer,
           \A c \in Callers : calls'[c] = calls[c] \/ InLine(c, calls'[c], logs, pointer)
    PROVE  Lines'
  <1>1. \A l \in Logs : logs'[l].sched = logs[l].sched /\ logs'[l].loop = logs[l].loop
    BY DEF RowsKeep, RowKeeps
  <1>2. ASSUME NEW c \in Callers PROVE InLine(c, calls'[c], logs', pointer')
    <2> DEFINE k == calls'[c]
    <2>1. InLine(c, k, logs, pointer)
      BY DEF OrderInv
    <2>2. k \in Call(Len(flight'.rts))
      BY DEF TypeInv
    <2>3. Stage(k) \in OfLog => k.log \in Logs
      BY <2>2 DEF Call
    <2> HIDE DEF k
    <2>4. InLine(c, k, logs', pointer)
      BY <1>1, <2>1, <2>3, Typed, LineStays
    <2> QED BY <2>4 DEF k
  <1>3. NoLoops(logs')
    BY <1>1 DEF OrderInv, NoLoops
  <1> QED BY <1>2, <1>3 DEF Lines

LEMMA GoesOn ==
    ASSUME TypeInv, TypeInv', OrderInv, RowsKeep, CallsFollow, UNCHANGED pointer,
           NEW c \in Callers, NEW k, Go(c, k), InLine(c, k, logs, pointer),
           LaunchedBy(k) \in {0, LaunchedBy(calls[c])}
    PROVE  Lines' /\ Executed' \in {0, Executed} /\ Announced' \in {0, Announced}
  <1>1. calls'[c] = k /\ \A d \in Callers \ {c} : calls'[d] = calls[d]
    BY Typed DEF Go
  <1>2. Lines'
    BY <1>1, LinesKept
  <1>3. "scheduler" \in Callers /\ "turn" \in Callers
    BY DEF Callers
  <1>4. Announced' \in {0, Announced}
    BY <1>1, <1>3 DEF Announced
  <1>5. Executed' \in {0, Executed}
    BY <1>3 DEF CallsFollow, Follows, Executed, ExecutedBy
  <1> QED BY <1>2, <1>4, <1>5

\* A step that eases the memory and may start the rotation.
LEMMA EasingStep ==
    ASSUME TypeInv, OrderInv, Eases(flight, flight'), Airs(radio, radio'),
           Executed' \in {0, Executed}, Announced' \in {0, Announced}, Lines'
    PROVE  OrderInv'
  <1> DEFINE e == Executed
             n == Announced
             d == Executed'
             m == Announced'
             g == flight'
             aired == radio.aired
             after == radio'.aired
  <1>1. IsMemory(flight) /\ IsMemory(g) /\ Steady(flight, e, n, aired) /\ InOrder(aired)
        /\ aired \in Seq([rt : Nat, pos : Nat])
    BY Typed, RadioAirs DEF OrderInv, Eases
  <1>2. Steady(g, d, m, aired)
    <2> HIDE DEF e, n, d, m, g, aired
    <2>1. d \in {0, e} /\ m \in {0, n} /\ Eases(flight, g)
      BY DEF e, n, d, m, g
    <2> QED BY <1>1, <2>1, SteadyEases
  <1>3. Steady(g, d, m, after) /\ InOrder(after)
    <2>1. CASE after = aired
      BY <1>1, <1>2, <2>1
    <2>2. ASSUME NEW k \in Nat, after = Append(aired, [rt |-> 0, pos |-> k])
          PROVE  Steady(g, d, m, after) /\ InOrder(after)
      <3>1. after = Append(aired, [rt |-> 0, pos |-> k])
        BY <2>2
      <3> HIDE DEF e, n, d, m, g, aired, after
      <3> QED BY <1>1, <1>2, <3>1, RotationSteady
    <2> QED BY <2>1, <2>2 DEF Airs
  <1> QED BY <1>3 DEF OrderInv, Lines

\* What a step can rely on.
LEMMA OrderFacts ==
    ASSUME TypeInv, OrderInv
    PROVE  /\ IsMemory(flight) /\ Held(flight) /\ CuesWait(flight) /\ Eases(flight, flight)
           /\ radio \in Radio /\ Airs(radio, radio)
           /\ \A c \in Callers : InLine(c, calls[c], logs, pointer)
           /\ "turn" \in Callers /\ "scheduler" \in Callers /\ "song" \in Callers
           /\ "advance" \in Callers
  <1>1. IsMemory(flight) /\ Held(flight) /\ CuesWait(flight)
    BY Typed DEF OrderInv, Steady
  <1> QED BY <1>1, EasesReflexive, Typed, RadioAirs DEF OrderInv, Callers

\* A call goes on, and the memory eases.
LEMMA CallStep ==
    ASSUME TypeInv, TypeInv', OrderInv, RowsKeep, CallsFollow, UNCHANGED pointer,
           NEW c \in Callers, NEW k, Go(c, k), InLine(c, k, logs, pointer),
           LaunchedBy(k) \in {0, LaunchedBy(calls[c])},
           Eases(flight, flight'), Airs(radio, radio')
    PROVE  OrderInv'
  BY GoesOn, EasingStep

\* No call goes on, and the memory eases.
LEMMA QuietStep ==
    ASSUME TypeInv, TypeInv', OrderInv, RowsKeep, UNCHANGED <<pointer, calls>>,
           Eases(flight, flight'), Airs(radio, radio')
    PROVE  OrderInv'
  <1>1. Lines'
    BY LinesKept
  <1>2. Executed' = Executed /\ Announced' = Announced
    BY DEF Executed, Announced
  <1> QED BY <1>1, <1>2, EasingStep

\* A stop goes on.
LEMMA StopsKeepOrder ==
    ASSUME TypeInv, TypeInv', OrderInv, NEW c \in Callers, Stops(c)
    PROVE  OrderInv'
  <1>1. Ordinary
    BY StopMarksStep, StopCutsStep, StopForwardsStep, StopEndsStep DEF Stops
  <1>2. RowsKeep /\ CallsFollow /\ UNCHANGED pointer
    BY <1>1 DEF Ordinary, Stops, StopMarks, StopCuts, StopForwards, StopEnds
  <1>3. calls[c].at \in Cutting
    BY DEF Stops, StopMarks, StopCuts, StopForwards, StopEnds, Cutting
  <1>4. PICK k : /\ Go(c, k)
                 /\ \/ \E at \in Cutting : k = [calls[c] EXCEPT !.at = at]
                    \/ k = Onward(calls[c], calls[c].then)
    <2>1. \/ \E at \in Cutting : Go(c, [calls[c] EXCEPT !.at = at])
          \/ Go(c, Onward(calls[c], calls[c].then))
      BY DEF Stops, StopMarks, StopCuts, StopForwards, StopEnds, Cutting
    <2> QED BY <2>1
  <1>5. InLine(c, k, logs, pointer) /\ LaunchedBy(k) \in {0, LaunchedBy(calls[c])}
    BY <1>3, <1>4, Typed, OrderFacts, StopInLine
  <1>6. Eases(flight, flight')
    <2>1. CASE UNCHANGED flight
      BY <2>1, OrderFacts
    <2>2. CASE StopEnds(c)
      <3>1. calls[c].held \in 0..Len(flight.rts)
        BY Typed DEF CallRecord
      <3> QED BY <2>2, <3>1, OrderFacts, ReleasedEases DEF StopEnds
    <2> QED BY <2>1, <2>2 DEF Stops, StopMarks, StopCuts, StopForwards
  <1>7. Airs(radio, radio')
    <2>1. radio' \in {radio, RowStopped(radio), Silenced(radio), Silenced(MemStopped(radio)),
                      [radio EXCEPT !.active = 0]}
      BY DEF Stops, StopMarks, StopCuts, StopForwards, StopEnds
    <2>2. MemStopped(radio) \in Radio /\ radio \in Radio
      BY OrderFacts, RadioType
    <2>3. [radio EXCEPT !.active = 0].aired = radio.aired
      BY <2>2 DEF Radio
    <2>4. Silenced(MemStopped(radio)).aired = radio.aired
      BY <2>2, RadioAirs
    <2> QED BY <2>1, <2>2, <2>3, <2>4, RadioAirs DEF Airs
  <1> QED BY <1>2, <1>4, <1>5, <1>6, <1>7, CallStep

\* An error ends what a call does, or has it stop the program.
LEMMA FailingStep ==
    ASSUME TypeInv, TypeInv', OrderInv, RowsKeep, CallsFollow, UNCHANGED pointer,
           NEW c \in Callers, NEW f, Eases(flight, f), f.owner \in 0..Len(flight.rts),
           Go(c, Failed(calls[c], f)), flight' = StopBegun(f) \/ flight' = f,
           Airs(radio, radio')
    PROVE  OrderInv'
  <1>1. InLine(c, Failed(calls[c], f), logs, pointer) /\ LaunchedBy(Failed(calls[c], f)) = 0
    BY Typed, OrderFacts, FailedInLine
  <1>2. Eases(flight, flight')
    <2>1. IsMemory(f) /\ Held(f) /\ IsMemory(flight)
      BY OrderFacts DEF Eases
    <2>2. Eases(f, StopBegun(f))
      BY <2>1, StopBegunEases
    <2> QED BY <2>1, <2>2, EasesTransitive
  <1> QED BY <1>1, <1>2, CallStep

LEMMA FailsKeepOrder ==
    ASSUME TypeInv, TypeInv', OrderInv, RowsKeep, CallsFollow, UNCHANGED <<pointer, radio>>,
           NEW c \in Callers, Fails(c)
    PROVE  OrderInv'
  <1>1. /\ flight' = StopBegun(flight) \/ flight' = flight
        /\ Go(c, Failed(calls[c], flight))
    BY DEF Fails
  <1>2. Airs(radio, radio')
    BY OrderFacts
  <1> QED BY <1>1, <1>2, OrderFacts, Typed, FailingStep

LEMMA StopFailsKeepOrder ==
    ASSUME TypeInv, TypeInv', OrderInv, NEW c \in Callers, StopFails(c)
    PROVE  OrderInv'
  <1> DEFINE f == Released(flight, calls[c].held)
  <1>1. RowsKeep /\ CallsFollow /\ UNCHANGED pointer
    BY StopFailsStep DEF Ordinary, StopFails
  <1>2. calls[c].held \in 0..Len(flight.rts) /\ calls[c].at \in Cutting
    BY Typed DEF CallRecord, StopFails, Cutting
  <1>3. Eases(flight, f)
    BY <1>2, OrderFacts, ReleasedEases
  <1>4. f.owner \in 0..Len(flight.rts)
    <2> HIDE DEF f
    <2> QED BY <1>3, MemoryParts DEF Eases
  <1>5. Airs(radio, radio')
    BY OrderFacts, RadioAirs DEF StopFails, Airs
  <1>6. \/ /\ flight' = StopBegun(f) \/ flight' = f
           /\ Go(c, Failed(calls[c], f))
        \/ flight' = f /\ Go(c, Onward(calls[c], calls[c].then))
    BY DEF StopFails
  <1>7. /\ InLine(c, Onward(calls[c], calls[c].then), logs, pointer)
        /\ LaunchedBy(Onward(calls[c], calls[c].then)) \in {0, LaunchedBy(calls[c])}
    <2> DEFINE o == Onward(calls[c], calls[c].then)
    <2>1. o = Onward(calls[c], calls[c].then)
      OBVIOUS
    <2> HIDE DEF o
    <2> QED BY <1>2, <2>1, Typed, OrderFacts, StopInLine
  <1> HIDE DEF f
  <1>8. CASE flight' = f /\ Go(c, Onward(calls[c], calls[c].then))
    BY <1>1, <1>3, <1>5, <1>7, <1>8, CallStep
  <1>9. CASE /\ flight' = StopBegun(f) \/ flight' = f
             /\ Go(c, Failed(calls[c], f))
    BY <1>1, <1>3, <1>4, <1>5, <1>9, FailingStep
  <1> QED BY <1>6, <1>8, <1>9

\* finishBlock of a clocked log.
LEMMA CompletesKeepOrder ==
    ASSUME TypeInv, TypeInv', OrderInv, NEW c \in Callers, Completes(c) \/ PrepareFails(c)
    PROVE  OrderInv'
  <1>0. /\ calls[c] \in Call(Len(flight.rts)) /\ calls[c] \in CallRecord(Len(flight.rts))
        /\ Len(flight.rts) \in Nat /\ InLine(c, calls[c], logs, pointer)
    BY Typed, OrderFacts
  <1>1. RowsKeep /\ CallsFollow /\ UNCHANGED pointer
    BY PreparesStep, PreparedStep, ResumesStep, PrepareFailsStep
       DEF Ordinary, Completes, Prepares, Prepared, Resumes, PrepareFails
  <1>2. calls[c].at \in {"prepare", "prepared", "resume"} /\ Stage(calls[c]) = calls[c].at
    BY DEF Completes, Prepares, Prepared, Resumes, PrepareFails, Stage
  <1>3. c # "scheduler" /\ calls[c].due = {}
    BY <1>0, <1>2, LinesApart DEF InLine
  <1>4. CASE Prepares(c)
    <2> DEFINE k == [calls[c] EXCEPT !.at = "prepared"]
    <2>1. Go(c, k) /\ UNCHANGED flight
      BY <1>4 DEF Prepares
    <2>2. k.at = "prepared" /\ k.due = {}
      BY <1>0, <1>3 DEF CallRecord
    <2>3. Airs(radio, radio')
      BY <1>4, Typed DEF Prepares, Airs, Radio
    <2> HIDE DEF k
    <2>4. Stage(k) = "prepared"
      BY <2>2 DEF Stage
    <2>5. InLine(c, k, logs, pointer) /\ LaunchedBy(k) = 0
      BY <1>3, <2>2, <2>4, PlainInLine, LinesApart DEF Plain
    <2> QED BY <1>1, <2>1, <2>3, <2>5, OrderFacts, CallStep
  <1>5. CASE Prepared(c)
    <2> DEFINE keep == TRUE
               k == Stopping(calls[c], flight, keep, "resume")
    <2>1. Go(c, k) /\ flight' = StopBegun(flight)
      BY <1>5 DEF Prepared
    <2>2. Airs(radio, radio')
      BY <1>5, Typed DEF Prepared, Airs, Radio
    <2>3. "resume" \notin OfCue \cup {"persist", "announce"} \cup Activating \cup Pointed
                          \cup Launching /\ "resume" # "launch" /\ "resume" \in Ending
      BY LinesApart
    <2> HIDE DEF keep
    <2>4. InLine(c, k, logs, pointer) /\ LaunchedBy(k) = 0
      BY <1>0, <1>3, <2>3, StoppingInLine
    <2> HIDE DEF k
    <2> QED BY <1>1, <2>1, <2>2, <2>4, OrderFacts, StopBegunEases, CallStep
  <1>6. CASE Resumes(c)
    <2>1. Go(c, Returned(calls[c])) /\ UNCHANGED flight
      BY <1>6 DEF Resumes
    <2>2. Airs(radio, radio')
      BY <1>6, OrderFacts, RadioAirs DEF Resumes, Resumed
    <2>3. InLine(c, Returned(calls[c]), logs, pointer) /\ LaunchedBy(Returned(calls[c])) = 0
      BY <1>0, ReturnedInLine
    <2> QED BY <1>1, <2>1, <2>2, <2>3, OrderFacts, CallStep
  <1>7. CASE PrepareFails(c)
    BY <1>1, <1>7, FailsKeepOrder DEF PrepareFails
  <1> QED BY <1>4, <1>5, <1>6, <1>7 DEF Completes

\* Only the scheduler activates and starts.
LEMMA SchedulerOnly ==
    ASSUME TypeInv, OrderInv, NEW c \in Callers,
           calls[c].at \notin Cutting \cup Ending \cup OfCue
    PROVE  /\ c = "scheduler" /\ Stage(calls[c]) = calls[c].at /\ calls[c].at \in Scheduled
           /\ InLine(c, calls[c], logs, pointer) /\ Len(flight.rts) \in Nat
           /\ calls[c] \in Call(Len(flight.rts)) /\ calls[c] \in CallRecord(Len(flight.rts))
  <1>1. Stage(calls[c]) = calls[c].at
    BY DEF Stage, Cutting
  <1>2. InLine(c, calls[c], logs, pointer)
    BY OrderFacts
  <1> QED BY <1>1, <1>2, Typed DEF InLine

\* A call that is not in a stop goes on to another part of itself.
LEMMA MovedTo ==
    ASSUME NEW n, NEW k \in CallRecord(n), NEW at, at \notin Cutting, NEW j,
           j = [k EXCEPT !.at = at]
    PROVE  /\ Stage(j) = at /\ j.due = k.due /\ j.items = k.items /\ j.log = k.log
           /\ j.snap = k.snap /\ j.rt = k.rt
  <1>1. /\ j.at = at /\ j.due = k.due /\ j.items = k.items /\ j.log = k.log
        /\ j.snap = k.snap /\ j.rt = k.rt
    BY DEF CallRecord
  <1> QED BY <1>1 DEF Stage, Cutting

LEMMA StartReadsKeepsOrder ==
    ASSUME TypeInv, TypeInv', OrderInv, NEW c \in Callers, StartReads(c)
    PROVE  OrderInv'
  <1>1. RowsKeep /\ CallsFollow /\ UNCHANGED <<pointer, radio>>
    BY StartReadsStep DEF Ordinary, StartReads
  <1>2. CASE Fails(c)
    BY <1>1, <1>2, FailsKeepOrder
  <1>3. CASE ~Fails(c)
    <2> DEFINE k == [calls[c] EXCEPT !.at = "starting", !.log = pointer, !.snap = logs[pointer]]
    <2>1. Go(c, k) /\ UNCHANGED flight /\ calls[c].at = "start"
      BY <1>3 DEF StartReads
    <2>2. /\ c = "scheduler" /\ Stage(calls[c]) = "start" /\ InLine(c, calls[c], logs, pointer)
          /\ calls[c] \in CallRecord(Len(flight.rts))
      BY <2>1, SchedulerOnly, LinesApart
    <2>3. pointer # None /\ logs[pointer].sched # Unclocked /\ pointer \in Logs
      BY <2>2, Typed DEF InLine, Pointed
    <2>4. ~logs[pointer].loop
      BY <2>3 DEF OrderInv, NoLoops
    <2>5. k.at = "starting" /\ k.snap = logs[pointer]
      BY <2>2 DEF CallRecord
    <2> HIDE DEF k
    <2>6. Stage(k) = "starting"
      BY <2>5 DEF Stage
    <2>7. InLine(c, k, logs, pointer) /\ LaunchedBy(k) = 0
      BY <2>2, <2>3, <2>4, <2>5, <2>6, LinesApart DEF InLine, LaunchedBy
    <2> QED BY <1>1, <2>1, <2>7, OrderFacts, CallStep
  <1> QED BY <1>2, <1>3

\* A runtime is made and launched.
LEMMA LaunchKeepsOrder ==
    ASSUME TypeInv, TypeInv', OrderInv, NEW c \in Callers, Launch(c), calls[c].at \in Launching,
           ClockItems(calls[c].snap.items),
           UNCHANGED <<pointer, radio, playable, clock, claimed, left>>
    PROVE  OrderInv'
  <1> DEFINE n    == Len(flight.rts)
             N    == n + 1
             call == calls[c]
             row  == call.snap
             rt   == [log |-> call.log, items |-> row.items, loop |-> row.loop,
                      sched |-> row.sched, index |-> FirstIndex, running |-> TRUE, gen |-> 0,
                      timer |-> NoTimer, waiting |-> FALSE, clipAt |-> Unset]
             s    == Append(flight.rts, rt)
             at   == IF row.sched # Unclocked /\ ~row.started THEN "persist" ELSE "announce"
             k    == [call EXCEPT !.at = at, !.rt = N]
  <1>1. Launched(c)
    BY LaunchStep
  <1>2. /\ c = "scheduler" /\ Stage(call) = call.at /\ InLine(c, call, logs, pointer)
        /\ call \in CallRecord(n) /\ n \in Nat
    BY SchedulerOnly, LinesApart
  <1>3. row.sched # Unclocked /\ ~row.loop
    BY <1>2 DEF InLine
  <1>4. flight.rts \in Seq(Run)
    BY Typed, MemoryParts
  <1>5. /\ flight' = [flight EXCEPT !.rts = s, !.owner = N]
        /\ Go(c, k)
    BY DEF Launch
  <1>6. /\ rt.timer = NoTimer /\ ~rt.waiting /\ rt.index = 1 /\ Clockwork(rt)
    BY <1>3 DEF Clockwork, FirstIndex
  <1>7. Len(flight'.rts) = N /\ flight'.rts[N] = rt
    <2> HIDE DEF rt
    <2>1. Len(s) = n + 1 /\ s[n + 1] = rt
      <3>1. flight.rts \in Seq(Run \cup {rt})
        BY <1>4, SeqMonotonic
      <3>2. rt \in Run \cup {rt}
        OBVIOUS
      <3> QED BY <3>1, <3>2, AppendProperties
    <2>2. flight'.rts = s
      <3> HIDE DEF s, N
      <3> QED BY <1>5, Typed, MemoryParts
    <2> QED BY <2>1, <2>2
  <1>8. flight'.lock = flight.lock /\ flight'.timers = flight.timers
    <2> HIDE DEF s, N
    <2> QED BY <1>5, Typed, MemoryParts
  <1>9. calls'[c] = k /\ \A d \in Callers \ {c} : calls'[d] = calls[d]
    BY <1>5, Typed DEF Go
  <1>10. k.at = at /\ k.rt = N /\ k.due = call.due
    <2> HIDE DEF at, N
    <2> QED BY <1>2 DEF CallRecord
  <1>11. at \in {"persist", "announce"}
    OBVIOUS
  <1> HIDE DEF rt, s, at
  <1>12. Stage(k) = at
    <2> HIDE DEF k
    <2> QED BY <1>10, <1>11 DEF Stage
  <1> HIDE DEF k
  <1>13. InLine(c, k, logs, pointer)
    BY <1>2, <1>10, <1>11, <1>12, LinesApart DEF InLine
  <1>14. Lines'
    <2>1. RowsKeep
      BY <1>1 DEF Launched
    <2> QED BY <1>9, <1>13, <2>1, LinesKept
  <1>15. Executed' = Executed /\ Announced' = N /\ Announced = 0
    <2>1. "turn" \in Callers /\ "scheduler" \in Callers /\ "turn" # "scheduler"
      BY DEF Callers
    <2>2. Stage(call) \notin {"persist", "announce"}
      BY <1>2 DEF Launching
    <2>3. LaunchedBy(k) = N
      BY <1>10, <1>11, <1>12 DEF LaunchedBy
    <2>4. Announced' = LaunchedBy(calls'["scheduler"]) /\ Executed' = ExecutedBy(calls'["turn"])
      BY DEF Announced, Executed
    <2> QED BY <1>2, <1>9, <2>1, <2>2, <2>3, <2>4 DEF Announced, LaunchedBy, Executed
  <1>16. Executed \in 0..n
    <2>1. calls["turn"] \in CallRecord(n)
      BY Typed, OrderFacts
    <2> QED BY <1>2, <2>1 DEF Executed, ExecutedBy, CallRecord
  <1>17. \A r \in 1..n : flight'.rts[r] = flight.rts[r]
    BY <1>1 DEF Launched
  <1>18. Steady(flight', Executed, N, radio.aired)
    <2> DEFINE g == flight'
               e == Executed
    <2>1. /\ e \in 0..Len(flight.rts) /\ Len(g.rts) = N
          /\ \A r \in 1..Len(flight.rts) : g.rts[r] = flight.rts[r]
          /\ g.lock = flight.lock /\ g.timers = flight.timers
          /\ g.rts[N].timer = NoTimer /\ ~g.rts[N].waiting /\ g.rts[N].index = 1
          /\ Clockwork(g.rts[N])
      BY <1>6, <1>7, <1>8, <1>16, <1>17
    <2>2. IsMemory(flight) /\ Steady(flight, e, 0, radio.aired)
      BY <1>15, OrderFacts DEF OrderInv
    <2>3. radio.aired \in Seq([rt : Nat, pos : Nat]) /\ N = Len(flight.rts) + 1
      BY OrderFacts, RadioAirs
    <2> HIDE DEF g, e, N
    <2>4. Steady(g, e, N, radio.aired)
      BY <2>1, <2>2, <2>3, LaunchSteady
    <2> QED BY <2>4 DEF g, e
  <1> QED BY <1>14, <1>15, <1>18 DEF OrderInv, Lines

\* start
LEMMA StartChecksKeepsOrder ==
    ASSUME TypeInv, TypeInv', OrderInv, NEW c \in Callers, StartChecks(c)
    PROVE  OrderInv'
  <1> DEFINE clocked == calls[c].snap.sched # Unclocked
             k == Stopping(calls[c], flight, clocked, "launch")
  <1>1. /\ c = "scheduler" /\ Stage(calls[c]) = "starting" /\ InLine(c, calls[c], logs, pointer)
        /\ calls[c] \in CallRecord(Len(flight.rts)) /\ Len(flight.rts) \in Nat
        /\ calls[c].at = "starting"
    <2>1. calls[c].at = "starting"
      BY DEF StartChecks
    <2> QED BY <2>1, SchedulerOnly, LinesApart
  <1>2. clocked /\ ~calls[c].snap.loop /\ "starting" \in Launching
    BY <1>1, LinesApart DEF InLine
  <1>3. UNCHANGED <<pointer, radio, playable, clock, claimed, left>>
    BY DEF StartChecks
  <1>4. CASE Fails(c) /\ UNCHANGED logs
    <2>1. CallsFollow
      BY <1>4, FailsStep
    <2> QED BY <1>3, <1>4, <2>1, RowsStay, FailsKeepOrder
  <1>5. CASE /\ ClockItems(calls[c].snap.items)
             /\ flight' = StopBegun(flight) /\ Go(c, k) /\ UNCHANGED logs
    <2>1. CallsFollow
      <3>1. CASE Ordinary
        BY <3>1 DEF Ordinary
      <3>2. CASE Launched(c)
        <4>1. Len(flight'.rts) = Len(flight.rts)
          BY <1>5, OrderFacts, StopBegunEases DEF Eases
        <4> QED BY <1>1, <3>2, <4>1 DEF Launched
      <3> QED BY <3>1, <3>2, StartChecksStep
    <2>2. "launch" \in Launching /\ "launch" \in Scheduled
          /\ "launch" \notin OfCue \cup Activating \cup Pointed \cup {"persist", "announce"}
      BY LinesApart
    <2> HIDE DEF clocked
    <2>3. InLine(c, k, logs, pointer) /\ LaunchedBy(k) = 0
      BY <1>1, <1>2, <1>5, <2>2, StoppingInLine DEF clocked
    <2> HIDE DEF k
    <2> QED BY <1>3, <1>5, <2>1, <2>3, RowsStay, OrderFacts, StopBegunEases, CallStep
  <1>6. CASE ClockItems(calls[c].snap.items) /\ Launch(c)
    BY <1>1, <1>2, <1>3, <1>6, LaunchKeepsOrder
  <1> QED BY <1>2, <1>4, <1>5, <1>6 DEF StartChecks, Ready

LEMMA StartLaunchesKeepsOrder ==
    ASSUME TypeInv, TypeInv', OrderInv, NEW c \in Callers, StartLaunches(c)
    PROVE  OrderInv'
  <1>1. calls[c].at = "launch" /\ Launch(c) /\ UNCHANGED <<pointer, radio, playable, clock, claimed, left>>
    BY DEF StartLaunches
  <1>2. Stage(calls[c]) = "launch" /\ InLine(c, calls[c], logs, pointer)
    BY <1>1, SchedulerOnly, LinesApart
  <1>3. ClockItems(calls[c].snap.items) /\ calls[c].at \in Launching
    BY <1>1, <1>2, LinesApart DEF InLine
  <1> QED BY <1>1, <1>3, LaunchKeepsOrder

LEMMA StartPersistsKeepsOrder ==
    ASSUME TypeInv, TypeInv', OrderInv, NEW c \in Callers, StartPersists(c)
    PROVE  OrderInv'
  <1> DEFINE at == "announce"
             k == [calls[c] EXCEPT !.at = at]
  <1>1. RowsKeep /\ CallsFollow /\ UNCHANGED <<pointer, flight, radio>>
    BY StartPersistsStep DEF Ordinary, StartPersists
  <1>2. calls[c].at = "persist" /\ Go(c, k)
    BY DEF StartPersists
  <1>3. /\ c = "scheduler" /\ Stage(calls[c]) = "persist" /\ InLine(c, calls[c], logs, pointer)
        /\ calls[c] \in CallRecord(Len(flight.rts))
    BY <1>2, SchedulerOnly, LinesApart
  <1>4. at \notin Cutting
    BY LinesApart
  <1>5. Stage(k) = at /\ k.rt = calls[c].rt
    <2> HIDE DEF at, k
    <2>1. k = [calls[c] EXCEPT !.at = at]
      BY DEF k
    <2> QED BY <1>3, <1>4, <2>1, MovedTo
  <1> HIDE DEF k
  <1>6. InLine(c, k, logs, pointer) /\ LaunchedBy(k) \in {0, LaunchedBy(calls[c])}
    BY <1>3, <1>5, LinesApart DEF InLine, LaunchedBy
  <1> QED BY <1>1, <1>2, <1>6, OrderFacts, CallStep

\* The first cue is asked for.
LEMMA AnnouncedSpares ==
    ASSUME NEW f, IsMemory(f), NEW r \in 1..Len(f.rts), NEW e, NEW aired, Steady(f, e, r, aired)
    PROVE  Steady(f, e, 0, aired) /\ Spare(f, e, 0, r) /\ Ahead(aired, r, 1)
  <1>1. Single(f, e, r, aired, r) /\ r # 0
    BY DEF Steady
  <1>2. f.rts[r].timer = NoTimer /\ ~f.rts[r].waiting /\ e # r /\ Ahead(aired, r, 1)
    BY <1>1 DEF Single
  <1>3. Asked(f, r) = {}
    BY <1>1 DEF Single, Clear
  <1>4. Steady(f, e, 0, aired)
    <2>1. Held(f)
      BY DEF Steady
    <2>2. Eases(f, f)
      BY <2>1, EasesReflexive
    <2>3. e \in {0, e} /\ 0 \in {0, r}
      OBVIOUS
    <2> QED BY <2>2, <2>3, SteadyEases
  <1> QED BY <1>1, <1>2, <1>3, <1>4 DEF Spare, Clear

LEMMA StartAnnouncesKeepsOrder ==
    ASSUME TypeInv, TypeInv', OrderInv, NEW c \in Callers, StartAnnounces(c)
    PROVE  OrderInv'
  <1> DEFINE r == calls[c].rt
             e == Executed
             aired == radio.aired
             g == Requested(flight, r, flight.rts[r].gen, 1)
  <1>1. RowsKeep /\ CallsFollow /\ UNCHANGED <<pointer, radio>>
    BY StartAnnouncesStep DEF Ordinary, StartAnnounces
  <1>2. calls[c].at = "announce" /\ Go(c, Returned(calls[c])) /\ flight' = g
    BY DEF StartAnnounces
  <1>3. /\ c = "scheduler" /\ Stage(calls[c]) = "announce" /\ InLine(c, calls[c], logs, pointer)
        /\ calls[c] \in Call(Len(flight.rts)) /\ Len(flight.rts) \in Nat
    BY <1>2, SchedulerOnly, LinesApart
  <1>4. Announced = r /\ r \in 1..Len(flight.rts)
    <2>1. "announce" \in OfRuntime
      BY DEF OfRuntime
    <2> QED BY <1>2, <1>3, <2>1, StageType DEF Announced, LaunchedBy
  <1>5. IsMemory(flight) /\ Steady(flight, e, r, aired)
    BY <1>4, OrderFacts DEF OrderInv
  <1>6. Steady(g, e, 0, aired)
    <2> DEFINE f == flight
               one == 1
    <2>1. g = Requested(f, r, f.rts[r].gen, one) /\ r \in 1..Len(f.rts) /\ one \in Nat \ {0}
          /\ IsMemory(f) /\ Steady(f, e, r, aired)
      BY <1>4, <1>5
    <2> HIDE DEF e, aired, r, g, f
    <2>2. Steady(f, e, 0, aired) /\ Spare(f, e, 0, r) /\ Ahead(aired, r, one)
      BY <2>1, AnnouncedSpares
    <2> HIDE DEF one
    <2> QED BY <2>1, <2>2, RequestedSteady
  <1>7. InLine(c, Returned(calls[c]), logs, pointer) /\ LaunchedBy(Returned(calls[c])) = 0
    BY <1>3, ReturnedInLine
  <1>8. Lines' /\ Executed' = e /\ Announced' = 0
    <2>1. calls'[c] = Returned(calls[c]) /\ \A d \in Callers \ {c} : calls'[d] = calls[d]
      BY <1>2, Typed DEF Go
    <2>2. Lines'
      BY <1>1, <1>7, <2>1, LinesKept
    <2>3. "turn" \in Callers \ {c}
      BY <1>3 DEF Callers
    <2> QED BY <1>3, <1>7, <2>1, <2>2, <2>3 DEF Announced, Executed
  <1> HIDE DEF g, e, aired
  <1>9. aired = radio'.aired
    BY <1>1 DEF aired
  <1> QED BY <1>2, <1>6, <1>8, <1>9 DEF OrderInv, Lines, aired

LEMMA ActivateReadsKeepsOrder ==
    ASSUME TypeInv, TypeInv', OrderInv, NEW c \in Callers, ActivateReads(c)
    PROVE  OrderInv'
  <1>1. RowsKeep /\ CallsFollow /\ UNCHANGED <<pointer, radio>>
    BY ActivateReadsStep DEF Ordinary, ActivateReads
  <1>2. CASE Fails(c)
    BY <1>1, <1>2, FailsKeepOrder
  <1>3. CASE ~Fails(c)
    <2> DEFINE row == logs[calls[c].log]
               k == [calls[c] EXCEPT !.at = "activating", !.snap = row]
    <2>1. Go(c, k) /\ UNCHANGED flight /\ calls[c].at = "activate"
      BY <1>3 DEF ActivateReads
    <2>2. /\ c = "scheduler" /\ Stage(calls[c]) = "activate" /\ InLine(c, calls[c], logs, pointer)
          /\ calls[c] \in CallRecord(Len(flight.rts))
      BY <2>1, SchedulerOnly, LinesApart
    <2> HIDE DEF row
    <2>3. k.at = "activating" /\ k.log = calls[c].log
      BY <2>2 DEF CallRecord
    <2> HIDE DEF k
    <2>4. Stage(k) = "activating"
      BY <2>3 DEF Stage
    <2>5. InLine(c, k, logs, pointer) /\ LaunchedBy(k) = 0
      BY <2>2, <2>3, <2>4, LinesApart DEF InLine, LaunchedBy
    <2> QED BY <1>1, <2>1, <2>5, OrderFacts, CallStep
  <1> QED BY <1>2, <1>3

LEMMA PointKeepsOrder ==
    ASSUME TypeInv, TypeInv', OrderInv, NEW c \in Callers, Point(c), CallsFollow,
           calls[c].at \in Activating, UNCHANGED <<logs, radio>>
    PROVE  OrderInv'
  <1> DEFINE at == "unmark"
             k == [calls[c] EXCEPT !.at = at]
  <1>1. Go(c, k) /\ flight' = Unmapped(flight) /\ pointer' = calls[c].log
    BY DEF Point
  <1>2. /\ c = "scheduler" /\ Stage(calls[c]) \in Activating /\ InLine(c, calls[c], logs, pointer)
        /\ calls[c] \in CallRecord(Len(flight.rts)) /\ calls[c] \in Call(Len(flight.rts))
    BY SchedulerOnly, LinesApart
  <1>3. pointer' \in Logs /\ logs[pointer'].sched # Unclocked
    <2>1. Activating \subseteq OfLog
      BY DEF Activating, OfLog
    <2> QED BY <1>1, <1>2, <2>1 DEF Call, InLine
  <1>4. Stage(k) = at
    <2>1. at \notin Cutting
      BY LinesApart
    <2> HIDE DEF at, k
    <2>2. k = [calls[c] EXCEPT !.at = at]
      BY DEF k
    <2> QED BY <1>2, <2>1, <2>2, MovedTo
  <1>5. calls'[c] = k /\ \A d \in Callers \ {c} : calls'[d] = calls[d]
    BY <1>1, Typed DEF Go
  <1> HIDE DEF k
  <1>6. Lines'
    <2>1. InLine(c, k, logs, pointer')
      BY <1>2, <1>3, <1>4, LinesApart, FlightAssumption DEF InLine
    <2>2. ASSUME NEW d \in Callers \ {c} PROVE InLine(d, calls[d], logs, pointer')
      <3>1. InLine(d, calls[d], logs, pointer) /\ d # "scheduler"
        BY <1>2, OrderFacts
      <3>2. Stage(calls[d]) \notin Pointed
        BY <3>1, LinesApart DEF InLine
      <3> QED BY <3>1, <3>2 DEF InLine
    <2> QED BY <1>5, <2>1, <2>2 DEF Lines, OrderInv
  <1>7. Executed' = Executed /\ Announced' = 0
    <2>1. "turn" \in Callers \ {c}
      BY <1>2 DEF Callers
    <2> QED BY <1>2, <1>4, <1>5, <2>1 DEF Executed, Announced, LaunchedBy
  <1>8. Eases(flight, flight')
    <2>1. 0 \in 0..Len(flight.rts)
      BY Typed
    <2> QED BY <1>1, <2>1, OrderFacts, ReleasedEases
  <1> QED BY <1>6, <1>7, <1>8, OrderFacts, EasingStep

LEMMA ActivateChecksKeepsOrder ==
    ASSUME TypeInv, TypeInv', OrderInv, NEW c \in Callers,
           ActivateChecks(c) \/ ActivatePoints(c)
    PROVE  OrderInv'
  <1> DEFINE clocked == calls[c].snap.sched # Unclocked
             then == "point"
             k == Stopping(calls[c], flight, clocked, then)
  <1>1. /\ CallsFollow /\ UNCHANGED <<logs, radio>>
        /\ calls[c].at \in {"activating", "point"}
    BY ActivateChecksStep, ActivatePointsStep DEF Ordinary, ActivateChecks, ActivatePoints
  <1>2. /\ c = "scheduler" /\ Stage(calls[c]) = calls[c].at /\ InLine(c, calls[c], logs, pointer)
        /\ calls[c] \in CallRecord(Len(flight.rts)) /\ Len(flight.rts) \in Nat
    BY <1>1, SchedulerOnly, LinesApart
  <1>3. RowsKeep
    BY <1>1, RowsStay
  <1>4. CASE Fails(c) /\ UNCHANGED pointer
    BY <1>1, <1>3, <1>4, FailsKeepOrder
  <1>5. CASE /\ flight' = StopBegun(flight) /\ Go(c, k) /\ UNCHANGED pointer
    <2>1. /\ then \in Activating /\ then \in Scheduled /\ then # "launch"
          /\ then \notin OfCue \cup Launching \cup Pointed \cup {"persist", "announce"}
          /\ logs[calls[c].log].sched # Unclocked
      BY <1>1, <1>2, LinesApart DEF InLine
    <2> HIDE DEF clocked, then
    <2>2. InLine(c, k, logs, pointer) /\ LaunchedBy(k) = 0
      BY <1>2, <2>1, StoppingInLine
    <2> HIDE DEF k
    <2> QED BY <1>1, <1>3, <1>5, <2>2, OrderFacts, StopBegunEases, CallStep
  <1>6. CASE Point(c)
    BY <1>1, <1>6, LinesApart, PointKeepsOrder
  <1> QED BY <1>4, <1>5, <1>6 DEF ActivateChecks, ActivatePoints

LEMMA ActivateUnmarksKeepsOrder ==
    ASSUME TypeInv, TypeInv', OrderInv, NEW c \in Callers, ActivateUnmarks(c)
    PROVE  OrderInv'
  <1> DEFINE at == "start"
             k == [calls[c] EXCEPT !.at = at]
  <1>1. RowsKeep /\ CallsFollow /\ UNCHANGED <<pointer, flight, radio>> /\ calls[c].at = "unmark"
    BY ActivateUnmarksStep DEF Ordinary, ActivateUnmarks
  <1>2. /\ c = "scheduler" /\ Stage(calls[c]) = "unmark" /\ InLine(c, calls[c], logs, pointer)
        /\ calls[c] \in CallRecord(Len(flight.rts))
    BY <1>1, SchedulerOnly, LinesApart
  <1>3. Go(c, k)
    BY <1>2 DEF ActivateUnmarks
  <1>4. Stage(k) = at
    <2>1. at \notin Cutting
      BY LinesApart
    <2> HIDE DEF at, k
    <2>2. k = [calls[c] EXCEPT !.at = at]
      BY DEF k
    <2> QED BY <1>2, <2>1, <2>2, MovedTo
  <1> HIDE DEF k
  <1>5. InLine(c, k, logs, pointer) /\ LaunchedBy(k) = 0
    BY <1>2, <1>4, LinesApart DEF InLine, LaunchedBy
  <1> QED BY <1>1, <1>3, <1>5, OrderFacts, CallStep

\* No operator's call is on its way.
LEMMA NoneManages ==
    ASSUME TypeInv, OrderInv, NEW c \in Callers
    PROVE  ~(DeactivateEnds(c) \/ ResetRewinds(c) \/ DeleteUnlists(c) \/ DeleteUnpoints(c)
             \/ PublishWrites(c))
  <1> SUFFICES ASSUME calls[c].at \in {"unpoint", "rewind", "forget", "unlist", "unpointDeleted",
                                       "publishing"}
               PROVE  FALSE
    BY DEF DeactivateEnds, ResetRewinds, DeleteUnlists, DeleteUnpoints, PublishWrites
  <1> QED BY SchedulerOnly, LinesApart

\* What goes on of itself keeps the order.
LEMMA ProceedsKeepsOrder ==
    ASSUME TypeInv, TypeInv', OrderInv, NEW c \in Callers, Proceeds(c)
    PROVE  OrderInv'
  <1>1. CASE Stops(c)
    BY <1>1, StopsKeepOrder
  <1>2. CASE Completes(c)
    BY <1>2, CompletesKeepOrder
  <1>3. CASE Starts(c)
    BY <1>3, StartReadsKeepsOrder, StartChecksKeepsOrder, StartLaunchesKeepsOrder,
       StartPersistsKeepsOrder, StartAnnouncesKeepsOrder DEF Starts
  <1>4. CASE Manages(c)
    BY <1>4, NoneManages, ActivateReadsKeepsOrder, ActivateChecksKeepsOrder,
       ActivateUnmarksKeepsOrder DEF Manages
  <1> QED BY <1>1, <1>2, <1>3, <1>4 DEF Proceeds

\* startDuePublishedLogs
LEMMA SchedulesKeepsOrder ==
    ASSUME TypeInv, TypeInv', ClaimInv, OrderInv, Schedules
    PROVE  OrderInv'
  <1> DEFINE c == "scheduler"
  <1>0. /\ c \in Callers /\ calls[c] \in Call(Len(flight.rts)) /\ Len(flight.rts) \in Nat
        /\ calls[c].due \in SUBSET Logs
    BY OrderFacts, Typed DEF CallRecord
  <1>1. CASE Poll
    <2> DEFINE k == ClaimNext(DueNow)
    <2>1. RowsKeep /\ CallsFollow /\ UNCHANGED <<pointer, flight, radio>> /\ Go(c, k)
      BY <1>1, PollStep DEF Ordinary, Poll
    <2>2. Stage(k) \in {"idle", "claim"}
      BY <1>0, ClaimNextType DEF DueNow
    <2> HIDE DEF k
    <2>3. InLine(c, k, logs, pointer) /\ LaunchedBy(k) = 0
      BY <2>2, PlainInLine, LinesApart DEF Plain
    <2> HIDE DEF c
    <2> QED BY <1>0, <2>1, <2>3, OrderFacts, CallStep
  <1>2. ASSUME NEW l \in Logs, Claims(l) PROVE OrderInv'
    <2> DEFINE due == calls[c].due \ {l}
    <2>1. RowsKeep /\ CallsFollow /\ UNCHANGED <<pointer, flight, radio>>
      BY <1>2, ClaimsStep DEF Ordinary, Claimed, Claims
    <2>2. CASE ClaimableNow(logs[l])
      <3> DEFINE k == [Idle EXCEPT !.at = "activate", !.log = l, !.due = due]
      <3>1. Go(c, k) /\ l \in calls[c].due
        BY <1>2, <2>2 DEF Claims
      <3>2. k.at = "activate" /\ k.log = l
        BY DEF Idle
      <3> HIDE DEF k
      <3>3. Stage(k) = "activate"
        BY <3>2 DEF Stage
      <3>4. logs[l].sched # Unclocked
        BY <1>0, <3>1 DEF ClaimInv
      <3>5. InLine(c, k, logs, pointer) /\ LaunchedBy(k) = 0
        BY <3>2, <3>3, <3>4, LinesApart DEF InLine, LaunchedBy
      <3> HIDE DEF c
      <3> QED BY <1>0, <2>1, <3>1, <3>5, OrderFacts, CallStep
    <2>3. CASE ~ClaimableNow(logs[l])
      <3> DEFINE k == ClaimNext(due)
      <3>1. Go(c, k)
        BY <1>2, <2>3 DEF Claims
      <3>2. Stage(k) \in {"idle", "claim"}
        BY <1>0, ClaimNextType
      <3> HIDE DEF k
      <3>3. InLine(c, k, logs, pointer) /\ LaunchedBy(k) = 0
        BY <3>2, PlainInLine, LinesApart DEF Plain
      <3> HIDE DEF c
      <3> QED BY <1>0, <2>1, <3>1, <3>3, OrderFacts, CallStep
    <2> QED BY <2>2, <2>3
  <1> QED BY <1>1, <1>2 DEF Schedules

\* The cue at the head of the queue, when it is not stale.
LEMMA NextCueFacts ==
    ASSUME TypeInv, OrderInv, TurnFree
    PROVE  /\ NextTurn.op = "cue" /\ flight.lock # <<>> /\ Executed = 0
           /\ NextTurn.rt \in 1..Len(flight.rts) /\ NextTurn.index \in Nat \ {0}
           /\ Clockwork(flight.rts[NextTurn.rt]) /\ Aimed(NextTurn) = NextTurn.index
           /\ Eases(flight, Taken(flight)) /\ Taken(flight).rts = flight.rts
           /\ Taken(flight).owner = flight.owner
           /\ ~Stale(flight, NextTurn.rt, NextTurn.gen) =>
                 /\ NextTurn.gen = flight.rts[NextTurn.rt].gen
                 /\ Spare(Taken(flight), 0, Announced, NextTurn.rt)
                 /\ Steady(Taken(flight), 0, Announced, radio.aired)
                 /\ Ahead(radio.aired, NextTurn.rt, NextTurn.index)
  <1> DEFINE f == flight
             n == Announced
             aired == radio.aired
  <1>1. IsMemory(f) /\ Held(f) /\ CuesWait(f) /\ f.lock # <<>>
    BY OrderFacts DEF TurnFree
  <1>2. Executed = 0
    BY DEF TurnFree, Executed, ExecutedBy, Stage, OfCue
  <1>3. Steady(f, 0, n, aired)
    BY <1>2 DEF OrderInv
  <1>4. /\ Eases(f, Taken(f)) /\ Taken(f).rts = f.rts /\ Taken(f).owner = f.owner
        /\ Len(f.lock) \in Nat \ {0} /\ Head(f.lock) = f.lock[1]
    <2> HIDE DEF f
    <2> QED BY <1>1, TakenEases
  <1>5. NextTurn = f.lock[1] /\ 1 \in 1..Len(f.lock)
    BY <1>4 DEF NextTurn
  <1>6. f.lock[1].op = "cue"
    BY <1>1, <1>5 DEF CuesWait
  <1>7. f.lock[1].rt \in 1..Len(f.rts) /\ f.lock[1].index \in Nat \ {0}
    <2> HIDE DEF f
    <2> QED BY <1>1, <1>5, <1>6, WaitingOnes
  <1>8. Clockwork(f.rts[f.lock[1].rt])
    <2> HIDE DEF f, n, aired
    <2> QED BY <1>3, <1>7 DEF Steady, Single
  <1>9. Aimed(NextTurn) = NextTurn.index
    BY <1>5, <1>8 DEF Aimed, Clockwork
  <1>10. ASSUME ~Stale(f, NextTurn.rt, NextTurn.gen)
         PROVE  /\ NextTurn.gen = f.rts[NextTurn.rt].gen
                /\ Spare(Taken(f), 0, n, NextTurn.rt) /\ Steady(Taken(f), 0, n, aired)
                /\ Ahead(aired, NextTurn.rt, NextTurn.index)
    <2>1. NextTurn.gen = f.rts[NextTurn.rt].gen /\ NextTurn = Head(f.lock)
      BY <1>4, <1>5, <1>10 DEF Stale
    <2> DEFINE e == 0
    <2>2. Steady(f, e, n, aired)
      BY <1>3
    <2> HIDE DEF f, n, aired, e
    <2>3. Spare(Taken(f), e, n, NextTurn.rt) /\ Steady(Taken(f), e, n, aired)
          /\ Ahead(aired, NextTurn.rt, NextTurn.index)
      BY <1>1, <2>1, <2>2, TakenSpares
    <2> QED BY <2>1, <2>3 DEF e
  <1> QED BY <1>1, <1>2, <1>4, <1>5, <1>6, <1>7, <1>8, <1>9, <1>10

LEMMA CueDroppedKeepsOrder ==
    ASSUME TypeInv, TypeInv', OrderInv, CueDropped
    PROVE  OrderInv'
  <1>1. RowsKeep
    BY CueDroppedStep DEF Ordinary
  <1> QED BY <1>1, NextCueFacts, OrderFacts, QuietStep DEF CueDropped

LEMMA CueOutOfRangeKeepsOrder ==
    ASSUME TypeInv, TypeInv', OrderInv, CueOutOfRange
    PROVE  OrderInv'
  <1> DEFINE f == Taken(flight)
             r == NextTurn.rt
             c == "turn"
             k == Finishing(Idle, flight, r)
  <1>1. RowsKeep /\ CallsFollow /\ UNCHANGED <<pointer, radio>>
    BY CueOutOfRangeStep DEF Ordinary, CueOutOfRange
  <1>2. TurnFree /\ flight' = FinishBegun(f, r) /\ Go(c, k)
    BY DEF CueOutOfRange
  <1>3. Eases(flight, f)
    BY <1>2, NextCueFacts
  <1>4. IsMemory(f) /\ Held(f) /\ IsMemory(flight)
    BY <1>3, OrderFacts DEF Eases
  <1> HIDE DEF f
  <1>5. Eases(f, flight')
    BY <1>2, <1>4, StopBegunEases
  <1>6. Eases(flight, flight')
    BY <1>3, <1>4, <1>5, EasesTransitive
  <1>7. InLine(c, k, logs, pointer) /\ LaunchedBy(k) = 0
    <2>1. /\ c # "scheduler" /\ radio \in Radio /\ pointer \in Logs \cup {None}
          /\ flight.owner \in 0..Len(flight.rts) /\ Len(flight.rts) \in Nat
      BY Typed
    <2> HIDE DEF c
    <2> QED BY <2>1, FinishingInLine
  <1>8. c \in Callers
    BY OrderFacts
  <1> HIDE DEF k, c
  <1> QED BY <1>1, <1>2, <1>6, <1>7, <1>8, OrderFacts, CallStep

LEMMA CueHeldKeepsOrder ==
    ASSUME TypeInv, TypeInv', OrderInv, CueHeld
    PROVE  OrderInv'
  <1> DEFINE r   == NextTurn.rt
             rt  == flight.rts[r]
             i   == Aimed(NextTurn)
             cue == rt.items[i]
             due == DueAt(rt, cue)
             f   == Taken(flight)
             t   == Timer(flight, r, "hold", i, due)
             n   == Announced
             e   == 0
             aired == radio.aired
             g   == Armed(f, r, t)
  <1>1. /\ TurnFree /\ ~Stale(flight, r, NextTurn.gen) /\ i <= Len(rt.items)
        /\ Early(rt, cue) /\ flight' = g /\ UNCHANGED <<calls, radio, pointer>>
    BY DEF CueHeld
  <1>2. /\ r \in 1..Len(flight.rts) /\ i = NextTurn.index /\ i \in Nat \ {0}
        /\ f.rts = flight.rts /\ Executed = e
        /\ Spare(f, e, n, r) /\ Steady(f, e, n, aired) /\ Ahead(aired, r, i)
        /\ Eases(flight, f)
    BY <1>1, NextCueFacts
  <1>3. rt \in Runtime /\ Len(flight.rts) \in Nat
    BY <1>2, Typed, MemoryParts
  <1>4. cue \in Cue
    <2>1. rt.items \in Seq(Cue) /\ i \in 1..Len(rt.items)
      BY <1>1, <1>2, <1>3, LenProperties DEF Runtime
    <2> QED BY <2>1, ElementOfSeq
  <1>5. due \in Nat
    BY <1>1, <1>3, <1>4, DueAtType DEF Early
  <1>6. t \in Armable(Len(f.rts))
    BY <1>2, <1>5, Typed, TimerType DEF TimerKinds
  <1>7. t.rt = r /\ t.gen = f.rts[r].gen /\ t.kind = "hold" /\ t.cue = i
    BY <1>2 DEF Timer
  <1>8. IsMemory(f) /\ r \in 1..Len(f.rts)
    BY <1>2 DEF Eases
  <1>9. f.rts[r].timer = NoTimer /\ ~f.rts[r].waiting /\ e # r /\ n # r /\ Asked(f, r) = {}
    BY <1>2 DEF Spare, Clear
  <1>10. RowsKeep
    BY CueHeldStep DEF Ordinary
  <1> HIDE DEF i, t, f, r, n, aired, e
  <1>11. Steady(g, e, n, aired)
    BY <1>2, <1>6, <1>7, <1>8, <1>9, ArmedSteady
  <1>12. Lines'
    BY <1>1, <1>10, LinesKept
  <1>13. Executed' = e /\ Announced' = n /\ aired = radio'.aired
    BY <1>1, <1>2 DEF Executed, Announced, n, aired
  <1> QED BY <1>1, <1>11, <1>12, <1>13 DEF OrderInv, Lines, aired

LEMMA CueBeginsKeepsOrder ==
    ASSUME TypeInv, TypeInv', OrderInv, CueBegins
    PROVE  OrderInv'
  <1> DEFINE r   == NextTurn.rt
             i   == Aimed(NextTurn)
             rt  == flight.rts[r]
             cue == rt.items[i]
             f   == Taken(flight)
             n   == Announced
             e   == 0
             aired == radio.aired
             new == [f.rts[r] EXCEPT !.index = i, !.waiting = FALSE]
             T   == f.timers
             at  == IF CutsFirst(rt, cue) THEN "cut" ELSE "cue"
             on  == IF rt.sched # Unclocked THEN "cueFailed" ELSE "ignore"
             k   == [Idle EXCEPT !.at = at, !.rt = r, !.gen = NextTurn.gen, !.keep = TRUE,
                                 !.then = "cue", !.items = <<cue>>, !.on = on]
  <1>1. /\ TurnFree /\ ~Stale(flight, r, NextTurn.gen) /\ i <= Len(rt.items)
        /\ flight' = [f EXCEPT !.rts[r].index = i, !.rts[r].waiting = FALSE]
        /\ Go("turn", k) /\ UNCHANGED <<radio, pointer>>
    BY DEF CueBegins
  <1>2. /\ r \in 1..Len(flight.rts) /\ i = NextTurn.index /\ i \in Nat \ {0}
        /\ f.rts = flight.rts /\ Executed = e /\ Clockwork(rt)
        /\ Spare(f, e, n, r) /\ Steady(f, e, n, aired) /\ Ahead(aired, r, i)
        /\ Eases(flight, f)
    BY <1>1, NextCueFacts
  <1>3. /\ IsMemory(f) /\ r \in 1..Len(f.rts) /\ f.rts[r] \in Run /\ f.rts[r] \in Runtime
        /\ f.rts \in Seq(Run)
    <2>1. IsMemory(f) /\ r \in 1..Len(f.rts)
      BY <1>2 DEF Eases
    <2> HIDE DEF f
    <2> QED BY <2>1, MemoryParts
  <1>4. /\ new \in Run /\ new.gen = f.rts[r].gen /\ new.items = f.rts[r].items
        /\ new.sched = f.rts[r].sched /\ new.loop = f.rts[r].loop
        /\ new.timer = f.rts[r].timer /\ ~new.waiting /\ new.index = i
    <2> HIDE DEF f, i
    <2> QED BY <1>2, <1>3 DEF Run, Runtime
  <1>5. flight' = [f EXCEPT !.timers = T, !.rts = [f.rts EXCEPT ![r] = new]]
    <2> HIDE DEF f, i, r
    <2>1. flight' = [f EXCEPT !.rts = [f.rts EXCEPT ![r] = new]]
      BY <1>1, <1>3, MemoryParts
    <2> HIDE DEF new
    <2> QED BY <1>3, <2>1, MemoryParts
  <1>6. cue.kind \in {"song", "clip", "stop"}
    <2>1. rt \in Runtime
      BY <1>2, <1>3
    <2>2. i \in 1..Len(rt.items)
      BY <1>1, <1>2, <2>1, LenProperties DEF Runtime
    <2> QED BY <1>2, <2>2 DEF Clockwork, ClockItems, Rows
  <1>7. k.due = {} /\ k.rt = r /\ k.items[1].kind \in {"song", "clip", "stop"}
        /\ k.at \in {"cut", "cue"} /\ k.then = "cue"
    <2> HIDE DEF cue, r
    <2>1. k.items = <<cue>> /\ k.due = {} /\ k.rt = r /\ k.then = "cue" /\ k.at = at
      BY DEF Idle
    <2> HIDE DEF k
    <2> QED BY <1>6, <2>1
  <1>8. RowsKeep
    BY CueBeginsStep DEF Began
  <1>9. calls'["turn"] = k /\ \A d \in Callers \ {"turn"} : calls'[d] = calls[d]
    <2> HIDE DEF k
    <2> QED BY <1>1, Typed, OrderFacts DEF Go
  <1>10. Rewrites(f, flight', r, new, T)
    <2> DEFINE g == flight'
    <2>1. g = [f EXCEPT !.timers = T, !.rts = [f.rts EXCEPT ![r] = new]]
      BY <1>5
    <2> HIDE DEF f, r, T, new, g
    <2>2. Rewrites(f, g, r, new, T)
      BY <1>3, <1>4, <2>1, Rewritten
    <2> QED BY <2>2 DEF g
  <1> HIDE DEF k
  <1>11. Stage(k) = "cue"
    BY <1>7 DEF Stage
  <1>12. InLine("turn", k, logs, pointer)
    BY <1>7, <1>11, LinesApart DEF InLine
  <1>13. Lines'
    BY <1>1, <1>8, <1>9, <1>12, LinesKept
  <1>14. Executed' = r /\ Announced' = n
    BY <1>7, <1>9, <1>11, OrderFacts DEF Executed, ExecutedBy, Announced, OfCue
  <1>15. aired \in Seq([rt : Nat, pos : Nat]) /\ aired = radio'.aired /\ InOrder(aired)
    BY <1>1, Typed, RadioAirs DEF OrderInv
  <1>16. Steady(flight', r, n, aired)
    <2> DEFINE g == flight'
    <2>1. Steady(f, 0, n, aired) /\ Spare(f, 0, n, r) /\ Rewrites(f, g, r, new, T) /\ T = f.timers
      BY <1>2, <1>10
    <2> HIDE DEF f, r, T, new, g, n, aired, i
    <2>2. Steady(g, r, n, aired)
      BY <1>2, <1>3, <1>4, <1>15, <2>1, BegunSteady
    <2> QED BY <2>2 DEF g
  <1> HIDE DEF r, n, aired
  <1> QED BY <1>13, <1>14, <1>15, <1>16 DEF OrderInv, Lines

\* The turn that executes a cue: its runtime is spare once the cue is over.
LEMMA TurnFacts ==
    ASSUME TypeInv, OrderInv, Turn.at \in OfCue
    PROVE  /\ Turn.rt \in 1..Len(flight.rts) /\ Executed = Turn.rt
           /\ TurnCue.kind \in {"song", "clip", "stop"} /\ Stage(Turn) = Turn.at
           /\ flight.rts[Turn.rt].index <= Len(flight.rts[Turn.rt].items)
           /\ flight.rts[Turn.rt].index \in Nat
           /\ Steady(flight, Turn.rt, Announced, radio.aired)
           /\ Steady(flight, 0, Announced, radio.aired)
           /\ Spare(flight, 0, Announced, Turn.rt)
  <1>1. /\ Turn.rt \in 1..Len(flight.rts) /\ Stage(Turn) = Turn.at
        /\ flight.rts[Turn.rt].index <= Len(flight.rts[Turn.rt].items)
        /\ flight.rts[Turn.rt] \in Runtime
    BY TurnCueType
  <1>2. InLine("turn", Turn, logs, pointer)
    BY OrderFacts DEF Turn
  <1>3. TurnCue.kind \in {"song", "clip", "stop"} /\ Executed = Turn.rt
    BY <1>1, <1>2 DEF InLine, TurnCue, Turn, Executed, ExecutedBy
  <1>4. Steady(flight, Turn.rt, Announced, radio.aired)
    BY <1>3 DEF OrderInv
  <1>5. Steady(flight, 0, Announced, radio.aired) /\ Spare(flight, 0, Announced, Turn.rt)
    <2> DEFINE r == Turn.rt
               n == Announced
               aired == radio.aired
    <2>1. Steady(flight, r, n, aired) /\ r \in 1..Len(flight.rts) /\ IsMemory(flight)
      BY <1>1, <1>4, Typed
    <2> HIDE DEF r, n, aired
    <2>2. Steady(flight, 0, n, aired) /\ Spare(flight, 0, n, r)
      BY <2>1, ExecutedSpares
    <2> QED BY <2>2 DEF r, n, aired
  <1> QED BY <1>1, <1>3, <1>4, <1>5 DEF Runtime

LEMMA TurnEndsKeepsOrder ==
    ASSUME TypeInv, TypeInv', OrderInv, Turn.at \in OfCue, TurnEnds(flight), RowsKeep,
           UNCHANGED pointer, Steady(flight, 0, Announced, radio'.aired),
           InOrder(radio'.aired)
    PROVE  OrderInv'
  <1> DEFINE r == Turn.rt
             f == flight
             n == Announced
             e == 0
             aired == radio'.aired
             k == [calls EXCEPT !["turn"] = Idle]
  <1>1. /\ r \in 1..Len(f.rts) /\ TurnCue.kind \in {"song", "clip", "stop"}
        /\ f.rts[r].index <= Len(f.rts[r].items) /\ Spare(f, e, n, r)
    BY TurnFacts
  <1>2. clock \in Nat /\ IsMemory(f)
    BY Typed
  <1>3. flight' = f \/ flight' = AfterCue(f, r, TurnCue)
    BY DEF TurnEnds
  <1>4. calls' = k \/ calls' = Spawned(k, "advance", f, r)
    BY DEF TurnEnds
  <1>5. \A c \in Callers : k[c] = IF c = "turn" THEN Idle ELSE calls[c]
    BY Typed
  <1>6. k \in [Callers -> Call(Len(f.rts))]
    BY Typed, IdleType
  <1> HIDE DEF k
  <1>7. \A c \in Callers :
           calls'[c] = k[c] \/ (c = "advance" /\ calls'[c] = Finishing(Idle, f, r))
    BY <1>4, <1>6 DEF Spawned
  <1>8. \A c \in {"turn", "advance"} :
           /\ InLine(c, Idle, logs, pointer) /\ LaunchedBy(Idle) = 0
           /\ InLine(c, Finishing(Idle, f, r), logs, pointer)
    <2> SUFFICES ASSUME NEW c \in {"turn", "advance"}
                 PROVE  /\ InLine(c, Idle, logs, pointer) /\ LaunchedBy(Idle) = 0
                        /\ InLine(c, Finishing(Idle, f, r), logs, pointer)
      OBVIOUS
    <2>1. c # "scheduler" /\ Idle.due = {} /\ Stage(Idle) = "idle"
      BY DEF Idle, Stage
    <2>2. /\ radio \in Radio /\ pointer \in Logs \cup {None}
          /\ f.owner \in 0..Len(f.rts) /\ Len(f.rts) \in Nat
      BY Typed
    <2> HIDE DEF f, r
    <2>3. InLine(c, Finishing(Idle, f, r), logs, pointer)
      BY <2>1, <2>2, FinishingInLine
    <2>4. InLine(c, Idle, logs, pointer) /\ LaunchedBy(Idle) = 0
      BY <2>1, PlainInLine, LinesApart DEF Plain
    <2> QED BY <2>3, <2>4
  <1>9. Lines'
    <2>1. \A c \in Callers : calls'[c] = calls[c] \/ InLine(c, calls'[c], logs, pointer)
      BY <1>5, <1>7, <1>8
    <2> QED BY <2>1, LinesKept
  <1>10. Executed' = e /\ Announced' = n
    <2>1. calls'["turn"] = Idle /\ calls'["scheduler"] = calls["scheduler"]
      BY <1>5, <1>7, OrderFacts
    <2>2. Stage(Idle) = "idle"
      BY DEF Idle, Stage
    <2> QED BY <2>1, <2>2 DEF Executed, ExecutedBy, Announced, OfCue
  <1>11. Steady(flight', e, n, aired)
    <2> DEFINE cue == TurnCue
    <2>1. flight' = f \/ flight' = AfterCue(f, r, cue)
      BY <1>3
    <2>2. Steady(f, e, n, aired) /\ cue.kind \in {"song", "clip", "stop"}
      BY <1>1
    <2> HIDE DEF f, e, n, aired, r, cue
    <2>3. Steady(AfterCue(f, r, cue), e, n, aired)
      BY <1>1, <1>2, <2>2, AfterCueSteady
    <2> QED BY <2>1, <2>2, <2>3
  <1> HIDE DEF e, n
  <1> QED BY <1>9, <1>10, <1>11 DEF OrderInv, Lines

LEMMA TakesAirs ==
    ASSUME NEW x \in Radio, NEW rt, NEW pos
    PROVE  Takes(x, rt, pos).aired = Append(x.aired, [rt |-> rt, pos |-> pos])
  <1> DEFINE s == Append(x.aired, [rt |-> rt, pos |-> pos])
             n == Len(x.aired) + 1
  <1>1. Silenced(x).aired = x.aired /\ Silenced(x) \in Radio
    BY SilencedType
  <1>2. Takes(x, rt, pos) = [Silenced(x) EXCEPT !.aired = s, !.onAir = n, !.active = n]
    BY <1>1 DEF Takes
  <1> HIDE DEF s, n
  <1>3. Takes(x, rt, pos).aired = s
    BY <1>1, <1>2 DEF Radio
  <1> QED BY <1>3 DEF s

LEMMA CueTakesSongKeepsOrder ==
    ASSUME TypeInv, TypeInv', OrderInv, CueTakesSong
    PROVE  OrderInv'
  <1> DEFINE r == Turn.rt
             p == flight.rts[r].index
             x == IF OwnsAir(flight) THEN radio ELSE MemStopped(RowStopped(radio))
             f == flight
             n == Announced
             aired == radio.aired
             after == radio'.aired
  <1>1. Turn.at \in OfCue /\ TurnEnds(flight) /\ UNCHANGED pointer /\ radio' = Takes(x, r, p)
    BY DEF CueTakesSong, OfCue
  <1>2. RowsKeep
    BY CueTakesSongStep DEF Ordinary
  <1>3. x \in Radio /\ x.aired = aired
    <2>1. RowStopped(radio) \in Radio /\ RowStopped(radio).aired = aired /\ radio \in Radio
      BY Typed, RadioType, RadioAirs
    <2>2. MemStopped(RowStopped(radio)) \in Radio /\ MemStopped(RowStopped(radio)).aired = aired
      BY <2>1, RadioType, RadioAirs
    <2> QED BY <2>1, <2>2
  <1>4. after = Append(aired, [rt |-> r, pos |-> p])
    <2> HIDE DEF x, r, p, aired
    <2> QED BY <1>1, <1>3, TakesAirs
  <1>5. r \in 1..Len(f.rts) /\ Steady(f, r, n, aired) /\ IsMemory(f)
    BY <1>1, TurnFacts, Typed
  <1>6. InOrder(aired) /\ aired \in Seq([rt : Nat, pos : Nat])
    BY Typed, RadioAirs DEF OrderInv
  <1>7. Steady(f, 0, n, after) /\ InOrder(after)
    <2>1. after = Append(aired, [rt |-> r, pos |-> f.rts[r].index])
      BY <1>4
    <2> HIDE DEF f, r, n, aired, after
    <2> QED BY <1>5, <1>6, <2>1, SongSteady
  <1> QED BY <1>1, <1>2, <1>7, TurnEndsKeepsOrder

LEMMA CuePassesKeepsOrder ==
    ASSUME TypeInv, TypeInv', OrderInv, CueNeedsNoAir \/ CueUnplayable
    PROVE  OrderInv'
  <1>1. Turn.at \in OfCue /\ UNCHANGED <<pointer, radio>>
    BY DEF CueNeedsNoAir, CueUnplayable, OfCue
  <1>2. RowsKeep /\ CallsFollow
    BY CueNeedsNoAirStep, CueUnplayableStep DEF Ordinary
  <1>3. CASE Fails("turn")
    BY <1>1, <1>2, <1>3, OrderFacts, FailsKeepOrder
  <1>4. CASE TurnEnds(flight)
    <2>1. Steady(flight, 0, Announced, radio'.aired) /\ InOrder(radio'.aired)
      BY <1>1, TurnFacts DEF OrderInv
    <2> QED BY <1>1, <1>2, <1>4, <2>1, TurnEndsKeepsOrder
  <1> QED BY <1>3, <1>4 DEF CueNeedsNoAir, CueUnplayable

LEMMA CueStopsSongKeepsOrder ==
    ASSUME TypeInv, TypeInv', OrderInv, CueStopsSong
    PROVE  OrderInv'
  <1> DEFINE c == "turn"
             owns == OwnsAir(flight)
             k == [Turn EXCEPT !.at = "cut", !.keep = owns, !.then = "after"]
  <1>1. RowsKeep /\ CallsFollow /\ UNCHANGED <<pointer, flight, radio>>
    BY CueStopsSongStep DEF Ordinary, CueStopsSong
  <1>2. Go(c, k) /\ Turn.at = "cue"
    BY DEF CueStopsSong
  <1>3. /\ Turn \in CallRecord(Len(flight.rts)) /\ InLine(c, Turn, logs, pointer)
        /\ c \in Callers /\ Stage(Turn) = "cue" /\ Turn = calls[c]
    BY <1>2, Typed, OrderFacts DEF Turn, Stage
  <1> HIDE DEF owns
  <1>4. k.at = "cut" /\ k.then = "after" /\ k.due = Turn.due /\ k.items = Turn.items
    BY <1>3 DEF CallRecord
  <1> HIDE DEF k
  <1>5. Stage(k) = "after"
    BY <1>4 DEF Stage
  <1>6. InLine(c, k, logs, pointer) /\ LaunchedBy(k) = 0
    BY <1>3, <1>4, <1>5, LinesApart DEF InLine, LaunchedBy
  <1> HIDE DEF c
  <1> QED BY <1>1, <1>2, <1>3, <1>6, OrderFacts, CallStep

LEMMA TurnsKeepsOrder ==
    ASSUME TypeInv, TypeInv', OrderInv, Turns
    PROVE  OrderInv'
  <1>1. ~EditBegins
    BY NextCueFacts DEF EditBegins
  <1>2. ~EditWrites /\ ~EditApplies
    <2>1. "turn" \in Callers /\ "turn" # "scheduler"
      BY OrderFacts
    <2> QED BY <2>1, SchedulerOnly, LinesApart DEF EditWrites, EditApplies, Turn
  <1> QED BY <1>1, <1>2, CueDroppedKeepsOrder, CueOutOfRangeKeepsOrder, CueHeldKeepsOrder,
       CueBeginsKeepsOrder, CuePassesKeepsOrder, CueTakesSongKeepsOrder,
       CueStopsSongKeepsOrder DEF Turns

\* A step that keeps the memory steady and may start the rotation.
LEMMA SteadyStep ==
    ASSUME TypeInv, TypeInv', OrderInv, Lines', Airs(radio, radio'),
           Steady(flight', Executed', Announced', radio.aired)
    PROVE  OrderInv'
  <1> DEFINE e == Executed'
             n == Announced'
             g == flight'
             aired == radio.aired
             after == radio'.aired
  <1>1. /\ IsMemory(g) /\ Steady(g, e, n, aired) /\ InOrder(aired)
        /\ aired \in Seq([rt : Nat, pos : Nat])
    BY Typed, RadioAirs DEF OrderInv, TypeInv
  <1>2. Steady(g, e, n, after) /\ InOrder(after)
    <2>1. ASSUME NEW k \in Nat, after = Append(aired, [rt |-> 0, pos |-> k])
          PROVE  Steady(g, e, n, after) /\ InOrder(after)
      <3>1. after = Append(aired, [rt |-> 0, pos |-> k])
        BY <2>1
      <3> HIDE DEF e, n, g, aired, after
      <3> QED BY <1>1, <3>1, RotationSteady
    <2>2. CASE after = aired
      BY <1>1, <2>2
    <2> QED BY <2>1, <2>2 DEF Airs
  <1> QED BY <1>2 DEF OrderInv, Lines

LEMMA TimedStep ==
    ASSUME TypeInv, TypeInv', OrderInv, RowsKeep, UNCHANGED <<pointer, calls, radio>>,
           Steady(flight', Executed, Announced, radio.aired)
    PROVE  OrderInv'
  <1>1. Lines'
    BY LinesKept
  <1>2. Executed' = Executed /\ Announced' = Announced
    BY DEF Executed, Announced
  <1>3. Steady(flight', Executed', Announced', radio.aired)
    BY <1>2
  <1>4. Airs(radio, radio')
    BY OrderFacts
  <1> QED BY <1>1, <1>3, <1>4, SteadyStep

LEMMA TimersKeepOrder ==
    ASSUME TypeInv, TypeInv', OrderInv, Timers
    PROVE  OrderInv'
  <1> SUFFICES ASSUME NEW t \in flight.timers,
                      \/ HoldFires(t) \/ WaitFires(t) \/ SongEndTimesOut(t)
                      \/ ClipFires(t) \/ HardFires(t)
               PROVE  OrderInv'
    BY DEF Timers
  <1> DEFINE f == Fired(flight, t)
             r == t.rt
             rt == f.rts[r]
             e == Executed
             n == Announced
             aired == radio.aired
  <1>1. /\ IsMemory(f) /\ Steady(f, e, n, aired) /\ r \in 1..Len(flight.rts)
        /\ Rewrites(flight, f, r, [flight.rts[r] EXCEPT !.timer = NoTimer], flight.timers \ {t})
        /\ f.rts[r].timer = NoTimer /\ e # r /\ n # r
        /\ f.rts[r].gen = t.gen /\ t.kind \in {"hold", "clip", "hard"}
        /\ t.kind # "hard" => Spare(f, e, n, r)
        /\ t.kind = "hold" => Ahead(aired, r, t.cue)
    <2> DEFINE h == flight
    <2>1. IsMemory(h) /\ Steady(h, e, n, aired) /\ t \in h.timers
      BY OrderFacts DEF OrderInv
    <2> HIDE DEF h, e, n, aired, f, r
    <2>2. LET g == Fired(h, t)
              s == t.rt
          IN  /\ IsMemory(g) /\ Steady(g, e, n, aired) /\ s \in 1..Len(h.rts)
              /\ Rewrites(h, g, s, [h.rts[s] EXCEPT !.timer = NoTimer], h.timers \ {t})
              /\ g.rts[s].timer = NoTimer /\ e # s /\ n # s /\ Asked(g, s) = {}
              /\ g.rts[s].gen = t.gen /\ t.kind \in {"hold", "clip", "hard"}
              /\ t.kind # "hard" => Spare(g, e, n, s)
              /\ t.kind = "hold" => Ahead(aired, s, t.cue)
      BY <2>1, FiredSteady
    <2> QED BY <2>2 DEF h, f, r
  <1>2. /\ r \in 1..Len(f.rts) /\ rt \in Runtime /\ t.gen \in Nat
        /\ t.kind = "hold" => t.cue \in Nat \ {0}
    BY ExpiredType
  <1>3. RowsKeep
    BY HoldFiresStep, WaitFiresStep, SongEndTimesOutStep, ClipFiresStep, HardFiresStep
       DEF Ordinary
  <1>4. CASE HoldFires(t)
    <2>1. flight' = Requested(f, r, t.gen, t.cue) /\ UNCHANGED <<pointer, calls, radio>>
          /\ t.kind = "hold"
      BY <1>4 DEF HoldFires, OnlyFlight
    <2>2. Steady(Requested(f, r, f.rts[r].gen, t.cue), e, n, aired)
      <3> DEFINE k == t.cue
      <3>1. k \in Nat \ {0} /\ Ahead(aired, r, k) /\ Spare(f, e, n, r)
        BY <1>1, <1>2, <2>1
      <3> HIDE DEF f, r, e, n, aired, k
      <3>2. Steady(Requested(f, r, f.rts[r].gen, k), e, n, aired)
        BY <1>1, <1>2, <3>1, RequestedSteady
      <3> QED BY <3>2 DEF k
    <2>3. Steady(flight', Executed, Announced, radio.aired)
      BY <1>1, <2>1, <2>2
    <2> QED BY <1>3, <2>1, <2>3, TimedStep
  <1>5. CASE ClipFires(t)
    <2> DEFINE i == IF t.cue = 0 THEN rt.index + 1 ELSE RowOf(rt.items, t.cue)
    <2>1. /\ flight' = IF Stale(f, t.rt, t.gen) \/ i <= rt.index THEN f
                       ELSE Requested(f, t.rt, t.gen, i)
          /\ UNCHANGED <<pointer, calls, radio>> /\ t.kind = "clip"
      BY <1>5 DEF ClipFires, OnlyFlight
    <2>2. i \in Nat /\ rt.index \in Nat /\ rt.index + 1 \in Nat
      BY <1>2, RowOfType DEF Runtime
    <2>3. ASSUME ~(i <= rt.index) PROVE Steady(Requested(f, r, f.rts[r].gen, i), e, n, aired)
      <3> DEFINE m == rt.index + 1
      <3>1. i \in Nat \ {0} /\ m <= i /\ m \in Nat
        BY <2>2, <2>3
      <3>2. Ahead(aired, r, m)
        <4> HIDE DEF f, r, e, n, aired
        <4> QED BY <1>1, <1>2 DEF Steady, Single
      <3>3. aired \in Seq([rt : Nat, pos : Nat]) /\ Spare(f, e, n, r)
        BY <1>1, <2>1, Typed, RadioAirs
      <3> HIDE DEF f, r, e, n, aired, i, rt, m
      <3>4. Ahead(aired, r, i)
        BY <3>1, <3>2, <3>3, AheadOfLater
      <3> QED BY <1>1, <1>2, <3>1, <3>3, <3>4, RequestedSteady
    <2>4. Steady(flight', Executed, Announced, radio.aired)
      <3> HIDE DEF i
      <3> QED BY <1>1, <2>1, <2>3
    <2> QED BY <1>3, <2>1, <2>4, TimedStep
  <1>6. CASE HardFires(t)
    <2> DEFINE i == RowOf(rt.items, t.cue)
               g == [f EXCEPT !.rts[t.rt].waiting = FALSE, !.rts[t.rt].gen = @ + 1]
    <2>1. /\ flight' = f \/ (~(i <= rt.index) /\ flight' = Requested(g, t.rt, t.gen + 1, i))
          /\ UNCHANGED <<pointer, calls, radio>>
      BY <1>6 DEF HardFires, OnlyFlight
    <2>2. i \in Nat /\ rt.index \in Nat /\ rt.index + 1 \in Nat
      BY <1>2, RowOfType DEF Runtime
    <2>3. Renews(f, g, e, n, aired, r)
      <3>1. g = [f EXCEPT !.rts[r].waiting = FALSE, !.rts[r].gen = @ + 1]
        OBVIOUS
      <3> HIDE DEF f, r, e, n, aired, g
      <3> QED BY <1>1, <1>2, <3>1, GenerationSpares
    <2> HIDE DEF g
    <2>4. /\ IsMemory(g) /\ r \in 1..Len(g.rts) /\ Steady(g, e, n, aired) /\ Spare(g, e, n, r)
          /\ g.rts[r].gen = t.gen + 1 /\ g.rts[r].index = rt.index
      BY <1>1, <1>2, <2>3 DEF Renews
    <2>5. ASSUME ~(i <= rt.index) PROVE Steady(Requested(g, r, g.rts[r].gen, i), e, n, aired)
      <3> DEFINE m == rt.index + 1
      <3>1. i \in Nat \ {0} /\ m <= i /\ m \in Nat
        BY <2>2, <2>5
      <3>2. Ahead(aired, r, m)
        <4>1. Ahead(aired, r, g.rts[r].index + 1)
          <5> HIDE DEF r, e, n, aired
          <5> QED BY <2>4 DEF Steady, Single
        <4> QED BY <2>4, <4>1
      <3>3. aired \in Seq([rt : Nat, pos : Nat])
        BY Typed, RadioAirs
      <3> HIDE DEF r, e, n, aired, i, rt, m
      <3>4. Ahead(aired, r, i)
        BY <3>1, <3>2, <3>3, AheadOfLater
      <3> QED BY <2>4, <3>1, <3>4, RequestedSteady
    <2>6. Steady(flight', Executed, Announced, radio.aired)
      <3> HIDE DEF i
      <3> QED BY <1>1, <2>1, <2>4, <2>5
    <2> QED BY <1>3, <2>1, <2>6, TimedStep
  <1>7. ~WaitFires(t) /\ ~SongEndTimesOut(t)
    BY <1>1 DEF WaitFires, SongEndTimesOut
  <1> QED BY <1>4, <1>5, <1>6, <1>7

\* The song a block waits for has ended.
LEMMA SongEndedKeepsOrder ==
    ASSUME TypeInv, TypeInv', OrderInv, SongEnded, RowsKeep, UNCHANGED pointer,
           Airs(radio, radio')
    PROVE  OrderInv'
  <1> DEFINE r == flight.owner
             h == flight
             f == Bumped(flight, r)
             e == Executed
             n == Announced
             aired == radio.aired
  <1>1. CASE UNCHANGED <<flight, calls>>
    BY <1>1, OrderFacts, QuietStep
  <1>2. CASE /\ IsRunning(flight) /\ flight.rts[r].waiting
             /\ flight' = MovedOn(f, r) /\ calls' = Spawned(calls, "song", f, r)
    <2>1. r \in 1..Len(h.rts) /\ IsMemory(h) /\ Steady(h, e, n, aired)
      BY <1>2, Typed DEF IsRunning, OrderInv
    <2>2. e # r /\ n # r
      <3>1. h.rts[r].waiting
        BY <1>2
      <3> HIDE DEF h, r, e, n, aired
      <3> QED BY <2>1, <3>1 DEF Steady, Single
    <2>3. f = Bumped(h, r)
      OBVIOUS
    <2> HIDE DEF h, r, e, n, aired, f
    <2>4. /\ IsMemory(f) /\ Len(f.rts) = Len(h.rts) /\ Steady(f, e, n, aired)
          /\ Spare(f, e, n, r)
      BY <2>1, <2>2, <2>3, BumpedSpares
    <2>5. Steady(MovedOn(f, r), e, n, aired)
      BY <2>1, <2>4, MovedOnSteady
    <2>6. \A c \in Callers :
             calls'[c] = calls[c] \/ (c = "song" /\ calls'[c] = Finishing(Idle, f, r))
      BY <1>2, Typed DEF Spawned
    <2>7. InLine("song", Finishing(Idle, f, r), logs, pointer)
      <3> DEFINE c == "song"
      <3>1. c # "scheduler" /\ f.owner \in 0..Len(f.rts) /\ Len(f.rts) \in Nat
            /\ radio \in Radio /\ pointer \in Logs \cup {None}
        BY <2>4, Typed, MemoryParts
      <3> HIDE DEF c
      <3>2. InLine(c, Finishing(Idle, f, r), logs, pointer)
        BY <3>1, FinishingInLine
      <3> QED BY <3>2 DEF c
    <2>8. Lines'
      <3>1. \A c \in Callers : calls'[c] = calls[c] \/ InLine(c, calls'[c], logs, pointer)
        BY <2>6, <2>7
      <3> QED BY <3>1, LinesKept
    <2>9. Executed' = e /\ Announced' = n
      <3>1. calls'["turn"] = calls["turn"] /\ calls'["scheduler"] = calls["scheduler"]
        BY <2>6, OrderFacts
      <3> QED BY <3>1 DEF Executed, Announced, e, n
    <2>10. Steady(flight', Executed', Announced', aired)
      <3>1. Steady(flight', e, n, aired)
        BY <1>2, <2>5
      <3> HIDE DEF f
      <3> QED BY <2>9, <3>1
    <2>11. Steady(flight', Executed', Announced', radio.aired)
      BY <2>10 DEF aired
    <2> QED BY <2>8, <2>11, SteadyStep
  <1> QED BY <1>1, <1>2 DEF SongEnded

LEMMA EndArrivesKeepsOrder ==
    ASSUME TypeInv, TypeInv', OrderInv, NEW m \in radio.ended, EndArrives(m)
    PROVE  OrderInv'
  <1> DEFINE E == radio.ended \ {m}
             x == [radio EXCEPT !.ended = E]
  <1>1. RowsKeep /\ UNCHANGED pointer
    BY EndArrivesStep DEF Ordinary, EndArrives
  <1>2. x \in Radio /\ x.aired = radio.aired
    <2>1. E \subseteq Nat
      BY Typed DEF Radio
    <2> HIDE DEF E
    <2> QED BY <2>1, Typed DEF Radio
  <1>3. x = [radio EXCEPT !.ended = @ \ {m}]
    BY Typed DEF Radio
  <1> HIDE DEF E, x
  <1>4. /\ radio' \in {x, [x EXCEPT !.active = 0], Continues(x, m)}
        /\ UNCHANGED <<flight, calls>> \/ SongEnded
    BY <1>3 DEF EndArrives
  <1>5. Airs(radio, radio')
    <2>1. [x EXCEPT !.active = 0].aired = x.aired
      BY <1>2 DEF Radio
    <2>2. Airs(x, Continues(x, m)) /\ Airs(x, x)
      BY <1>2, RadioAirs
    <2> QED BY <1>2, <1>4, <2>1, <2>2 DEF Airs
  <1>6. CASE UNCHANGED <<flight, calls>>
    BY <1>1, <1>5, <1>6, OrderFacts, QuietStep
  <1>7. CASE SongEnded
    BY <1>1, <1>5, <1>7, SongEndedKeepsOrder
  <1> QED BY <1>4, <1>6, <1>7

\* The process restarts.
LEMMA RestartKeepsOrder ==
    ASSUME TypeInv, TypeInv', OrderInv, Restart
    PROVE  OrderInv'
  <1> DEFINE off == FALSE
  <1>1. RowsKeep /\ UNCHANGED pointer /\ IsMemory(flight')
    BY RestartStep DEF Ordinary, Restart, Becomes
  <1>2. flight.rts \in Seq(Run) /\ Len(flight.rts) \in Nat /\ IsMemory(flight)
    BY Typed, MemoryParts
  <1>3. /\ flight'.timers = {} /\ flight'.lock = <<>>
        /\ flight'.rts = [r \in 1..Len(flight.rts) |->
                            [flight.rts[r] EXCEPT !.running = off, !.timer = NoTimer]]
    BY <1>2, LenProperties DEF Restart
  <1> HIDE DEF off
  <1>4. Eases(flight, flight')
    <2>1. Len(flight'.rts) = Len(flight.rts)
      BY RestartStep DEF Ordinary, Becomes, SameRuns
    <2>2. \A r \in 1..Len(flight.rts) : Eased(flight.rts[r], flight'.rts[r])
      <3> SUFFICES ASSUME NEW r \in 1..Len(flight.rts) PROVE Eased(flight.rts[r], flight'.rts[r])
        OBVIOUS
      <3>1. flight.rts[r] \in Runtime
        BY <1>2, MemoryParts
      <3>2. flight'.rts[r] = [flight.rts[r] EXCEPT !.running = off, !.timer = NoTimer]
        BY <1>3
      <3> QED BY <3>1, <3>2 DEF Eased, Runtime
    <2>3. Held(flight')
      BY <1>3 DEF Held
    <2>4. \E h \in 0..Len(flight.lock) : Behind(flight.lock, flight'.lock, h)
      <3> DEFINE h == Len(flight.lock)
      <3>1. h \in Nat
        BY <1>2, MemoryParts, LenProperties
      <3>2. Len(flight'.lock) = 0
        <4>1. flight'.lock = <<>>
          BY <1>3
        <4> HIDE DEF h
        <4> QED BY <4>1, EmptySeq
      <3>3. Behind(flight.lock, flight'.lock, h)
        BY <3>1, <3>2 DEF Behind
      <3> QED BY <3>1, <3>3
    <2> QED BY <1>1, <2>1, <2>2, <2>3, <2>4 DEF Eases
  <1>5. calls' = [c \in Callers |-> Idle] /\ radio' = Rebooted(radio)
    BY DEF Restart
  <1>6. Stage(Idle) = "idle" /\ Idle.due = {}
    BY DEF Idle, Stage
  <1>7. Lines'
    <2>1. \A c \in Callers : InLine(c, Idle, logs, pointer)
      BY <1>6, PlainInLine, LinesApart DEF Plain
    <2> QED BY <1>1, <1>5, <2>1, LinesKept
  <1>8. Executed' = 0 /\ Announced' = 0
    BY <1>5, <1>6, OrderFacts DEF Executed, ExecutedBy, Announced, LaunchedBy, OfCue
  <1>9. Airs(radio, radio')
    BY <1>5, Typed, RadioAirs DEF Airs
  <1> QED BY <1>4, <1>7, <1>8, <1>9, EasingStep

LEMMA InitOrder == Init => OrderInv
  <1> SUFFICES ASSUME Init PROVE OrderInv
    OBVIOUS
  <1>1. PICK s \in Setups : logs = s.logs /\ pointer = s.pointer /\ radio = IdleRadio(s.auto)
    BY DEF Init
  <1>2. NoLoops(logs)
    BY <1>1, FlightAssumption DEF NoLoops
  <1>3. radio.aired = <<>> /\ flight.rts = <<>> /\ flight.timers = {} /\ flight.lock = <<>>
    BY <1>1 DEF Init, IdleRadio
  <1>4. Steady(flight, Executed, Announced, radio.aired) /\ InOrder(radio.aired)
    BY <1>3 DEF Steady, Held, CuesWait, InOrder
  <1>5. \A c \in Callers : InLine(c, calls[c], logs, pointer)
    <2>1. Stage(Idle) = "idle" /\ Idle.due = {}
      BY DEF Idle, Stage
    <2> QED BY <2>1, PlainInLine, LinesApart DEF Init, Plain
  <1> QED BY <1>2, <1>4, <1>5 DEF OrderInv

\* As long as no operator asks for anything, every step keeps the order.
LEMMA NextKeepsOrder ==
    ASSUME TypeInv, ClaimInv, OrderInv, [Next]_vars, [~Operator]_vars
    PROVE  OrderInv'
  <1>0. TypeInv'
    BY NextIsTyped
  <1>1. CASE UNCHANGED vars
    BY <1>0, <1>1, RowsStay, OrderFacts, QuietStep DEF vars
  <1>2. ASSUME NEW c \in Callers, Proceeds(c) \/ StopFails(c) \/ PrepareFails(c)
        PROVE  OrderInv'
    BY <1>0, <1>2, ProceedsKeepsOrder, StopFailsKeepOrder, CompletesKeepOrder
  <1>3. CASE Schedules \/ Turns \/ Timers
    BY <1>0, <1>3, SchedulesKeepsOrder, TurnsKeepsOrder, TimersKeepOrder
  <1>4. CASE Reports
    BY <1>0, <1>4, EndArrivesKeepsOrder DEF Reports
  <1>5. CASE IdleSnapshot \/ TrackEnds
    <2>1. UNCHANGED <<logs, pointer, calls, flight>>
      BY <1>5 DEF IdleSnapshot, TrackEnds
    <2>2. Airs(radio, radio')
      BY <1>5, OrderFacts, RadioAirs DEF IdleSnapshot, TrackEnds, Airs
    <2> QED BY <1>0, <2>1, <2>2, RowsStay, OrderFacts, QuietStep
  <1>6. CASE Ticks \/ \E m \in Cues : Disable(m)
    <2>1. UNCHANGED <<logs, pointer, calls, flight, radio>>
      BY <1>6 DEF Ticks, Disable
    <2> QED BY <1>0, <2>1, RowsStay, OrderFacts, QuietStep
  <1>7. CASE Restart
    BY <1>0, <1>7, RestartKeepsOrder
  <1>8. CASE ~Operator /\ Next
    BY <1>2, <1>3, <1>4, <1>5, <1>6, <1>7, <1>8 DEF Next, Faults
  <1> QED BY <1>1, <1>8

\* No operator asks for anything: what the scheduler claims runs by itself.
Unattended == [][~Operator]_vars

THEOREM FlightKeepsOrder == Spec /\ Unattended => [](TypeInv /\ ClaimInv /\ OrderInv)
  <1>1. Init => TypeInv /\ ClaimInv /\ OrderInv
    BY InitIsTyped, InitClaims, InitOrder
  <1>2. /\ TypeInv /\ ClaimInv /\ OrderInv /\ [Next]_vars /\ [~Operator]_vars
        => (TypeInv /\ ClaimInv /\ OrderInv)'
    BY NextIsTyped, NextClaims, NextKeepsOrder
  <1> QED BY <1>1, <1>2, PTL DEF Spec, Unattended

\* Without operators a clocked log airs its cues in their order and none twice, however
\* its songs' ends, its fixed starts, failures, other logs and restarts come together.
THEOREM CuesAirInOrderUnattended == Spec /\ Unattended => []CuesAirInOrder
  <1>1. TypeInv /\ OrderInv => CuesAirInOrder
    <2> SUFFICES ASSUME TypeInv, OrderInv PROVE CuesAirInOrder
      OBVIOUS
    <2>1. radio.aired \in Seq([rt : Nat, pos : Nat]) /\ DOMAIN radio.aired = 1..Len(radio.aired)
      BY Typed, RadioAirs, LenProperties
    <2> QED BY <2>1 DEF OrderInv, InOrder, CuesAirInOrder
  <1> QED BY <1>1, FlightKeepsOrder, PTL

\* Without operators a stop, a skip or a restart of a clocked log clears every timer
\* its runtime armed: none is ever armed over another.
THEOREM TimersAreHeldUnattended == Spec /\ Unattended => []TimersAreHeld
  <1>1. OrderInv => TimersAreHeld
    BY DEF OrderInv, Steady, Held, TimersAreHeld
  <1> QED BY <1>1, FlightKeepsOrder, PTL
================================================================================
