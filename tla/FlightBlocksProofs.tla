--------------------------- MODULE FlightBlocksProofs ---------------------------
(***************************************************************************)
(* Theorems about a FlightService whose blocks come one after another: a   *)
(* log is claimed only while no other block is held and no call is under   *)
(* way.  The song a block waits for is then the one on the air, and the    *)
(* row of every block that runs is marked as running.  The theorems hold   *)
(* for all logs, cues, edits, budgets and bounds of the clock; what the    *)
(* steps preserve is the order of the cues, proved in FlightServiceProofs, *)
(* and BlockInv below.                                                     *)
(***************************************************************************)
EXTENDS FlightServiceProofs

--------------------------------------------------------------------------------
\* One block at a time

\* A call under way: neither at rest nor between two claims.
Claimless == {"idle", "claim"}
Busy(k) == k.at \notin Claimless

\* Nothing is armed and nobody waits; nor is anything requested.
Rests(f) == f.timers = {} /\ (f.owner # 0 => ~f.rts[f.owner].waiting)
Idles(f) == f.lock = <<>> /\ Rests(f)

\* What is armed is of the runtime in the map, and a request waits alone.
Apart(f) == /\ \A t \in f.timers : t.rt = f.owner
            /\ f.lock # <<>> => Len(f.lock) = 1 /\ Rests(f) /\ f.owner # 0

\* The runtime in the map runs, and is of the log that the program points to.
Owned(f, p) == f.owner # 0 => f.rts[f.owner].running /\ f.rts[f.owner].log = p

\* Where a call is agrees with the map.
Launches == {"activate", "activating", "unmark", "start", "starting"}
Announces == {"persist", "announce"}
SchedulerFits(k, f, p) ==
    /\ k.at \in Claimless \cup Launches \cup Announces
    /\ Busy(k) => ~Recovers(k)
    /\ k.at \in Launches => f.owner = 0
    /\ k.at = "starting" => k.log = p
    /\ k.at = "activating" => k.snap.sched # Unclocked
    /\ k.at \in Announces => f.owner = k.rt
    /\ k.at = "persist" => k.log = f.rts[k.rt].log
StopFits(k, f, p) ==
    /\ k.at \in Cutting /\ k.then \notin OfCue =>
          k.held = f.owner /\ (f.owner # 0 => k.target = p)
    /\ k.at \in Cutting /\ k.then \in OfCue => k.held = 0 /\ k.at # "mark"
CueFits(k, f) ==
    /\ Stage(k) \in OfCue => f.owner = k.rt /\ k.on = "cueFailed" /\ k.held = 0
    /\ Stage(k) = "after" => k.items[1].kind = "stop"
Fits(c, k, f, p) ==
    (c = "scheduler" => SchedulerFits(k, f, p)) /\ StopFits(k, f, p) /\ CueFits(k, f)

\* One call at most is under way, and nothing is pending beside it.
AloneInv ==
    /\ \A c, d \in Callers : Busy(calls[c]) /\ Busy(calls[d]) => c = d
    /\ \A c \in Callers : Busy(calls[c]) => Idles(flight)
    /\ Apart(flight) /\ Owned(flight, pointer)
    /\ \A c \in Callers : Fits(c, calls[c], flight, pointer)

LEMMA RestFits ==
    ASSUME NEW c, NEW k, ~Busy(k), NEW f, NEW p
    PROVE  Fits(c, k, f, p)
  BY DEF Fits, SchedulerFits, StopFits, CueFits, Busy, Claimless, Launches, Announces, Stage,
         OfCue, Cutting

LEMMA IdlesApart ==
    ASSUME NEW f, Idles(f)
    PROVE  Apart(f)
  BY DEF Idles, Rests, Apart

\* Nothing is pending for no runtime.
LEMMA ApartIdles ==
    ASSUME NEW f, IsMemory(f), Apart(f), f.owner = 0
    PROVE  Idles(f)
  <1>1. f.timers = {}
    BY TimerOf DEF Apart
  <1> QED BY <1>1 DEF Apart, Idles, Rests

\* A call goes on while the others rest.
LEMMA AloneNext ==
    ASSUME NEW c \in Callers, \A d \in Callers \ {c} : ~Busy(calls'[d]),
           Owned(flight', pointer'), Fits(c, calls'[c], flight', pointer'),
           Busy(calls'[c]) => Idles(flight'), Apart(flight')
    PROVE  AloneInv'
  <1>1. \A d \in Callers : Fits(d, calls'[d], flight', pointer')
    BY RestFits
  <1> QED BY <1>1 DEF AloneInv

LEMMA AloneGoes ==
    ASSUME TypeInv, AloneInv, NEW c \in Callers, \A d \in Callers \ {c} : ~Busy(calls[d]),
           NEW k, Go(c, k), Owned(flight', pointer'), Fits(c, k, flight', pointer'),
           IF Busy(k) THEN Idles(flight') ELSE Apart(flight')
    PROVE  AloneInv'
  <1>1. calls'[c] = k /\ \A d \in Callers \ {c} : calls'[d] = calls[d]
    BY Typed DEF Go
  <1> QED BY <1>1, AloneNext, IdlesApart

\* What the call under way can rely on.
LEMMA AloneFacts ==
    ASSUME AloneInv, NEW c \in Callers, Busy(calls[c])
    PROVE  /\ Idles(flight) /\ \A d \in Callers \ {c} : ~Busy(calls[d])
           /\ Owned(flight, pointer) /\ Fits(c, calls[c], flight, pointer)
  BY DEF AloneInv

\* Calls rest, or stay where they are.
Still(c) == calls'[c] = calls[c] \/ (~Busy(calls[c]) /\ ~Busy(calls'[c]))
LEMMA AloneStays ==
    ASSUME AloneInv, UNCHANGED <<flight, pointer>>, \A c \in Callers : Still(c)
    PROVE  AloneInv'
  <1>1. \A c \in Callers : Fits(c, calls'[c], flight, pointer)
    BY RestFits DEF AloneInv, Still
  <1>2. \A c \in Callers : Busy(calls'[c]) => Busy(calls[c])
    BY DEF Still
  <1> QED BY <1>1, <1>2 DEF AloneInv

--------------------------------------------------------------------------------
\* What makes a memory lighter

\* g is f with timers cleared and waits ended.
Lighter(f, g) ==
    /\ Len(g.rts) = Len(f.rts) /\ g.owner = f.owner /\ g.lock = f.lock
    /\ g.timers \subseteq f.timers
    /\ \A r \in 1..Len(f.rts) :
          /\ g.rts[r].log = f.rts[r].log /\ g.rts[r].running = f.rts[r].running
          /\ g.rts[r].index = f.rts[r].index /\ g.rts[r].sched = f.rts[r].sched
          /\ g.rts[r].items = f.rts[r].items
          /\ g.rts[r].waiting => f.rts[r].waiting

LEMMA LighterTransitive ==
    ASSUME NEW f, NEW g, Lighter(f, g), NEW h, Lighter(g, h)
    PROVE  Lighter(f, h)
  BY DEF Lighter

LEMMA LighterReflexive ==
    ASSUME NEW f
    PROVE  Lighter(f, f)
  BY DEF Lighter

LEMMA LighterIdles ==
    ASSUME NEW f, IsMemory(f), NEW g, Lighter(f, g)
    PROVE  /\ Rests(f) => Rests(g)
           /\ Idles(f) => Idles(g)
           /\ \A p : Owned(f, p) => Owned(g, p)
  <1>1. f.owner # 0 => f.owner \in 1..Len(f.rts)
    BY MemoryParts
  <1> QED BY <1>1 DEF Lighter, Rests, Idles, Owned

\* One runtime lighter.
LEMMA RewrittenLighter ==
    ASSUME NEW f, NEW r, NEW rt, NEW T, NEW g, Rewrites(f, g, r, rt, T), T \subseteq f.timers,
           rt.log = f.rts[r].log, rt.running = f.rts[r].running, rt.index = f.rts[r].index,
           rt.sched = f.rts[r].sched, rt.items = f.rts[r].items, rt.waiting => f.rts[r].waiting
    PROVE  Lighter(f, g)
  BY DEF Rewrites, Lighter

LEMMA DisarmedLighter ==
    ASSUME NEW f, IsMemory(f), Held(f), NEW r \in 1..Len(f.rts)
    PROVE  Lighter(f, Disarmed(f, r))
  <1> DEFINE rt == [f.rts[r] EXCEPT !.timer = NoTimer]
             T  == f.timers \ {f.rts[r].timer}
             g  == Disarmed(f, r)
  <1>1. Rewrites(f, g, r, rt, T)
    BY DisarmedEases
  <1>2. f.rts[r] \in Runtime
    BY MemoryParts
  <1>3. /\ rt.log = f.rts[r].log /\ rt.running = f.rts[r].running /\ rt.index = f.rts[r].index
        /\ rt.sched = f.rts[r].sched /\ rt.items = f.rts[r].items
        /\ rt.waiting = f.rts[r].waiting /\ T \subseteq f.timers
    BY <1>2 DEF Runtime
  <1> HIDE DEF rt, T, g
  <1>4. Lighter(f, g)
    BY <1>1, <1>3, RewrittenLighter
  <1> QED BY <1>4 DEF g

\* A runtime waits no more, and is in the generation gen.
LEMMA UnwaitingRewrites ==
    ASSUME NEW f, IsMemory(f), NEW r \in 1..Len(f.rts), NEW gen \in Nat, NEW g,
           g = [f EXCEPT !.rts[r].waiting = FALSE, !.rts[r].gen = gen]
    PROVE  IsMemory(g) /\ Lighter(f, g) /\ ~g.rts[r].waiting
  <1> DEFINE b  == FALSE
             rt == [f.rts[r] EXCEPT !.waiting = b, !.gen = gen]
             T  == f.timers
  <1>1. f.rts[r] \in Run /\ f.rts[r] \in Runtime /\ f.rts \in Seq(Run)
    BY MemoryParts
  <1>2. rt \in Run /\ ~rt.waiting
    BY <1>1 DEF Run, Runtime
  <1>3. /\ rt.log = f.rts[r].log /\ rt.running = f.rts[r].running /\ rt.index = f.rts[r].index
        /\ rt.sched = f.rts[r].sched /\ rt.items = f.rts[r].items
    BY <1>1 DEF Runtime
  <1>4. g = [f EXCEPT !.timers = T, !.rts = [f.rts EXCEPT ![r] = rt]]
    BY <1>1, MemoryParts
  <1>5. IsMemory(g)
    <2>1. Becomes(f, g)
      BY Unwaiting
    <2> QED BY <2>1 DEF Becomes
  <1>6. T \subseteq f.timers
    OBVIOUS
  <1> HIDE DEF rt, T
  <1>7. Rewrites(f, g, r, rt, T)
    BY <1>2, <1>4, Rewritten
  <1>8. Lighter(f, g)
    BY <1>3, <1>6, <1>7, <1>2, RewrittenLighter
  <1>9. g.rts[r] = rt
    BY <1>7 DEF Rewrites
  <1> QED BY <1>2, <1>5, <1>8, <1>9

LEMMA StopBegunLighter ==
    ASSUME NEW f, IsMemory(f), Held(f)
    PROVE  /\ Lighter(f, StopBegun(f)) /\ \A r : Lighter(f, FinishBegun(f, r))
           /\ IsMemory(StopBegun(f))
  <1>0. IsMemory(StopBegun(f))
    BY StopBegunType DEF Becomes
  <1>1. CASE f.owner = 0
    BY <1>0, <1>1, LighterReflexive DEF StopBegun, FinishBegun
  <1>2. CASE f.owner # 0
    <2> DEFINE r  == f.owner
               g  == Disarmed(f, r)
               rt == [g.rts[r] EXCEPT !.waiting = FALSE]
               T  == g.timers
    <2>1. r \in 1..Len(f.rts)
      BY <1>2, MemoryParts
    <2>2. Lighter(f, g) /\ IsMemory(g) /\ r \in 1..Len(g.rts)
      BY <2>1, DisarmedLighter, DisarmedEases DEF Eases
    <2>3. StopBegun(f) = [g EXCEPT !.rts[r].waiting = FALSE]
      BY <1>2 DEF StopBegun
    <2> HIDE DEF g, r
    <2>4. g.rts[r] \in Run /\ g.rts[r] \in Runtime /\ g.rts \in Seq(Run)
      BY <2>2, MemoryParts
    <2>5. rt \in Run /\ ~rt.waiting
      BY <2>4 DEF Run, Runtime
    <2>6. /\ rt.log = g.rts[r].log /\ rt.running = g.rts[r].running /\ rt.index = g.rts[r].index
          /\ rt.sched = g.rts[r].sched /\ rt.items = g.rts[r].items /\ T \subseteq g.timers
      BY <2>4 DEF Runtime
    <2>7. StopBegun(f) = [g EXCEPT !.timers = T, !.rts = [g.rts EXCEPT ![r] = rt]]
      BY <2>2, <2>3, <2>4, MemoryParts
    <2> DEFINE s == StopBegun(f)
    <2> HIDE DEF rt, T, s
    <2>8. Rewrites(g, s, r, rt, T)
      BY <2>2, <2>5, <2>7, Rewritten DEF s
    <2>9. Lighter(g, s)
      BY <2>5, <2>6, <2>8, RewrittenLighter
    <2> QED BY <1>0, <2>2, <2>9, LighterTransitive, LighterReflexive DEF FinishBegun, s
  <1> QED BY <1>1, <1>2

\* g is f with timers of the runtime in the map armed or cleared, and that runtime
\* waiting or not.
Near(f, g) ==
    /\ Len(g.rts) = Len(f.rts) /\ g.owner = f.owner /\ g.lock = f.lock
    /\ \A t \in g.timers : t \in f.timers \/ t.rt = f.owner
    /\ \A r \in 1..Len(f.rts) :
          /\ g.rts[r].log = f.rts[r].log /\ g.rts[r].running = f.rts[r].running
          /\ g.rts[r].index = f.rts[r].index /\ g.rts[r].sched = f.rts[r].sched
          /\ g.rts[r].items = f.rts[r].items

LEMMA LighterNear ==
    ASSUME NEW f, NEW g, Lighter(f, g)
    PROVE  Near(f, g)
  BY DEF Lighter, Near

LEMMA NearTransitive ==
    ASSUME NEW f, NEW g, Near(f, g), NEW h, Near(g, h)
    PROVE  Near(f, h)
  BY DEF Near

LEMMA NearApart ==
    ASSUME NEW f, IsMemory(f), Idles(f), NEW g, Near(f, g)
    PROVE  Apart(g) /\ \A p : Owned(f, p) => Owned(g, p)
  <1>1. f.owner # 0 => f.owner \in 1..Len(f.rts)
    BY MemoryParts
  <1> QED BY <1>1 DEF Near, Idles, Rests, Apart, Owned

\* The finally of stopRuntime takes the runtime that was stopped out of the map.
LEMMA ReleasedOwner ==
    ASSUME NEW f, IsMemory(f), Held(f), Idles(f)
    PROVE  LET g == Released(f, f.owner)
           IN  Idles(g) /\ g.owner = 0 /\ IsMemory(g) /\ Held(g)
  <1> DEFINE g == Released(f, f.owner)
  <1>1. f.owner \in 0..Len(f.rts) /\ Len(f.rts) \in Nat
    BY MemoryParts
  <1>2. IsMemory(g) /\ Held(g)
    BY <1>1, ReleasedEases DEF Eases
  <1>3. g.lock = f.lock /\ g.timers = f.timers /\ g.owner = 0
    BY MemoryParts DEF Released
  <1> HIDE DEF g
  <1>4. Idles(g)
    BY <1>3 DEF Idles, Rests
  <1> QED BY <1>2, <1>3, <1>4 DEF g

\* The runtime in the map asks for a cue.
LEMMA RequestedApart ==
    ASSUME NEW f, IsMemory(f), Idles(f), f.owner # 0, NEW r, NEW gen, NEW i
    PROVE  LET g == Requested(f, r, gen, i)
           IN  Apart(g) /\ g.owner = f.owner /\ g.rts = f.rts /\ Rests(g)
  <1> DEFINE q == [op |-> "cue", rt |-> r, gen |-> gen, index |-> i, log |-> None, items |-> <<>>]
             L == Append(f.lock, q)
             g == Requested(f, r, gen, i)
  <1>1. g.rts = f.rts /\ g.owner = f.owner /\ g.timers = f.timers /\ g.lock = L
    BY MemoryParts DEF Requested
  <1>2. Len(L) = 1
    <2>1. f.lock = <<>>
      BY DEF Idles
    <2> HIDE DEF q
    <2> QED BY <2>1
  <1> HIDE DEF L, g
  <1> QED BY <1>1, <1>2 DEF Apart, Rests, Idles, g

\* A timer of the runtime in the map is the only one.
LEMMA OnlyTimer ==
    ASSUME NEW f, IsMemory(f), Held(f), \A t \in f.timers : t.rt = f.owner, f.owner # 0
    PROVE  \A t \in f.timers : f.timers = {t} /\ t = f.rts[f.owner].timer
  BY DEF Held

\* go and handleSongEnded leave nothing pending.
LEMMA BumpedIdles ==
    ASSUME NEW f, IsMemory(f), Held(f), Apart(f), f.lock = <<>>, f.owner # 0
    PROVE  LET g == Bumped(f, f.owner)
           IN  Idles(g) /\ Lighter(f, g) /\ IsMemory(g)
  <1> DEFINE r == f.owner
             h == Disarmed(f, r)
             g == Bumped(f, r)
             n == h.rts[r].gen + 1
  <1>1. r \in 1..Len(f.rts)
    BY MemoryParts
  <1>2. Lighter(f, h) /\ IsMemory(h) /\ Len(h.rts) = Len(f.rts)
    BY <1>1, DisarmedLighter, DisarmedEases DEF Eases
  <1>3. h.timers = {}
    <2>1. h.timers = f.timers \ {f.rts[r].timer}
      BY <1>1, MemoryParts DEF Disarmed
    <2>2. \A t \in f.timers : t = f.rts[r].timer
      BY OnlyTimer DEF Apart
    <2> QED BY <2>1, <2>2
  <1>4. g = [h EXCEPT !.rts[r].waiting = FALSE, !.rts[r].gen = n]
    BY <1>1, <1>2, MemoryParts DEF Bumped
  <1>5. n \in Nat
    <2> HIDE DEF h
    <2>1. h.rts[r] \in Runtime
      BY <1>1, <1>2, MemoryParts
    <2> QED BY <2>1 DEF Runtime
  <1> HIDE DEF h, g, n, r
  <1>6. IsMemory(g) /\ Lighter(h, g) /\ ~g.rts[r].waiting
    BY <1>1, <1>2, <1>4, <1>5, UnwaitingRewrites
  <1>7. Lighter(f, g)
    BY <1>2, <1>6, LighterTransitive
  <1>8. g.lock = <<>> /\ g.timers = {} /\ g.owner = r
    BY <1>3, <1>6, <1>7 DEF Lighter, r
  <1> QED BY <1>6, <1>7, <1>8 DEF Idles, Rests, g, r

\* A timer that fires was the only one.
LEMMA FiredLighter ==
    ASSUME NEW f, IsMemory(f), NEW e, NEW n, NEW aired, Steady(f, e, n, aired), Apart(f),
           NEW t \in f.timers
    PROVE  LET g == Fired(f, t)
           IN  /\ Lighter(f, g) /\ IsMemory(g) /\ g.timers = {} /\ g.lock = <<>>
               /\ t.rt = f.owner /\ f.owner # 0 /\ t.rt \in 1..Len(f.rts)
               /\ t.kind # "hard" => Idles(g)
  <1> DEFINE g  == Fired(f, t)
             rt == [f.rts[t.rt] EXCEPT !.timer = NoTimer]
             T  == f.timers \ {t}
  <1>1. /\ IsMemory(g) /\ Rewrites(f, g, t.rt, rt, T) /\ t.rt \in 1..Len(f.rts)
        /\ t.kind # "hard" => ~g.rts[t.rt].waiting
    BY FiredSteady DEF Spare, Clear
  <1>2. f.rts[t.rt] \in Runtime /\ t.rt # 0
    BY <1>1, MemoryParts
  <1>3. /\ rt.log = f.rts[t.rt].log /\ rt.running = f.rts[t.rt].running
        /\ rt.index = f.rts[t.rt].index /\ rt.sched = f.rts[t.rt].sched
        /\ rt.items = f.rts[t.rt].items /\ rt.waiting = f.rts[t.rt].waiting /\ T \subseteq f.timers
    BY <1>2 DEF Runtime
  <1>4. t.rt = f.owner /\ f.lock = <<>>
    BY DEF Apart, Rests
  <1>5. T = {}
    BY <1>2, <1>4, OnlyTimer DEF Apart, Steady
  <1> HIDE DEF rt, T, g
  <1>6. Lighter(f, g) /\ g.timers = {} /\ g.lock = <<>>
    <2>1. Lighter(f, g)
      BY <1>1, <1>3, RewrittenLighter
    <2> QED BY <1>1, <1>4, <1>5, <2>1 DEF Rewrites
  <1>7. t.kind # "hard" => Idles(g)
    BY <1>1, <1>4, <1>6 DEF Idles, Rests, Lighter
  <1> QED BY <1>1, <1>2, <1>4, <1>6, <1>7 DEF g

\* The request that waits is taken.
LEMMA TakenIdles ==
    ASSUME NEW f, IsMemory(f), Held(f), Apart(f), f.lock # <<>>
    PROVE  LET g == Taken(f)
           IN  Idles(g) /\ g.owner = f.owner /\ g.rts = f.rts /\ IsMemory(g) /\ Held(g)
  <1>1. /\ Eases(f, Taken(f)) /\ Taken(f).rts = f.rts /\ Taken(f).owner = f.owner
        /\ Len(Taken(f).lock) = Len(f.lock) - 1
    BY TakenEases
  <1>2. Taken(f).timers = f.timers
    BY MemoryParts DEF Taken
  <1>3. Taken(f).lock = <<>>
    <2>1. Len(Taken(f).lock) = 0
      BY <1>1 DEF Apart
    <2>2. Taken(f).lock \in Seq(Waiting(Len(Taken(f).rts)))
      BY <1>1, MemoryParts DEF Eases
    <2> QED BY <2>1, <2>2, EmptySeq
  <1> QED BY <1>1, <1>2, <1>3 DEF Idles, Rests, Apart, Eases

\* The runtime in the map goes on with the cue that follows, or its block ends.
LEMMA MovedOnApart ==
    ASSUME NEW f, IsMemory(f), Held(f), Idles(f), f.owner # 0, NEW r
    PROVE  LET g == MovedOn(f, r)
           IN  /\ Apart(g) /\ g.owner = f.owner /\ Rests(g)
               /\ Finishes(f, r) => Idles(g)
               /\ \A p : Owned(f, p) => Owned(g, p)
               /\ \A j \in 1..Len(f.rts) : g.rts[j].log = f.rts[j].log
  <1> DEFINE g == MovedOn(f, r)
  <1>1. CASE Finishes(f, r)
    <2>1. g = FinishBegun(f, r)
      BY <1>1 DEF MovedOn
    <2> HIDE DEF g
    <2>2. Lighter(f, g)
      BY <2>1, StopBegunLighter
    <2>3. Idles(g) /\ \A p : Owned(f, p) => Owned(g, p)
      BY <2>2, LighterIdles
    <2>4. Apart(g) /\ Rests(g)
      BY <2>3, IdlesApart DEF Idles
    <2>5. g.owner = f.owner /\ \A j \in 1..Len(f.rts) : g.rts[j].log = f.rts[j].log
      BY <2>2 DEF Lighter
    <2> QED BY <2>3, <2>4, <2>5 DEF g
  <1>2. CASE ~Finishes(f, r)
    <2> DEFINE i == IF f.rts[r].index + 1 > Len(f.rts[r].items) THEN 1 ELSE f.rts[r].index + 1
               n == f.rts[r].gen
    <2>1. g = Requested(f, r, n, i)
      BY <1>2 DEF MovedOn, NextRequested
    <2> HIDE DEF g, i, n
    <2>2. Apart(g) /\ g.owner = f.owner /\ g.rts = f.rts /\ Rests(g)
      BY <2>1, RequestedApart
    <2> QED BY <1>2, <2>2 DEF Owned, g
  <1> QED BY <1>1, <1>2

\* The same, and no runtime waits that did not.
Arms(f, g) ==
    Near(f, g) /\ \A r \in 1..Len(f.rts) : g.rts[r].waiting => f.rts[r].waiting

LEMMA LighterArms ==
    ASSUME NEW f, NEW g, Lighter(f, g)
    PROVE  Arms(f, g)
  BY DEF Lighter, Near, Arms

LEMMA ArmsTransitive ==
    ASSUME NEW f, NEW g, Arms(f, g), NEW h, Arms(g, h)
    PROVE  Arms(f, h)
  BY DEF Near, Arms

\* A timer of the runtime in the map is armed.
LEMMA ArmedArms ==
    ASSUME NEW f, IsMemory(f), f.owner # 0, NEW t \in Armable(Len(f.rts)), t.rt = f.owner
    PROVE  Arms(f, Armed(f, f.owner, t))
  <1> DEFINE r  == f.owner
             rt == [f.rts[r] EXCEPT !.timer = t]
             T  == f.timers \cup {t}
             g  == Armed(f, r, t)
  <1>1. r \in 1..Len(f.rts) /\ f.rts[r] \in Runtime /\ f.rts[r] \in Run
    BY MemoryParts
  <1>2. /\ rt \in Run /\ rt.log = f.rts[r].log /\ rt.running = f.rts[r].running
        /\ rt.index = f.rts[r].index /\ rt.sched = f.rts[r].sched /\ rt.items = f.rts[r].items
        /\ rt.waiting = f.rts[r].waiting
    <2>1. t \in TimerRecord
      BY DEF Armable
    <2> QED BY <1>1, <2>1, TimerReplaced DEF Alike, Runtime
  <1>3. g = [f EXCEPT !.timers = T, !.rts = [f.rts EXCEPT ![r] = rt]]
    BY DEF Armed
  <1>4. \A u \in T : u \in f.timers \/ u.rt = r
    OBVIOUS
  <1> HIDE DEF rt, T, g, r
  <1>5. Rewrites(f, g, r, rt, T)
    BY <1>1, <1>2, <1>3, Rewritten
  <1>6. Arms(f, g)
    BY <1>2, <1>4, <1>5 DEF Rewrites, Near, Arms, r
  <1> QED BY <1>6 DEF g, r

\* armNextHardCue
LEMMA HardArmedArms ==
    ASSUME NEW f, IsMemory(f), Held(f), f.owner # 0
    PROVE  Arms(f, HardArmed(f, f.owner))
  <1> DEFINE r   == f.owner
             rt  == f.rts[r]
             cue == rt.items[FirstFixed(rt)]
             t   == Timer(f, r, "hard", cue.id, DueAt(rt, cue))
             g   == Disarmed(f, r)
  <1>1. r \in 1..Len(f.rts) /\ rt \in Runtime
    BY MemoryParts
  <1>2. Lighter(f, g) /\ Arms(f, g) /\ IsMemory(g) /\ Len(g.rts) = Len(f.rts) /\ g.owner = r
    BY <1>1, DisarmedLighter, DisarmedEases, LighterArms DEF Eases, Lighter
  <1>3. CASE NextFixed(rt) = {} \/ rt.sched = Unclocked
    BY <1>2, <1>3 DEF HardArmed
  <1>4. CASE ~(NextFixed(rt) = {} \/ rt.sched = Unclocked)
    <2>2. cue \in Cue /\ Fixed(cue) /\ DueAt(rt, cue) \in Nat /\ cue.id \in Cues
      BY <1>1, <1>4, FirstFixedType, DueAtType DEF Cue
    <2>3. t \in Armable(Len(f.rts))
      BY <1>1, <2>2, TimerType DEF TimerKinds
    <2>4. HardArmed(f, r) = Armed(g, r, t)
      BY <1>4 DEF HardArmed
    <2>5. t.rt = r
      BY DEF Timer
    <2> HIDE DEF t, g, cue, rt, r
    <2>6. t \in Armable(Len(g.rts)) /\ r # 0
      BY <1>2, <2>3 DEF r
    <2>7. Arms(g, Armed(g, r, t))
      BY <1>2, <2>5, <2>6, ArmedArms
    <2> QED BY <1>2, <2>4, <2>7, ArmsTransitive DEF r
  <1> QED BY <1>3, <1>4

\* armTimedClip
LEMMA ClipArmedArms ==
    ASSUME NEW f, IsMemory(f), Held(f), f.owner # 0,
           f.rts[f.owner].index <= Len(f.rts[f.owner].items)
    PROVE  Arms(f, ClipArmed(f, f.owner))
  <1> DEFINE r   == f.owner
             rt  == f.rts[r]
             g   == Disarmed(f, r)
             cue == rt.items[FirstFixed(rt)]
             end == rt.clipAt + rt.items[rt.index].ms
             t   == Timer(f, r, "clip", cue.id, DueAt(rt, cue))
             u   == Timer(f, r, "clip", 0, end)
  <1>1. r \in 1..Len(f.rts) /\ rt \in Runtime /\ rt \in Run
    BY MemoryParts
  <1>2. Lighter(f, g) /\ Arms(f, g) /\ IsMemory(g) /\ Len(g.rts) = Len(f.rts) /\ g.owner = r
    BY <1>1, DisarmedLighter, DisarmedEases, LighterArms DEF Eases, Lighter
  <1>3. CASE rt.clipAt = Unset
    BY <1>2, <1>3 DEF ClipArmed
  <1>4. CASE rt.clipAt # Unset
    <2>1. rt.sched # Unclocked /\ rt.items \in Seq(Cue)
      BY <1>1, <1>4 DEF Run, Runtime
    <2>2. rt.index \in 1..Len(rt.items)
      BY <1>1, <2>1, LenProperties DEF Runtime
    <2>3. rt.items[rt.index] \in Cue
      BY <2>1, <2>2, ElementOfSeq
    <2>4. end \in Nat
      <3>1. rt.items[rt.index].ms \in Nat
        BY <2>3 DEF Cue
      <3>2. rt.clipAt \in Nat
        BY <1>1, <1>4 DEF Runtime
      <3> DEFINE ms == rt.items[rt.index].ms
                 at == rt.clipAt
      <3> HIDE DEF ms, at
      <3>3. ms \in Nat /\ at \in Nat
        BY <3>1, <3>2 DEF ms, at
      <3>4. ms + at \in Nat /\ at + ms \in Nat
        BY <3>3
      <3> QED BY <3>4 DEF ms, at, rt
    <2>5. NextFixed(rt) # {} => cue.id \in Cues /\ DueAt(rt, cue) \in Nat
      BY <1>1, <2>1, FirstFixedType, DueAtType DEF Cue
    <2>6. \/ ClipArmed(f, r) = Armed(g, r, u)
          \/ NextFixed(rt) # {} /\ ClipArmed(f, r) = Armed(g, r, t)
      BY <1>4 DEF ClipArmed
    <2>7. t.rt = r /\ u.rt = r
      BY DEF Timer
    <2>8. u \in Armable(Len(f.rts)) /\ (NextFixed(rt) # {} => t \in Armable(Len(f.rts)))
      <3> HIDE DEF cue, end, rt
      <3> QED BY <1>1, <2>4, <2>5, TimerType DEF TimerKinds
    <2> HIDE DEF t, u, g, rt, cue, end, r
    <2>9. ASSUME NEW v \in Armable(Len(f.rts)), v.rt = r
          PROVE  Arms(f, Armed(g, r, v))
      <3>1. v \in Armable(Len(g.rts)) /\ r # 0
        BY <1>2, <2>9 DEF r
      <3>2. Arms(g, Armed(g, r, v))
        BY <1>2, <2>9, <3>1, ArmedArms
      <3> QED BY <1>2, <3>2, ArmsTransitive
    <2> QED BY <2>6, <2>7, <2>8, <2>9 DEF r
  <1> QED BY <1>3, <1>4

\* The runtime in the map waits for the end of a song, or its clip started.
LEMMA MarkedNear ==
    ASSUME NEW f, IsMemory(f), Held(f), f.owner # 0, NEW b \in BOOLEAN, NEW at \in Nat,
           f.rts[f.owner].sched # Unclocked, NEW g,
           \/ g = [f EXCEPT !.rts[f.owner].waiting = b]
           \/ g = [f EXCEPT !.rts[f.owner].clipAt = at]
    PROVE  /\ Near(f, g) /\ IsMemory(g) /\ Held(g)
           /\ g = [f EXCEPT !.rts[f.owner].clipAt = at] => Arms(f, g)
  <1> DEFINE r == f.owner
             T == f.timers
             v == [f.rts[r] EXCEPT !.waiting = b]
             w == [f.rts[r] EXCEPT !.clipAt = at]
  <1>1. r \in 1..Len(f.rts) /\ f.rts[r] \in Runtime /\ f.rts[r] \in Run /\ f.rts \in Seq(Run)
    BY MemoryParts
  <1>2. /\ v \in Run /\ v.log = f.rts[r].log /\ v.running = f.rts[r].running
        /\ v.index = f.rts[r].index /\ v.sched = f.rts[r].sched /\ v.items = f.rts[r].items
        /\ v.timer = f.rts[r].timer
    BY <1>1 DEF Run, Runtime
  <1>3. /\ w \in Run /\ w.log = f.rts[r].log /\ w.running = f.rts[r].running
        /\ w.index = f.rts[r].index /\ w.sched = f.rts[r].sched /\ w.items = f.rts[r].items
        /\ w.timer = f.rts[r].timer /\ w.waiting = f.rts[r].waiting
    BY <1>1 DEF Run, Runtime
  <1>4. \/ g = [f EXCEPT !.timers = T, !.rts = [f.rts EXCEPT ![r] = v]]
        \/ g = [f EXCEPT !.timers = T, !.rts = [f.rts EXCEPT ![r] = w]]
    BY <1>1, MemoryParts
  <1>5. g = [f EXCEPT !.rts[r].clipAt = at] => g = [f EXCEPT !.timers = T, !.rts = [f.rts EXCEPT ![r] = w]]
    BY <1>1, MemoryParts
  <1>6. IsMemory(g)
    BY <1>1, WaitingType DEF Becomes
  <1> HIDE DEF v, w, r
  <1>7. ASSUME NEW rt \in {v, w}, Rewrites(f, g, r, rt, T)
        PROVE  Near(f, g) /\ Held(g) /\ (rt = w => Arms(f, g))
    <2>1. Near(f, g)
      BY <1>2, <1>3, <1>7 DEF Rewrites, Near
    <2>2. Held(g)
      <3> SUFFICES ASSUME NEW t \in g.timers PROVE g.rts[t.rt].timer = t
        BY DEF Held
      <3>1. t \in f.timers /\ t.rt \in 1..Len(f.rts) /\ f.rts[t.rt].timer = t
        BY <1>7, TimerOf DEF Rewrites, Held
      <3> QED BY <1>2, <1>3, <1>7, <3>1 DEF Rewrites
    <2>3. rt = w => \A j \in 1..Len(f.rts) : g.rts[j].waiting => f.rts[j].waiting
      BY <1>3, <1>7 DEF Rewrites
    <2> QED BY <2>1, <2>2, <2>3 DEF Arms
  <1> HIDE DEF T
  <1>8. \/ Rewrites(f, g, r, v, T) \/ Rewrites(f, g, r, w, T)
    BY <1>1, <1>2, <1>3, <1>4, Rewritten
  <1>9. g = [f EXCEPT !.rts[r].clipAt = at] => Rewrites(f, g, r, w, T)
    BY <1>1, <1>3, <1>5, Rewritten
  <1>10. v \in {v, w} /\ w \in {v, w}
    OBVIOUS
  <1> QED BY <1>6, <1>7, <1>8, <1>9, <1>10 DEF r

\* What follows the execution of a cue of the clocked log in the map.
LEMMA AfterCueApart ==
    ASSUME NEW f, IsMemory(f), Held(f), Idles(f), f.owner # 0,
           f.rts[f.owner].index <= Len(f.rts[f.owner].items),
           f.rts[f.owner].sched # Unclocked, clock \in Nat,
           NEW cue, cue.kind \in {"song", "clip", "stop"}
    PROVE  LET g == AfterCue(f, f.owner, cue)
               r == f.owner
           IN  /\ Apart(g) /\ g.owner = f.owner
               /\ \A p : Owned(f, p) => Owned(g, p)
               /\ g.rts[r].log = f.rts[r].log
               /\ g.rts[r].waiting => cue.kind = "song" /\ g.rts[r].index = f.rts[r].index
               /\ ~Waits(f.rts[r], cue) => g = MovedOn(f, r)
  <1> DEFINE r == f.owner
             g == AfterCue(f, r, cue)
  <1>0. r \in 1..Len(f.rts)
    BY MemoryParts
  <1>1. CASE cue.kind = "song"
    <2> DEFINE b == TRUE
               h == [f EXCEPT !.rts[r].waiting = b]
    <2>1. b \in BOOLEAN /\ clock \in Nat
      OBVIOUS
    <2>2. g = HardArmed(h, r)
      BY <1>1 DEF AfterCue
    <2>3. h = [f EXCEPT !.rts[r].waiting = b]
      OBVIOUS
    <2> HIDE DEF b, h, g
    <2>4. Near(f, h) /\ IsMemory(h) /\ Held(h)
      BY <2>1, <2>3, MarkedNear
    <2>5. h.owner = r
      BY <2>4 DEF Near
    <2>6. Near(h, g)
      BY <2>2, <2>4, <2>5, HardArmedArms DEF Arms
    <2>7. Near(f, g)
      BY <2>4, <2>6, NearTransitive
    <2>8. Apart(g) /\ \A p : Owned(f, p) => Owned(g, p)
      BY <2>7, NearApart
    <2>9. g.owner = r /\ g.rts[r].log = f.rts[r].log /\ g.rts[r].index = f.rts[r].index
      BY <1>0, <2>7 DEF Near
    <2>10. Waits(f.rts[r], cue)
      BY <1>1 DEF Waits, CutsFirst
    <2> QED BY <1>1, <2>8, <2>9, <2>10 DEF g
  <1>2. CASE cue.kind = "clip" /\ cue.ms > 0
    <2> DEFINE at == clock
               h == [f EXCEPT !.rts[r].clipAt = at]
    <2>1. at \in Nat /\ TRUE \in BOOLEAN
      OBVIOUS
    <2>2. g = ClipArmed(h, r)
      BY <1>2 DEF AfterCue
    <2>3. h = [f EXCEPT !.rts[r].clipAt = at]
      OBVIOUS
    <2> HIDE DEF at, h, g
    <2>4. Arms(f, h) /\ IsMemory(h) /\ Held(h)
      BY <2>1, <2>3, MarkedNear
    <2>5. h.owner = r /\ h.rts[r].index <= Len(h.rts[r].items)
      BY <1>0, <2>4 DEF Near, Arms
    <2>6. Arms(h, g)
      BY <2>2, <2>4, <2>5, ClipArmedArms
    <2>7. Arms(f, g)
      BY <2>4, <2>6, ArmsTransitive
    <2>8. Apart(g) /\ \A p : Owned(f, p) => Owned(g, p)
      BY <2>7, NearApart DEF Arms
    <2>9. g.owner = r /\ g.rts[r].log = f.rts[r].log /\ ~g.rts[r].waiting
      BY <1>0, <2>7 DEF Near, Arms, Idles, Rests
    <2>10. Waits(f.rts[r], cue)
      BY <1>2 DEF Waits, CutsFirst
    <2> QED BY <2>8, <2>9, <2>10 DEF g
  <1>3. CASE cue.kind # "song" /\ ~(cue.kind = "clip" /\ cue.ms > 0)
    <2>1. g = MovedOn(f, r)
      BY <1>3 DEF AfterCue
    <2> HIDE DEF g
    <2>2. Apart(g) /\ g.owner = f.owner /\ Rests(g) /\ \A p : Owned(f, p) => Owned(g, p)
      BY <2>1, MovedOnApart
    <2>3. g.rts[r].log = f.rts[r].log
      BY <1>0, <2>1, MovedOnApart
    <2> QED BY <2>1, <2>2, <2>3 DEF g, Rests
  <1> QED BY <1>1, <1>2, <1>3

--------------------------------------------------------------------------------
\* Where a call may go

\* A stop for the sake of something but a cue.
LEMMA StoppingFits ==
    ASSUME NEW n, NEW k \in CallRecord(n), NEW f, NEW g, g.owner = f.owner, NEW keep,
           NEW then, then \notin OfCue, NEW c, c # "scheduler"
    PROVE  /\ Fits(c, Stopping(k, f, keep, then), g, pointer)
           /\ Busy(Stopping(k, f, keep, then)) /\ Stopping(k, f, keep, then).at = "mark"
           /\ Stage(Stopping(k, f, keep, then)) = then
  <1> DEFINE s == Stopping(k, f, keep, then)
  <1>1. s.at = "mark" /\ s.then = then /\ s.held = f.owner /\ s.target = pointer
    BY DEF Stopping, CallRecord
  <1> HIDE DEF s
  <1>2. Stage(s) = then /\ Busy(s)
    BY <1>1 DEF Stage, Busy, Claimless
  <1>3. Fits(c, s, g, pointer)
    BY <1>1, <1>2, LinesApart DEF Fits, StopFits, CueFits
  <1> QED BY <1>1, <1>2, <1>3 DEF s

\* The call of finishBlock of a clocked log.
LEMMA FinishingFits ==
    ASSUME NEW f, NEW g, g.owner = f.owner, NEW r, NEW c, c # "scheduler"
    PROVE  LET k == Finishing(Idle, f, r)
           IN  /\ Fits(c, k, g, pointer) /\ Busy(k) /\ k.at \in {"mark", "prepare"}
               /\ k.at = "prepare" =>
                     /\ radio.mem.auto /\ k.cursor = [radio.mem EXCEPT !.cursor = @ + 1]
                     /\ FinishBegun(f, r) = f
               /\ Stage(k) \in {"end", "resume", "prepare"}
               /\ k.at = "mark" /\ Clocked(f, r) => ~radio.mem.auto
  <1> DEFINE k == [Idle EXCEPT !.on = "finishFailed"]
             p == [k EXCEPT !.at = "prepare", !.cursor = [radio.mem EXCEPT !.cursor = @ + 1]]
             s == Stopping(k, f, TRUE, "resume")
             e == Stopping(Idle, f, FALSE, "end")
  <1>1. 0 \in Nat
    OBVIOUS
  <1>2. Idle \in CallRecord(0) /\ k \in CallRecord(0)
    <2>1. Idle \in CallRecord(0)
      BY <1>1, IdleType DEF Call
    <2> QED BY <2>1 DEF CallRecord, Outcomes
  <1>3. p.at = "prepare" /\ p.cursor = [radio.mem EXCEPT !.cursor = @ + 1]
    BY DEF Idle
  <1>4. "end" \notin OfCue /\ "resume" \notin OfCue /\ "prepare" \notin OfCue \cup Cutting
    BY LinesApart
  <1> HIDE DEF k, p
  <1>5. Fits(c, p, g, pointer) /\ Busy(p) /\ Stage(p) = "prepare"
    BY <1>3, <1>4, LinesApart DEF Fits, StopFits, CueFits, Busy, Claimless, Stage
  <1>6. Fits(c, s, g, pointer) /\ Busy(s) /\ s.at = "mark" /\ Stage(s) = "resume"
    <2> DEFINE keep == TRUE
    <2> HIDE DEF keep
    <2>1. LET u == Stopping(k, f, keep, "resume")
          IN  Fits(c, u, g, pointer) /\ Busy(u) /\ u.at = "mark" /\ Stage(u) = "resume"
      BY <1>2, <1>4, StoppingFits
    <2> QED BY <2>1 DEF keep
  <1>7. Fits(c, e, g, pointer) /\ Busy(e) /\ e.at = "mark" /\ Stage(e) = "end"
    <2> DEFINE keep == FALSE
    <2> HIDE DEF keep
    <2>1. LET u == Stopping(Idle, f, keep, "end")
          IN  Fits(c, u, g, pointer) /\ Busy(u) /\ u.at = "mark" /\ Stage(u) = "end"
      BY <1>2, <1>4, StoppingFits
    <2> QED BY <2>1 DEF keep
  <1>8. \/ ~Clocked(f, r) /\ Finishing(Idle, f, r) = e
        \/ /\ Clocked(f, r) /\ radio.mem.auto
           /\ Finishing(Idle, f, r) = p /\ FinishBegun(f, r) = f
        \/ Clocked(f, r) /\ ~radio.mem.auto /\ Finishing(Idle, f, r) = s
    BY DEF Finishing, FinishBegun, k, p
  <1> HIDE DEF s, e
  <1> QED BY <1>3, <1>5, <1>6, <1>7, <1>8

\* A call that returns rests.
LEMMA ReturnedRests ==
    ASSUME NEW k
    PROVE  ~Busy(Returned(k)) /\ ~Busy(Idle) /\ \A due : ~Busy(ClaimNext(due))
  BY DEF Returned, ClaimNext, Busy, Claimless, Idle

\* An error ends the call, or has it stop the program.
LEMMA FailedFits ==
    ASSUME NEW n \in Nat, NEW k \in Call(n), NEW f, NEW g, g.owner = f.owner, NEW h, NEW p,
           NEW c, Busy(k), Fits(c, k, h, p)
    PROVE  LET j == Failed(k, f)
           IN  /\ Fits(c, j, g, pointer) /\ j.at \in Claimless \cup {"mark"}
               /\ Busy(j) <=> Recovers(k)
               /\ j.at = "mark" => Stage(j) = "end"
  <1> DEFINE e == [k EXCEPT !.on = "end"]
             b == FALSE
             s == Stopping(e, f, b, "end")
  <1>1. e \in CallRecord(n)
    BY DEF Call, CallRecord, Outcomes
  <1>2. c = "scheduler" => ~Recovers(k)
    BY DEF Fits, SchedulerFits
  <1>3. Failed(k, f) = IF Recovers(k) THEN s ELSE Returned(k)
    BY DEF Failed
  <1>4. "end" \notin OfCue
    BY LinesApart
  <1> HIDE DEF e, b
  <1>5. c # "scheduler" => Fits(c, s, g, pointer) /\ Busy(s) /\ s.at = "mark" /\ Stage(s) = "end"
    BY <1>1, <1>4, StoppingFits
  <1>6. ~Busy(Returned(k)) /\ Fits(c, Returned(k), g, pointer)
    BY ReturnedRests, RestFits
  <1> HIDE DEF s
  <1>7. Returned(k).at \in Claimless /\ Returned(k).at # "mark"
    BY <1>6 DEF Busy, Claimless
  <1> QED BY <1>2, <1>3, <1>5, <1>6, <1>7

--------------------------------------------------------------------------------
\* The song a block waits for, and the rows that are marked

\* The song that the runtime in the map waits for is the one the engine believes in,
\* and its end is still to come.
WaitInv ==
    LET r == flight.owner
        n == radio.active
    IN  r # 0 /\ flight.rts[r].waiting =>
           /\ n \in 1..Len(radio.aired)
           /\ radio.aired[n] = [rt |-> r, pos |-> flight.rts[r].index]
           /\ radio.onAir = n \/ n \in radio.ended

\* A stop that has marked its row, and a call that has not yet marked the row of what
\* it launched.
Ends(k) == k.at \in {"cut", "cutting", "cutDone"} /\ k.then \notin OfCue
Unmarked(k) == Ends(k) \/ k.at = "persist"

\* A row is marked as running exactly if its runtime is in the map, but for these.
MarkInv ==
    /\ \A l \in Logs : logs[l].running =>
          flight.owner # 0 /\ flight.rts[flight.owner].log = l
    /\ flight.owner # 0 /\ (\A c \in Callers : ~Unmarked(calls[c])) =>
          logs[flight.rts[flight.owner].log].running
    /\ \A c \in Callers : Ends(calls[c]) => \A l \in Logs : ~logs[l].running

BlockInv == AloneInv /\ WaitInv /\ MarkInv

LEMMA RestsWait ==
    ASSUME Rests(flight')
    PROVE  WaitInv'
  BY DEF Rests, WaitInv

LEMMA MarksGone ==
    ASSUME \A l \in Logs : ~logs'[l].running,
           flight'.owner = 0 \/ \E c \in Callers : Unmarked(calls'[c])
    PROVE  MarkInv'
  BY DEF MarkInv

\* The rows of what is in the map stay marked as they are.
MarksSame == /\ \A l \in Logs : logs'[l].running = logs[l].running
             /\ flight'.owner = flight.owner
             /\ flight.owner # 0 => flight'.rts[flight.owner].log = flight.rts[flight.owner].log
LEMMA MarksStay ==
    ASSUME TypeInv, MarkInv, MarksSame,
           \A c \in Callers : (Ends(calls'[c]) <=> Ends(calls[c]))
                              /\ (Unmarked(calls'[c]) <=> Unmarked(calls[c]))
    PROVE  MarkInv'
  <1>1. flight.owner # 0 => flight.rts[flight.owner].log \in Logs
    BY Typed, LogsOf
  <1> QED BY <1>1 DEF MarkInv, MarksSame

LEMMA MarksGo ==
    ASSUME TypeInv, MarkInv, MarksSame, NEW c \in Callers, NEW k, Go(c, k),
           Ends(k) <=> Ends(calls[c]), Unmarked(k) <=> Unmarked(calls[c])
    PROVE  MarkInv'
  <1>1. calls'[c] = k /\ \A d \in Callers \ {c} : calls'[d] = calls[d]
    BY Typed DEF Go
  <1> QED BY <1>1, MarksStay

\* Calls at rest have no part in it.
LEMMA RestUnmarked ==
    ASSUME NEW k, ~Busy(k)
    PROVE  ~Ends(k) /\ ~Unmarked(k)
  BY DEF Ends, Unmarked, Busy, Claimless

LEMMA LighterMarks ==
    ASSUME TypeInv, Lighter(flight, flight'), UNCHANGED logs
    PROVE  MarksSame
  <1>1. flight.owner # 0 => flight.owner \in 1..Len(flight.rts)
    BY Typed
  <1> QED BY <1>1 DEF Lighter, MarksSame

LEMMA NoneMarked ==
    ASSUME MarkInv, flight.owner = 0 \/ \E c \in Callers : Ends(calls[c])
    PROVE  \A l \in Logs : ~logs[l].running
  BY DEF MarkInv

\* A call under way goes on: what is left to show of the memory, the call and the rows.
LEMMA BlockGoes ==
    ASSUME TypeInv, BlockInv, NEW c \in Callers, Busy(calls[c]), NEW k, Go(c, k),
           Fits(c, k, flight', pointer'), Owned(flight', pointer'), Idles(flight'), MarkInv'
    PROVE  BlockInv'
  <1>1. AloneInv'
    BY AloneGoes, AloneFacts, IdlesApart DEF BlockInv
  <1> QED BY <1>1, RestsWait DEF BlockInv, Idles

--------------------------------------------------------------------------------
\* The calls that go on of themselves

\* A stop is nobody's but of a block or of a cue.
LEMMA StopFacts ==
    ASSUME TypeInv, OrderInv, BlockInv, NEW c \in Callers, calls[c].at \in Cutting
    PROVE  /\ Busy(calls[c]) /\ c # "scheduler" /\ Stage(calls[c]) = calls[c].then
           /\ calls[c].then \in Ending \cup OfCue
           /\ calls[c] \in Call(Len(flight.rts)) /\ calls[c] \in CallRecord(Len(flight.rts))
           /\ Len(flight.rts) \in Nat /\ Fits(c, calls[c], flight, pointer)
           /\ Idles(flight) /\ Owned(flight, pointer)
  <1>1. Busy(calls[c]) /\ Stage(calls[c]) = calls[c].then
    BY DEF Busy, Claimless, Cutting, Stage
  <1>2. Fits(c, calls[c], flight, pointer) /\ Idles(flight) /\ Owned(flight, pointer)
    BY <1>1, AloneFacts DEF BlockInv
  <1>3. c # "scheduler"
    BY <1>2 DEF Fits, SchedulerFits, Cutting, Claimless, Launches, Announces
  <1>4. calls[c].then \in Ending \cup OfCue
    BY <1>1, <1>3, OrderFacts DEF InLine
  <1> QED BY <1>1, <1>2, <1>3, <1>4, Typed

\* One step further in a stop.
LEMMA CutFits ==
    ASSUME NEW n, NEW k \in CallRecord(n), k.at \in Cutting, NEW c, c # "scheduler", NEW f, NEW p,
           Fits(c, k, f, p), NEW at \in {"cut", "cutting", "cutDone"}
    PROVE  LET j == [k EXCEPT !.at = at]
           IN  /\ Fits(c, j, f, p) /\ j.at = at /\ j.then = k.then
               /\ (Ends(j) <=> k.then \notin OfCue) /\ (Unmarked(j) <=> k.then \notin OfCue)
  <1> DEFINE j == [k EXCEPT !.at = at]
  <1>1. /\ j.at = at /\ j.then = k.then /\ j.held = k.held /\ j.target = k.target /\ j.on = k.on
        /\ j.items = k.items /\ j.rt = k.rt
    BY DEF CallRecord
  <1> HIDE DEF j
  <1>2. Stage(j) = k.then /\ Stage(k) = k.then
    BY <1>1 DEF Stage, Cutting
  <1>3. Fits(c, j, f, p)
    BY <1>1, <1>2 DEF Fits, StopFits, CueFits, Cutting
  <1> QED BY <1>1, <1>3 DEF Ends, Unmarked, j

LEMMA StopMarksKeepsBlock ==
    ASSUME TypeInv, OrderInv, BlockInv, NEW c \in Callers, StopMarks(c)
    PROVE  BlockInv'
  <1> DEFINE k  == [calls[c] EXCEPT !.at = "cut"]
             at == "cut"
  <1>1. calls[c].at = "mark" /\ calls[c].at \in Cutting /\ at \in {"cut", "cutting", "cutDone"}
    BY DEF StopMarks, Cutting
  <1>2. /\ Busy(calls[c]) /\ c # "scheduler" /\ Fits(c, calls[c], flight, pointer)
        /\ calls[c] \in CallRecord(Len(flight.rts)) /\ Idles(flight) /\ Owned(flight, pointer)
    BY <1>1, StopFacts
  <1>3. calls[c].then \notin OfCue /\ (flight.owner # 0 => calls[c].target = pointer)
    BY <1>1, <1>2 DEF Fits, StopFits, Cutting
  <1>4. Go(c, k) /\ UNCHANGED <<flight, pointer>>
    BY DEF StopMarks
  <1>5. Fits(c, k, flight, pointer) /\ Ends(k)
    <2>1. k = [calls[c] EXCEPT !.at = at]
      OBVIOUS
    <2> HIDE DEF k, at
    <2> QED BY <1>1, <1>2, <1>3, <2>1, CutFits
  <1>6. \A l \in Logs : ~logs'[l].running
    <2>1. \A l \in Logs : logs[l].running => flight.owner # 0 /\ l = pointer
      BY <1>2 DEF BlockInv, MarkInv, Owned
    <2>2. calls[c].target \in Logs \cup {None} /\ logs \in [Logs -> Row] /\ None \notin Logs
      BY <1>2, Typed, FlightAssumption DEF CallRecord
    <2>3. CASE calls[c].target = None
      BY <1>3, <2>1, <2>2, <2>3 DEF StopMarks
    <2>4. CASE calls[c].target # None
      <3>1. logs' = [logs EXCEPT ![calls[c].target].running = FALSE]
        BY <2>4 DEF StopMarks
      <3>2. \A l \in Logs : logs'[l].running => logs[l].running /\ l # calls[c].target
        BY <2>2, <2>4, <3>1 DEF Row
      <3> QED BY <1>3, <2>1, <3>2
    <2> QED BY <2>3, <2>4
  <1>7. MarkInv'
    <2>1. calls'[c] = k
      BY <1>4, Typed DEF Go
    <2> QED BY <1>5, <1>6, <2>1, MarksGone DEF Unmarked
  <1> HIDE DEF k
  <1> QED BY <1>2, <1>4, <1>5, <1>7, BlockGoes

LEMMA StopCutsKeepsBlock ==
    ASSUME TypeInv, OrderInv, BlockInv, NEW c \in Callers, StopCuts(c) \/ StopForwards(c)
    PROVE  BlockInv'
  <1>1. PICK at \in {"cutting", "cutDone"} : Go(c, [calls[c] EXCEPT !.at = at])
    BY DEF StopCuts, StopForwards
  <1> DEFINE k == [calls[c] EXCEPT !.at = at]
  <1>2. /\ calls[c].at \in {"cut", "cutting"} /\ calls[c].at \in Cutting
        /\ UNCHANGED <<flight, pointer, logs>>
    BY DEF StopCuts, StopForwards, Cutting
  <1>3. /\ Busy(calls[c]) /\ c # "scheduler" /\ Fits(c, calls[c], flight, pointer)
        /\ calls[c] \in CallRecord(Len(flight.rts)) /\ Idles(flight) /\ Owned(flight, pointer)
    BY <1>2, StopFacts
  <1>4. /\ Fits(c, k, flight, pointer) /\ (Ends(k) <=> calls[c].then \notin OfCue)
        /\ (Unmarked(k) <=> calls[c].then \notin OfCue)
    BY <1>2, <1>3, CutFits
  <1>5. (Ends(calls[c]) <=> calls[c].then \notin OfCue)
        /\ (Unmarked(calls[c]) <=> calls[c].then \notin OfCue)
    BY <1>2 DEF Ends, Unmarked
  <1>6. MarksSame
    BY <1>2 DEF MarksSame
  <1> HIDE DEF k
  <1>7. MarkInv'
    BY <1>1, <1>4, <1>5, <1>6, MarksGo DEF BlockInv, k
  <1> QED BY <1>1, <1>2, <1>3, <1>4, <1>7, BlockGoes DEF k

\* What follows a stop.
LEMMA OnwardFits ==
    ASSUME NEW n, NEW k \in CallRecord(n), k.at \in Cutting, NEW c, c # "scheduler",
           NEW f, NEW g, NEW p, NEW q, Fits(c, k, f, p), k.then \in Ending \cup OfCue,
           k.then \in OfCue => g.owner = f.owner
    PROVE  LET j == Onward(k, k.then)
           IN  Fits(c, j, g, q) /\ ~Unmarked(j) /\ ~Ends(j)
  <1> DEFINE j == Onward(k, k.then)
  <1>1. CASE k.then = "end"
    <2>1. ~Busy(j)
      BY <1>1, ReturnedRests DEF Onward
    <2> QED BY <2>1, RestFits, RestUnmarked
  <1>2. CASE k.then # "end"
    <2>1. j = [k EXCEPT !.at = k.then]
      BY <1>2 DEF Onward
    <2>2. j.at = k.then /\ j.on = k.on /\ j.items = k.items /\ j.rt = k.rt /\ j.held = k.held
      BY <2>1 DEF CallRecord
    <2> HIDE DEF j
    <2>3. k.then \notin Cutting /\ k.then # "persist"
      BY LinesApart
    <2>4. Stage(j) = k.then /\ Stage(k) = k.then
      BY <2>2, <2>3 DEF Stage, Cutting
    <2>5. Fits(c, j, g, q)
      BY <2>2, <2>3, <2>4 DEF Fits, StopFits, CueFits
    <2>6. ~Unmarked(j) /\ ~Ends(j)
      BY <2>2, <2>3 DEF Unmarked, Ends, Cutting
    <2> QED BY <2>5, <2>6 DEF j
  <1> QED BY <1>1, <1>2

\* The runtime that was stopped leaves the map, if the stop was for a block.
LEMMA ReleasedBlock ==
    ASSUME TypeInv, OrderInv, BlockInv, NEW c \in Callers, calls[c].at \in {"cutting", "cutDone"}
    PROVE  LET f == Released(flight, calls[c].held)
           IN  /\ Idles(f) /\ IsMemory(f) /\ Held(f) /\ \A p : Owned(flight, p) => Owned(f, p)
               /\ calls[c].then \in OfCue => f = flight
               /\ calls[c].then \notin OfCue =>
                     f.owner = 0 /\ Ends(calls[c]) /\ \A l \in Logs : ~logs[l].running
  <1> DEFINE f == Released(flight, calls[c].held)
  <1>1. calls[c].at \in Cutting
    BY DEF Cutting
  <1>2. Fits(c, calls[c], flight, pointer) /\ Idles(flight)
    BY <1>1, StopFacts
  <1>3. CASE calls[c].then \in OfCue
    <2>1. calls[c].held = 0
      BY <1>1, <1>2, <1>3 DEF Fits, StopFits
    <2>2. f = flight
      BY <2>1 DEF Released
    <2> QED BY <1>2, <1>3, <2>2, OrderFacts
  <1>4. CASE calls[c].then \notin OfCue
    <2>1. calls[c].held = flight.owner
      BY <1>1, <1>2, <1>4 DEF Fits, StopFits
    <2>2. Ends(calls[c])
      BY <1>4 DEF Ends
    <2>3. \A l \in Logs : ~logs[l].running
      BY <2>2, NoneMarked DEF BlockInv
    <2>4. Idles(f) /\ f.owner = 0 /\ IsMemory(f) /\ Held(f)
      BY <1>2, <2>1, OrderFacts, ReleasedOwner
    <2> QED BY <1>4, <2>2, <2>3, <2>4 DEF Owned
  <1> QED BY <1>3, <1>4

LEMMA StopEndsKeepsBlock ==
    ASSUME TypeInv, OrderInv, BlockInv, NEW c \in Callers, StopEnds(c)
    PROVE  BlockInv'
  <1> DEFINE k == Onward(calls[c], calls[c].then)
  <1>1. calls[c].at \in {"cutting", "cutDone"} /\ calls[c].at \in Cutting
    BY DEF StopEnds, Cutting
  <1>2. /\ Busy(calls[c]) /\ c # "scheduler" /\ Fits(c, calls[c], flight, pointer)
        /\ calls[c] \in CallRecord(Len(flight.rts)) /\ calls[c].then \in Ending \cup OfCue
        /\ Owned(flight, pointer)
    BY <1>1, StopFacts
  <1>3. Go(c, k) /\ UNCHANGED <<pointer, logs>> /\ flight' = Released(flight, calls[c].held)
    BY DEF StopEnds
  <1>4. /\ Idles(flight') /\ Owned(flight', pointer)
        /\ calls[c].then \in OfCue => flight' = flight
        /\ calls[c].then \notin OfCue =>
              flight'.owner = 0 /\ Ends(calls[c]) /\ \A l \in Logs : ~logs[l].running
    BY <1>1, <1>2, <1>3, ReleasedBlock
  <1>5. Fits(c, k, flight', pointer) /\ ~Unmarked(k) /\ ~Ends(k)
    BY <1>1, <1>2, <1>4, OnwardFits
  <1> HIDE DEF k
  <1>6. MarkInv'
    <2>1. CASE calls[c].then \notin OfCue
      BY <1>3, <1>4, <2>1, MarksGone
    <2>2. CASE calls[c].then \in OfCue
      <3>1. ~Ends(calls[c]) /\ ~Unmarked(calls[c])
        BY <1>1, <2>2 DEF Ends, Unmarked
      <3>2. MarksSame
        BY <1>3, <1>4, <2>2 DEF MarksSame
      <3> QED BY <1>3, <1>5, <3>1, <3>2, MarksGo DEF BlockInv
    <2> QED BY <2>1, <2>2
  <1> QED BY <1>2, <1>3, <1>4, <1>5, <1>6, BlockGoes

LEMMA AtUnmarked ==
    ASSUME NEW k, k.at \notin {"cut", "cutting", "cutDone", "persist"}
    PROVE  ~Ends(k) /\ ~Unmarked(k)
  BY DEF Ends, Unmarked

\* An error ends what a call does, or has it stop the program.
LEMMA FailingBlock ==
    ASSUME TypeInv, BlockInv, NEW c \in Callers, Busy(calls[c]), NEW f, IsMemory(f), Held(f),
           Idles(f), Owned(f, pointer), NEW h, NEW p, Fits(c, calls[c], h, p),
           Go(c, Failed(calls[c], f)), UNCHANGED pointer,
           flight' = IF Recovers(calls[c]) THEN StopBegun(f) ELSE f, UNCHANGED logs,
           \/ f = flight /\ ~Ends(calls[c]) /\ ~Unmarked(calls[c])
           \/ f.owner = 0 /\ \A l \in Logs : ~logs[l].running
    PROVE  BlockInv'
  <1> DEFINE k == Failed(calls[c], f)
  <1>1. Lighter(f, flight')
    BY StopBegunLighter, LighterReflexive
  <1>2. Idles(flight') /\ Owned(flight', pointer) /\ flight'.owner = f.owner
    BY <1>1, LighterIdles DEF Lighter
  <1>3. Fits(c, k, flight', pointer) /\ k.at \in Claimless \cup {"mark"}
    BY <1>2, Typed, FailedFits
  <1>4. ~Ends(k) /\ ~Unmarked(k)
    BY <1>3, AtUnmarked DEF Claimless
  <1> HIDE DEF k
  <1>5. MarkInv'
    <2>1. CASE f.owner = 0 /\ \A l \in Logs : ~logs[l].running
      BY <1>2, <2>1, MarksGone
    <2>2. CASE f = flight /\ ~Ends(calls[c]) /\ ~Unmarked(calls[c])
      <3>1. MarksSame
        BY <1>1, <2>2, LighterMarks
      <3> QED BY <1>4, <2>2, <3>1, MarksGo DEF BlockInv, k
    <2> QED BY <2>1, <2>2
  <1> QED BY <1>2, <1>3, <1>5, BlockGoes DEF k

LEMMA StopFailsKeepsBlock ==
    ASSUME TypeInv, OrderInv, BlockInv, NEW c \in Callers, StopFails(c)
    PROVE  BlockInv'
  <1> DEFINE f == Released(flight, calls[c].held)
             k == Onward(calls[c], calls[c].then)
  <1>1. /\ calls[c].at \in {"cutting", "cutDone"} /\ calls[c].at \in Cutting
        /\ calls[c].at = "cutting" /\ UNCHANGED <<pointer, logs>>
    BY DEF StopFails, Cutting
  <1>2. /\ Busy(calls[c]) /\ c # "scheduler" /\ Fits(c, calls[c], flight, pointer)
        /\ calls[c] \in CallRecord(Len(flight.rts)) /\ calls[c].then \in Ending \cup OfCue
        /\ Owned(flight, pointer)
    BY <1>1, StopFacts
  <1>3. /\ \/ /\ flight' = IF Recovers(calls[c]) THEN StopBegun(f) ELSE f
              /\ Go(c, Failed(calls[c], f))
           \/ flight' = f /\ Go(c, k)
    BY DEF StopFails
  <1>4. /\ Idles(f) /\ IsMemory(f) /\ Held(f) /\ Owned(f, pointer)
        /\ calls[c].then \in OfCue => f = flight
        /\ calls[c].then \notin OfCue =>
              f.owner = 0 /\ Ends(calls[c]) /\ \A l \in Logs : ~logs[l].running
    BY <1>1, <1>2, ReleasedBlock
  <1>5. calls[c].then \in OfCue => ~Ends(calls[c]) /\ ~Unmarked(calls[c])
    BY <1>1 DEF Ends, Unmarked
  <1> HIDE DEF f
  <1>6. Fits(c, k, f, pointer) /\ ~Unmarked(k) /\ ~Ends(k)
    BY <1>1, <1>2, <1>4, OnwardFits
  <1>7. CASE flight' = f /\ Go(c, k)
    <2> HIDE DEF k
    <2>1. MarkInv'
      <3>1. CASE calls[c].then \notin OfCue
        BY <1>1, <1>4, <1>7, <3>1, MarksGone
      <3>2. CASE calls[c].then \in OfCue
        <4>1. MarksSame
          BY <1>1, <1>4, <1>7, <3>2 DEF MarksSame
        <4> QED BY <1>5, <1>6, <1>7, <3>2, <4>1, MarksGo DEF BlockInv
      <3> QED BY <3>1, <3>2
    <2> QED BY <1>1, <1>2, <1>4, <1>6, <1>7, <2>1, BlockGoes
  <1>8. CASE /\ flight' = IF Recovers(calls[c]) THEN StopBegun(f) ELSE f
             /\ Go(c, Failed(calls[c], f))
    BY <1>1, <1>2, <1>4, <1>5, <1>8, FailingBlock
  <1> QED BY <1>3, <1>7, <1>8

\* A call that fails at a stage without a mark.
LEMMA FailsKeepsBlock ==
    ASSUME TypeInv, OrderInv, BlockInv, NEW c \in Callers, Busy(calls[c]), Fails(c),
           calls[c].at \notin {"cut", "cutting", "cutDone", "persist"}, UNCHANGED <<pointer, logs>>
    PROVE  BlockInv'
  <1>1. Idles(flight) /\ Owned(flight, pointer) /\ Fits(c, calls[c], flight, pointer)
    BY AloneFacts DEF BlockInv
  <1>2. IsMemory(flight) /\ Held(flight)
    BY OrderFacts
  <1>3. ~Ends(calls[c]) /\ ~Unmarked(calls[c])
    BY AtUnmarked
  <1>4. /\ flight' = IF Recovers(calls[c]) THEN StopBegun(flight) ELSE flight
        /\ Go(c, Failed(calls[c], flight))
    BY DEF Fails
  <1> QED BY <1>1, <1>2, <1>3, <1>4, FailingBlock

\* finishBlock of a clocked log.
LEMMA CompletesKeepsBlock ==
    ASSUME TypeInv, OrderInv, BlockInv, NEW c \in Callers, Completes(c) \/ PrepareFails(c)
    PROVE  BlockInv'
  <1>1. /\ calls[c].at \in {"prepare", "prepared", "resume"} /\ UNCHANGED <<pointer, logs>>
        /\ Busy(calls[c])
    BY DEF Completes, Prepares, Prepared, Resumes, PrepareFails, Busy, Claimless
  <1>2. Idles(flight) /\ Owned(flight, pointer) /\ Fits(c, calls[c], flight, pointer)
    BY <1>1, AloneFacts DEF BlockInv
  <1>3. /\ IsMemory(flight) /\ Held(flight) /\ calls[c] \in CallRecord(Len(flight.rts))
    BY OrderFacts, Typed
  <1>4. c # "scheduler"
    BY <1>1, <1>2 DEF Fits, SchedulerFits, Claimless, Launches, Announces
  <1>5. ~Ends(calls[c]) /\ ~Unmarked(calls[c])
    BY <1>1, AtUnmarked
  <1>6. ASSUME NEW k, Go(c, k), Fits(c, k, flight', pointer), Lighter(flight, flight'),
               k.at \notin {"cut", "cutting", "cutDone", "persist"}
        PROVE  BlockInv'
    <2>1. Idles(flight') /\ Owned(flight', pointer)
      BY <1>2, <1>3, <1>6, LighterIdles
    <2>2. ~Ends(k) /\ ~Unmarked(k)
      BY <1>6, AtUnmarked
    <2>3. MarksSame
      BY <1>1, <1>6, LighterMarks
    <2>4. MarkInv'
      BY <1>5, <1>6, <2>2, <2>3, MarksGo DEF BlockInv
    <2> QED BY <1>1, <1>6, <2>1, <2>4, BlockGoes
  <1>7. CASE PrepareFails(c)
    BY <1>1, <1>7, FailsKeepsBlock DEF PrepareFails
  <1>8. CASE Prepares(c)
    <2> DEFINE k == [calls[c] EXCEPT !.at = "prepared"]
    <2>1. Go(c, k) /\ UNCHANGED flight
      BY <1>8 DEF Prepares
    <2>2. k.at = "prepared"
      BY <1>3 DEF CallRecord
    <2> HIDE DEF k
    <2>3. Fits(c, k, flight, pointer)
      BY <1>4, <2>2 DEF Fits, StopFits, CueFits, Stage, Cutting, OfCue
    <2> QED BY <1>6, <2>1, <2>2, <2>3, LighterReflexive
  <1>9. CASE Prepared(c)
    <2> DEFINE keep == TRUE
               then == "resume"
               k    == Stopping(calls[c], flight, keep, then)
    <2>1. Go(c, k) /\ flight' = StopBegun(flight)
      BY <1>9 DEF Prepared
    <2>2. then \notin OfCue
      BY DEF OfCue
    <2> HIDE DEF then, keep
    <2>3. Lighter(flight, flight')
      BY <1>3, <2>1, StopBegunLighter
    <2>4. flight'.owner = flight.owner
      BY <2>3 DEF Lighter
    <2>5. Fits(c, k, flight', pointer) /\ k.at = "mark"
      BY <1>3, <1>4, <2>2, <2>4, StoppingFits
    <2> HIDE DEF k
    <2> QED BY <1>6, <2>1, <2>3, <2>5
  <1>10. CASE Resumes(c)
    <2> DEFINE k == Returned(calls[c])
    <2>1. Go(c, k) /\ UNCHANGED flight
      BY <1>10 DEF Resumes
    <2>2. ~Busy(k)
      BY ReturnedRests
    <2> HIDE DEF k
    <2>3. Fits(c, k, flight, pointer) /\ k.at \notin {"cut", "cutting", "cutDone", "persist"}
      BY <2>2, RestFits DEF Busy, Claimless
    <2> QED BY <1>6, <2>1, <2>3, LighterReflexive
  <1> QED BY <1>7, <1>8, <1>9, <1>10 DEF Completes

--------------------------------------------------------------------------------
\* The scheduler's start

LEMMA SchedulerFacts ==
    ASSUME TypeInv, OrderInv, BlockInv, NEW c \in Callers, calls[c].at \in Launches \cup Announces
    PROVE  /\ c = "scheduler" /\ Busy(calls[c]) /\ Idles(flight) /\ Owned(flight, pointer)
           /\ SchedulerFits(calls[c], flight, pointer) /\ ~Recovers(calls[c])
           /\ calls[c] \in CallRecord(Len(flight.rts)) /\ calls[c] \in Call(Len(flight.rts))
           /\ IsMemory(flight) /\ Held(flight) /\ Stage(calls[c]) = calls[c].at
           /\ InLine(c, calls[c], logs, pointer)
           /\ \A d \in Callers \ {c} : ~Busy(calls[d])
  <1>1. calls[c].at \notin Cutting \cup Ending \cup OfCue
    BY LinesApart DEF Launches, Announces
  <1>2. Busy(calls[c])
    BY DEF Busy, Claimless, Launches, Announces
  <1>3. /\ c = "scheduler" /\ Stage(calls[c]) = calls[c].at /\ InLine(c, calls[c], logs, pointer)
    BY <1>1, SchedulerOnly
  <1>4. /\ Idles(flight) /\ Owned(flight, pointer) /\ Fits(c, calls[c], flight, pointer)
        /\ \A d \in Callers \ {c} : ~Busy(calls[d])
    BY <1>2, AloneFacts DEF BlockInv
  <1>5. SchedulerFits(calls[c], flight, pointer) /\ ~Recovers(calls[c])
    BY <1>2, <1>3, <1>4 DEF Fits, SchedulerFits
  <1> QED BY <1>2, <1>3, <1>4, <1>5, OrderFacts, Typed

LEMMA SchedulerGoes ==
    ASSUME NEW j, NEW c, NEW f, NEW p, j.at \in Launches \cup Announces, SchedulerFits(j, f, p)
    PROVE  Fits(c, j, f, p) /\ Busy(j) /\ ~Ends(j)
  <1>1. j.at \notin Cutting \cup OfCue
    BY LinesApart DEF Launches, Announces
  <1>2. Stage(j) = j.at
    BY <1>1 DEF Stage, Cutting
  <1>3. Busy(j) /\ ~Ends(j)
    BY <1>1 DEF Busy, Claimless, Launches, Announces, Ends, Cutting
  <1>4. j.at # "after"
    BY DEF Launches, Announces
  <1> QED BY <1>1, <1>2, <1>3, <1>4 DEF Fits, StopFits, CueFits

\* One step before the launch.
LEMMA LaunchesGo ==
    ASSUME TypeInv, OrderInv, BlockInv, NEW c \in Callers, calls[c].at \in Launches, NEW k,
           k.at \in Launches, Go(c, k), ~Recovers(k), k.at = "starting" => k.log = pointer',
           k.at = "activating" => k.snap.sched # Unclocked,
           flight'.owner = 0, Idles(flight'),
           \A l \in Logs : logs'[l].running => logs[l].running
    PROVE  BlockInv'
  <1>1. flight.owner = 0 /\ Busy(calls[c])
    BY SchedulerFacts DEF SchedulerFits
  <1>2. SchedulerFits(k, flight', pointer')
    BY DEF SchedulerFits, Launches, Announces
  <1>3. Fits(c, k, flight', pointer')
    BY <1>2, SchedulerGoes
  <1>4. MarkInv'
    <2>1. \A l \in Logs : ~logs'[l].running
      BY <1>1, NoneMarked DEF BlockInv
    <2> QED BY <2>1, MarksGone
  <1> QED BY <1>1, <1>3, <1>4, BlockGoes DEF Owned

LEMMA StartReadsKeepsBlock ==
    ASSUME TypeInv, OrderInv, BlockInv, NEW c \in Callers, StartReads(c)
    PROVE  BlockInv'
  <1>1. /\ calls[c].at \in Launches \cup Announces /\ calls[c].at = "start"
        /\ calls[c].at \in Launches /\ UNCHANGED <<pointer, logs>>
    BY DEF StartReads, Launches
  <1>2. /\ Busy(calls[c]) /\ Idles(flight) /\ ~Recovers(calls[c]) /\ flight.owner = 0
        /\ calls[c] \in CallRecord(Len(flight.rts))
    BY <1>1, SchedulerFacts DEF SchedulerFits
  <1>3. CASE Fails(c)
    BY <1>1, <1>2, <1>3, FailsKeepsBlock
  <1>4. CASE ~Fails(c)
    <2> DEFINE k == [calls[c] EXCEPT !.at = "starting", !.log = pointer, !.snap = logs[pointer]]
    <2>1. Go(c, k) /\ UNCHANGED flight
      BY <1>4 DEF StartReads
    <2>2. k.at = "starting" /\ k.log = pointer /\ k.on = calls[c].on
      BY <1>2 DEF CallRecord
    <2> HIDE DEF k
    <2>3. ~Recovers(k) /\ k.at \in Launches
      BY <1>2, <2>2 DEF Recovers, Launches
    <2> QED BY <1>1, <1>2, <2>1, <2>2, <2>3, LaunchesGo
  <1> QED BY <1>3, <1>4

LEMMA ActivateReadsKeepsBlock ==
    ASSUME TypeInv, OrderInv, BlockInv, NEW c \in Callers, ActivateReads(c)
    PROVE  BlockInv'
  <1>1. /\ calls[c].at \in Launches \cup Announces /\ calls[c].at = "activate"
        /\ calls[c].at \in Launches /\ UNCHANGED <<pointer, logs>>
    BY DEF ActivateReads, Launches
  <1>2. /\ Busy(calls[c]) /\ Idles(flight) /\ ~Recovers(calls[c]) /\ flight.owner = 0
        /\ calls[c] \in CallRecord(Len(flight.rts)) /\ Stage(calls[c]) = "activate"
        /\ InLine(c, calls[c], logs, pointer)
    BY <1>1, SchedulerFacts DEF SchedulerFits
  <1>3. CASE Fails(c)
    BY <1>1, <1>2, <1>3, FailsKeepsBlock
  <1>4. CASE ~Fails(c)
    <2> DEFINE row == logs[calls[c].log]
               k == [calls[c] EXCEPT !.at = "activating", !.snap = row]
    <2>1. Go(c, k) /\ UNCHANGED flight
      BY <1>4 DEF ActivateReads
    <2>2. row.sched # Unclocked
      BY <1>2 DEF InLine, Activating
    <2> HIDE DEF row
    <2>3. k.at = "activating" /\ k.snap = row /\ k.on = calls[c].on
      BY <1>2 DEF CallRecord
    <2> HIDE DEF k
    <2>4. ~Recovers(k) /\ k.at \in Launches
      BY <1>2, <2>3 DEF Recovers, Launches
    <2> QED BY <1>1, <1>2, <2>1, <2>2, <2>3, <2>4, LaunchesGo
  <1> QED BY <1>3, <1>4

LEMMA PointKeepsBlock ==
    ASSUME TypeInv, OrderInv, BlockInv, NEW c \in Callers, Point(c),
           calls[c].at = "activating", UNCHANGED logs
    PROVE  BlockInv'
  <1> DEFINE k == [calls[c] EXCEPT !.at = "unmark"]
  <1>1. Go(c, k) /\ flight' = Unmapped(flight)
    BY DEF Point
  <1>2. calls[c].at \in Launches /\ calls[c].at \in Launches \cup Announces
    BY DEF Launches
  <1>3. /\ Busy(calls[c]) /\ Idles(flight) /\ ~Recovers(calls[c]) /\ IsMemory(flight)
        /\ calls[c] \in CallRecord(Len(flight.rts))
    BY <1>2, SchedulerFacts
  <1>4. k.at = "unmark" /\ k.on = calls[c].on
    BY <1>3 DEF CallRecord
  <1> HIDE DEF k
  <1>5. ~Recovers(k) /\ k.at \in Launches
    BY <1>3, <1>4 DEF Recovers, Launches
  <1>6. flight'.owner = 0 /\ Idles(flight')
    <2>1. /\ flight'.owner = 0 /\ flight'.timers = flight.timers /\ flight'.lock = flight.lock
      BY <1>1, <1>3 DEF Unmapped, IsMemory, Memory
    <2> QED BY <1>3, <2>1 DEF Idles, Rests
  <1> QED BY <1>1, <1>2, <1>4, <1>5, <1>6, LaunchesGo

LEMMA ActivateChecksKeepsBlock ==
    ASSUME TypeInv, OrderInv, BlockInv, NEW c \in Callers, ActivateChecks(c)
    PROVE  BlockInv'
  <1>1. /\ calls[c].at \in Launches \cup Announces /\ calls[c].at = "activating" /\ UNCHANGED logs
    BY DEF ActivateChecks, Launches
  <1>2. /\ Busy(calls[c]) /\ flight.owner = 0 /\ calls[c].snap.sched # Unclocked
    BY <1>1, SchedulerFacts DEF SchedulerFits, Launches
  <1>3. CASE Fails(c) /\ UNCHANGED pointer
    BY <1>1, <1>2, <1>3, FailsKeepsBlock
  <1>4. CASE Point(c)
    BY <1>1, <1>4, PointKeepsBlock
  <1> QED BY <1>2, <1>3, <1>4 DEF ActivateChecks

LEMMA ActivateUnmarksKeepsBlock ==
    ASSUME TypeInv, OrderInv, BlockInv, NEW c \in Callers, ActivateUnmarks(c)
    PROVE  BlockInv'
  <1> DEFINE k == [calls[c] EXCEPT !.at = "start"]
  <1>1. /\ calls[c].at \in Launches \cup Announces /\ calls[c].at = "unmark"
        /\ calls[c].at \in Launches /\ UNCHANGED <<pointer, flight>>
    BY DEF ActivateUnmarks, Launches
  <1>2. /\ c = "scheduler" /\ Idles(flight) /\ ~Recovers(calls[c]) /\ flight.owner = 0
        /\ calls[c] \in CallRecord(Len(flight.rts)) /\ Stage(calls[c]) = "unmark"
        /\ calls[c] \in Call(Len(flight.rts))
    BY <1>1, SchedulerFacts DEF SchedulerFits
  <1>3. Go(c, k)
    BY <1>2 DEF ActivateUnmarks
  <1>4. k.at = "start" /\ k.on = calls[c].on
    BY <1>2 DEF CallRecord
  <1> HIDE DEF k
  <1>5. ~Recovers(k) /\ k.at \in Launches
    BY <1>2, <1>4 DEF Recovers, Launches
  <1>6. \A l \in Logs : logs'[l].running => logs[l].running
    <2>1. logs' = [logs EXCEPT ![calls[c].log].running = FALSE] /\ logs \in [Logs -> Row]
      BY Typed DEF ActivateUnmarks
    <2> QED BY <2>1 DEF Row
  <1> QED BY <1>1, <1>2, <1>3, <1>4, <1>5, <1>6, LaunchesGo

\* A runtime is made, put in the map, and its row marked, or left to be.
LEMMA LaunchKeepsBlock ==
    ASSUME TypeInv, OrderInv, BlockInv, NEW c \in Callers, Launch(c),
           calls[c].at = "starting", UNCHANGED <<pointer, radio, playable, clock, claimed, left>>
    PROVE  BlockInv'
  <1> DEFINE n    == Len(flight.rts)
             N    == n + 1
             call == calls[c]
             row  == call.snap
             rt   == [log |-> call.log, items |-> row.items, loop |-> row.loop,
                      sched |-> row.sched, index |-> FirstIndex, running |-> TRUE, gen |-> 0,
                      timer |-> NoTimer, waiting |-> FALSE, clipAt |-> Unset]
             s    == Append(flight.rts, rt)
             mark == row.sched # Unclocked /\ ~row.started
             at   == IF mark THEN "persist" ELSE "announce"
             k    == [call EXCEPT !.at = at, !.rt = N]
  <1>1. calls[c].at \in Launches \cup Announces /\ "starting" \in Launches
    BY DEF Launches
  <1>2. /\ Busy(call) /\ Idles(flight) /\ ~Recovers(call) /\ flight.owner = 0
        /\ call.log = pointer
        /\ call \in CallRecord(n) /\ call \in Call(n) /\ n \in Nat /\ Stage(call) = "starting"
    BY <1>1, SchedulerFacts, Typed DEF SchedulerFits
  <1>3. flight.rts \in Seq(Run) /\ call.log \in Logs /\ logs \in [Logs -> Row]
    BY <1>2, Typed, MemoryParts DEF Call, OfLog
  <1>4. /\ flight' = [flight EXCEPT !.rts = s, !.owner = N] /\ Go(c, k)
        /\ logs' = IF mark THEN [logs EXCEPT ![call.log].started = TRUE]
                   ELSE [logs EXCEPT ![call.log].running = TRUE]
    BY DEF Launch
  <1>5. flight'.rts[N] = rt /\ flight'.owner = N
    <2> HIDE DEF rt
    <2>1. s[n + 1] = rt
      <3>1. flight.rts \in Seq(Run \cup {rt})
        BY <1>3, SeqMonotonic
      <3>2. rt \in Run \cup {rt}
        OBVIOUS
      <3> QED BY <3>1, <3>2, AppendProperties
    <2>2. flight'.rts = s /\ flight'.owner = N
      <3> HIDE DEF s, N
      <3> QED BY <1>4, Typed, MemoryParts
    <2> QED BY <2>1, <2>2
  <1>6. flight'.lock = flight.lock /\ flight'.timers = flight.timers
    <2> HIDE DEF s, N
    <2> QED BY <1>4, Typed, MemoryParts
  <1>7. rt.log = call.log /\ rt.running /\ ~rt.waiting
    OBVIOUS
  <1>8. k.at = at /\ k.rt = N /\ k.log = call.log /\ k.on = call.on
    <2> HIDE DEF at, N
    <2> QED BY <1>2 DEF CallRecord
  <1>9. at \in {"persist", "announce"} /\ (at = "persist" <=> mark)
    OBVIOUS
  <1> HIDE DEF rt, s, at, k, mark, N
  <1>10. Idles(flight')
    BY <1>2, <1>5, <1>6, <1>7 DEF Idles, Rests
  <1>11. Owned(flight', pointer')
    BY <1>2, <1>5, <1>7 DEF Owned
  <1>12. Fits(c, k, flight', pointer') /\ ~Ends(k)
    <2>1. k.at \in Announces /\ k.at \notin Launches
      BY <1>8, <1>9 DEF Announces, Launches
    <2>2. ~Recovers(k)
      BY <1>2, <1>8 DEF Recovers
    <2>3. SchedulerFits(k, flight', pointer')
      BY <1>5, <1>7, <1>8, <2>1, <2>2 DEF SchedulerFits, Launches
    <2> QED BY <2>1, <2>3, SchedulerGoes
  <1>13. calls'[c] = k /\ \A d \in Callers \ {c} : calls'[d] = calls[d] /\ ~Busy(calls[d])
    BY <1>1, <1>4, SchedulerFacts, Typed DEF Go
  <1>14. N # 0
    BY <1>2 DEF N
  <1>15. MarkInv'
    <2>1. \A l \in Logs : ~logs[l].running
      BY <1>2, NoneMarked DEF BlockInv
    <2>2. CASE mark
      <3>1. \A l \in Logs : ~logs'[l].running
        BY <1>3, <1>4, <2>1, <2>2 DEF Row
      <3>2. Unmarked(calls'[c])
        BY <1>8, <1>9, <1>13, <2>2 DEF Unmarked
      <3> QED BY <3>1, <3>2, MarksGone
    <2>3. CASE ~mark
      <3>1. \A l \in Logs : logs'[l].running <=> l = call.log
        BY <1>3, <1>4, <2>1, <2>3 DEF Row
      <3>2. \A d \in Callers : ~Ends(calls'[d])
        BY <1>12, <1>13, RestUnmarked
      <3> QED BY <1>3, <1>5, <1>7, <1>14, <3>1, <3>2 DEF MarkInv
    <2> QED BY <2>2, <2>3
  <1> QED BY <1>2, <1>4, <1>10, <1>11, <1>12, <1>15, BlockGoes

LEMMA StartChecksKeepsBlock ==
    ASSUME TypeInv, OrderInv, BlockInv, NEW c \in Callers, StartChecks(c)
    PROVE  BlockInv'
  <1>1. /\ calls[c].at \in Launches \cup Announces /\ calls[c].at = "starting"
        /\ calls[c].at \in Launches /\ UNCHANGED <<pointer, radio, playable, clock, claimed, left>>
    BY DEF StartChecks, Launches
  <1>2. /\ Busy(calls[c]) /\ flight.owner = 0 /\ InLine(c, calls[c], logs, pointer)
        /\ Stage(calls[c]) = "starting"
    BY <1>1, SchedulerFacts DEF SchedulerFits
  <1>3. calls[c].snap.sched # Unclocked
    BY <1>2, LinesApart DEF InLine
  <1>4. CASE Fails(c) /\ UNCHANGED logs
    BY <1>1, <1>2, <1>4, FailsKeepsBlock
  <1>5. CASE Launch(c)
    BY <1>1, <1>5, LaunchKeepsBlock
  <1> QED BY <1>2, <1>3, <1>4, <1>5 DEF StartChecks

\* The launched runtime is in the map.
LEMMA AnnouncesFacts ==
    ASSUME TypeInv, OrderInv, BlockInv, NEW c \in Callers, calls[c].at \in Announces
    PROVE  /\ flight.owner = calls[c].rt /\ flight.owner # 0 /\ flight.rts[flight.owner].running
           /\ flight.owner \in 1..Len(flight.rts) /\ pointer = flight.rts[flight.owner].log
           /\ calls[c].at = "persist" => calls[c].log = flight.rts[flight.owner].log
  <1>1. calls[c].at \in Launches \cup Announces
    OBVIOUS
  <1>2. /\ SchedulerFits(calls[c], flight, pointer) /\ Owned(flight, pointer)
        /\ Stage(calls[c]) = calls[c].at /\ calls[c] \in Call(Len(flight.rts))
        /\ flight.owner \in 0..Len(flight.rts) /\ Len(flight.rts) \in Nat
    BY <1>1, SchedulerFacts, Typed
  <1>3. calls[c].rt # 0
    BY <1>2 DEF Call, OfRuntime, Announces
  <1> QED BY <1>2, <1>3 DEF SchedulerFits, Owned

LEMMA StartPersistsKeepsBlock ==
    ASSUME TypeInv, OrderInv, BlockInv, NEW c \in Callers, StartPersists(c)
    PROVE  BlockInv'
  <1> DEFINE k == [calls[c] EXCEPT !.at = "announce"]
             l == calls[c].log
  <1>1. /\ calls[c].at \in Launches \cup Announces /\ calls[c].at = "persist"
        /\ calls[c].at \in Announces /\ UNCHANGED <<pointer, flight>> /\ Go(c, k)
    BY DEF StartPersists, Announces
  <1>2. /\ Busy(calls[c]) /\ Idles(flight) /\ ~Recovers(calls[c]) /\ Owned(flight, pointer)
        /\ calls[c] \in CallRecord(Len(flight.rts))
        /\ \A d \in Callers \ {c} : ~Busy(calls[d])
    BY <1>1, SchedulerFacts
  <1>3. /\ flight.owner = calls[c].rt /\ flight.owner # 0 /\ flight.rts[flight.owner].running
        /\ flight.owner \in 1..Len(flight.rts) /\ l = flight.rts[flight.owner].log
    BY <1>1, AnnouncesFacts
  <1>4. l \in Logs /\ logs \in [Logs -> Row] /\ logs' = [logs EXCEPT ![l].running = TRUE]
    <2>1. flight.rts[calls[c].rt].running = TRUE
      BY <1>3, Typed, MemoryParts DEF Run, Runtime
    <2> QED BY <1>3, <2>1, Typed, LogsOf DEF StartPersists
  <1>5. k.at = "announce" /\ k.rt = calls[c].rt /\ k.on = calls[c].on
    BY <1>2 DEF CallRecord
  <1> HIDE DEF k
  <1>6. Fits(c, k, flight, pointer) /\ ~Ends(k)
    <2>1. k.at \in Announces /\ k.at \notin Launches /\ ~Recovers(k)
      BY <1>2, <1>5 DEF Announces, Launches, Recovers
    <2>2. SchedulerFits(k, flight, pointer)
      BY <1>3, <1>5, <2>1 DEF SchedulerFits, Launches
    <2> QED BY <2>1, <2>2, SchedulerGoes
  <1>7. MarkInv'
    <2>1. \A d \in Callers : ~Ends(calls'[d])
      <3>1. calls'[c] = k /\ \A d \in Callers \ {c} : calls'[d] = calls[d]
        BY <1>1, Typed DEF Go
      <3> QED BY <1>2, <1>6, <3>1, RestUnmarked
    <2>2. \A m \in Logs : logs'[m].running <=> m = l \/ logs[m].running
      BY <1>4 DEF Row
    <2>3. \A m \in Logs : logs[m].running => m = l
      BY <1>3 DEF BlockInv, MarkInv
    <2> QED BY <1>1, <1>3, <1>4, <2>1, <2>2, <2>3 DEF MarkInv
  <1> QED BY <1>1, <1>2, <1>6, <1>7, BlockGoes

LEMMA StartAnnouncesKeepsBlock ==
    ASSUME TypeInv, OrderInv, BlockInv, NEW c \in Callers, StartAnnounces(c)
    PROVE  BlockInv'
  <1> DEFINE k == Returned(calls[c])
             r == calls[c].rt
             gen == flight.rts[r].gen
             one == 1
  <1>1. /\ calls[c].at \in Launches \cup Announces /\ calls[c].at = "announce"
        /\ calls[c].at \in Announces /\ UNCHANGED <<pointer, logs>> /\ Go(c, k)
        /\ flight' = Requested(flight, r, gen, one)
    BY DEF StartAnnounces, Announces
  <1>2. /\ Busy(calls[c]) /\ Idles(flight) /\ Owned(flight, pointer) /\ IsMemory(flight)
        /\ \A d \in Callers \ {c} : ~Busy(calls[d])
    BY <1>1, SchedulerFacts
  <1>3. flight.owner # 0
    BY <1>1, AnnouncesFacts
  <1>4. ~Busy(k)
    BY ReturnedRests
  <1> HIDE DEF k, r, gen, one
  <1>5. /\ Apart(flight') /\ flight'.owner = flight.owner /\ flight'.rts = flight.rts
        /\ Rests(flight')
    BY <1>1, <1>2, <1>3, RequestedApart
  <1>6. Owned(flight', pointer)
    BY <1>2, <1>5 DEF Owned
  <1>7. AloneInv'
    BY <1>1, <1>2, <1>4, <1>5, <1>6, RestFits, AloneGoes DEF BlockInv
  <1>8. MarkInv'
    <2>1. MarksSame
      BY <1>1, <1>5 DEF MarksSame
    <2>2. ~Ends(calls[c]) /\ ~Unmarked(calls[c]) /\ ~Ends(k) /\ ~Unmarked(k)
      BY <1>1, <1>4, RestUnmarked, AtUnmarked
    <2> QED BY <1>1, <2>1, <2>2, MarksGo DEF BlockInv
  <1> QED BY <1>5, <1>7, <1>8, RestsWait DEF BlockInv

LEMMA ProceedsKeepsBlock ==
    ASSUME TypeInv, OrderInv, BlockInv, NEW c \in Callers,
           Proceeds(c) \/ StopFails(c) \/ PrepareFails(c)
    PROVE  BlockInv'
  <1>1. CASE Stops(c)
    BY <1>1, StopMarksKeepsBlock, StopCutsKeepsBlock, StopEndsKeepsBlock DEF Stops
  <1>2. CASE Completes(c) \/ StopFails(c) \/ PrepareFails(c)
    BY <1>2, CompletesKeepsBlock, StopFailsKeepsBlock
  <1>3. CASE Starts(c)
    <2>1. ~StartLaunches(c)
      <3>1. SUFFICES ASSUME calls[c].at = "launch" PROVE FALSE
        BY DEF StartLaunches
      <3>2. calls[c].at \notin Cutting \cup Ending \cup OfCue
        BY <3>1, LinesApart
      <3>3. c = "scheduler"
        BY <3>2, SchedulerOnly
      <3> QED BY <3>1, <3>3 DEF BlockInv, AloneInv, Fits, SchedulerFits, Claimless, Launches,
                               Announces
    <2> QED BY <1>3, <2>1, StartReadsKeepsBlock, StartChecksKeepsBlock, StartPersistsKeepsBlock,
               StartAnnouncesKeepsBlock DEF Starts
  <1>4. CASE Manages(c)
    <2>1. ~ActivatePoints(c)
      <3>1. SUFFICES ASSUME calls[c].at = "point" PROVE FALSE
        BY DEF ActivatePoints
      <3>2. calls[c].at \notin Cutting \cup Ending \cup OfCue
        BY <3>1, LinesApart
      <3>3. c = "scheduler"
        BY <3>2, SchedulerOnly
      <3> QED BY <3>1, <3>3 DEF BlockInv, AloneInv, Fits, SchedulerFits, Claimless, Launches,
                               Announces
    <2> QED BY <1>4, <2>1, NoneManages, ActivateReadsKeepsBlock, ActivateChecksKeepsBlock,
               ActivateUnmarksKeepsBlock DEF Manages
  <1> QED BY <1>1, <1>2, <1>3, <1>4 DEF Proceeds

--------------------------------------------------------------------------------
\* Cues

\* Nobody is busy, and nothing moves that a row is about.
LEMMA RestingBlock ==
    ASSUME TypeInv, BlockInv, \A c \in Callers : ~Busy(calls[c]) /\ ~Busy(calls'[c]),
           Owned(flight', pointer'), Apart(flight'), MarksSame, WaitInv'
    PROVE  BlockInv'
  <1>1. MarkInv'
    BY RestUnmarked, MarksStay DEF BlockInv
  <1>2. AloneInv'
    <2>1. \A c \in Callers : Fits(c, calls'[c], flight', pointer')
      BY RestFits
    <2> QED BY <2>1 DEF AloneInv
  <1> QED BY <1>1, <1>2 DEF BlockInv

LEMMA NearMarks ==
    ASSUME TypeInv, NEW f, Near(flight, f), flight'.owner = f.owner,
           f.owner # 0 => flight'.rts[f.owner].log = f.rts[f.owner].log,
           \A l \in Logs : logs'[l].running = logs[l].running
    PROVE  MarksSame
  <1>1. flight.owner # 0 => flight.owner \in 1..Len(flight.rts)
    BY Typed
  <1> QED BY <1>1 DEF Near, MarksSame

\* The runtime in the map goes on with the cue that follows, or its block ends.
LEMMA BlockMoves ==
    ASSUME TypeInv, BlockInv, NEW c \in Callers, c # "scheduler", NEW S,
           NEW k \in [Callers -> S], \A d \in Callers : ~Busy(k[d]),
           \A d \in Callers : ~Ends(calls[d]) /\ ~Unmarked(calls[d]),
           NEW f, IsMemory(f), Held(f), Idles(f), Owned(f, pointer), f.owner # 0,
           Near(flight, f), flight' = MovedOn(f, f.owner),
           calls' = Spawned(k, c, f, f.owner), UNCHANGED <<pointer, logs>>
    PROVE  BlockInv'
  <1> DEFINE r == f.owner
             j == Finishing(Idle, f, r)
  <1>1. /\ Apart(flight') /\ flight'.owner = r /\ Rests(flight')
        /\ Finishes(f, r) => Idles(flight')
        /\ Owned(flight', pointer)
        /\ \A i \in 1..Len(f.rts) : flight'.rts[i].log = f.rts[i].log
    BY MovedOnApart
  <1>2. r \in 1..Len(f.rts)
    BY MemoryParts
  <1>3. MarksSame
    BY <1>1, <1>2, NearMarks
  <1>4. CASE ~Finishes(f, r)
    <2>1. calls' = k
      BY <1>4 DEF Spawned
    <2>2. MarkInv'
      BY <1>3, <2>1, RestUnmarked, MarksStay DEF BlockInv
    <2>3. \A d \in Callers : Fits(d, calls'[d], flight', pointer')
      BY <2>1, RestFits
    <2> QED BY <1>1, <2>1, <2>2, <2>3, RestsWait DEF BlockInv, AloneInv
  <1>5. CASE Finishes(f, r)
    <2>1. calls' = [k EXCEPT ![c] = j]
      BY <1>5 DEF Spawned
    <2>2. Fits(c, j, flight', pointer) /\ j.at \in {"mark", "prepare"}
      BY <1>1, FinishingFits
    <2> HIDE DEF j
    <2>3. calls'[c] = j /\ \A d \in Callers \ {c} : calls'[d] = k[d]
      BY <2>1
    <2>4. \A d \in Callers : ~Ends(calls'[d]) /\ ~Unmarked(calls'[d])
      BY <2>2, <2>3, AtUnmarked, RestUnmarked
    <2>5. MarkInv'
      BY <1>3, <2>4, MarksStay DEF BlockInv
    <2>6. AloneInv'
      BY <1>1, <1>5, <2>2, <2>3, AloneNext
    <2> QED BY <1>1, <2>5, <2>6, RestsWait DEF BlockInv
  <1> QED BY <1>4, <1>5

\* The request at the head of the queue waits alone.
LEMMA TurnFreeFacts ==
    ASSUME TypeInv, OrderInv, BlockInv, TurnFree
    PROVE  LET f == Taken(flight)
           IN  /\ \A c \in Callers : ~Busy(calls[c])
               /\ Idles(f) /\ f.owner = flight.owner /\ f.rts = flight.rts /\ IsMemory(f)
               /\ Held(f) /\ Owned(f, pointer) /\ flight.owner # 0 /\ Rests(f)
               /\ NextTurn.op = "cue" /\ IsMemory(flight) /\ Held(flight)
               /\ flight.owner \in 1..Len(flight.rts)
               /\ \A l \in Logs : logs[l].running <=> l = flight.rts[flight.owner].log
  <1>1. flight.lock # <<>>
    BY DEF TurnFree
  <1>2. \A c \in Callers : ~Busy(calls[c])
    BY <1>1 DEF BlockInv, AloneInv, Idles
  <1>3. Apart(flight) /\ Owned(flight, pointer) /\ flight.owner # 0
    BY <1>1 DEF BlockInv, AloneInv, Apart
  <1>4. IsMemory(flight) /\ Held(flight) /\ flight.owner \in 0..Len(flight.rts)
        /\ Len(flight.rts) \in Nat
    BY OrderFacts, Typed
  <1> DEFINE f == Taken(flight)
  <1>5. Idles(f) /\ f.owner = flight.owner /\ f.rts = flight.rts /\ IsMemory(f) /\ Held(f)
    BY <1>1, <1>3, <1>4, TakenIdles
  <1> HIDE DEF f
  <1>6. Owned(f, pointer) /\ Rests(f)
    BY <1>3, <1>5 DEF Owned, Idles
  <1>7. \A l \in Logs : logs[l].running <=> l = flight.rts[flight.owner].log
    <2>1. \A c \in Callers : ~Unmarked(calls[c])
      BY <1>2, RestUnmarked
    <2> QED BY <1>3, <2>1 DEF BlockInv, MarkInv
  <1> QED BY <1>2, <1>3, <1>4, <1>5, <1>6, <1>7, NextCueFacts DEF f

LEMMA CueDroppedKeepsBlock ==
    ASSUME TypeInv, OrderInv, BlockInv, CueDropped
    PROVE  BlockInv'
  <1>1. TurnFree /\ flight' = Taken(flight) /\ UNCHANGED <<logs, pointer, calls>>
    BY DEF CueDropped
  <1>2. /\ \A c \in Callers : ~Busy(calls[c])
        /\ Idles(flight') /\ flight'.owner = flight.owner /\ flight'.rts = flight.rts
        /\ Owned(flight', pointer) /\ Rests(flight')
    BY <1>1, TurnFreeFacts
  <1>3. MarksSame
    BY <1>1, <1>2 DEF MarksSame
  <1> QED BY <1>1, <1>2, <1>3, IdlesApart, RestsWait, RestingBlock

LEMMA CueOutOfRangeKeepsBlock ==
    ASSUME TypeInv, OrderInv, BlockInv, CueOutOfRange
    PROVE  BlockInv'
  <1> DEFINE f == Taken(flight)
             r == NextTurn.rt
             c == "turn"
             k == Finishing(Idle, flight, r)
  <1>1. TurnFree /\ flight' = FinishBegun(f, r) /\ Go(c, k) /\ UNCHANGED <<logs, pointer>>
    BY DEF CueOutOfRange
  <1>2. /\ \A d \in Callers : ~Busy(calls[d])
        /\ Idles(f) /\ f.owner = flight.owner /\ f.rts = flight.rts /\ IsMemory(f)
        /\ Held(f) /\ Owned(f, pointer)
    BY <1>1, TurnFreeFacts
  <1> HIDE DEF f
  <1>3. Lighter(f, flight')
    BY <1>1, <1>2, StopBegunLighter
  <1>4. Idles(flight') /\ Owned(flight', pointer) /\ flight'.owner = flight.owner
    BY <1>2, <1>3, LighterIdles DEF Lighter
  <1>5. c \in Callers /\ c # "scheduler"
    BY OrderFacts
  <1> HIDE DEF c
  <1>6. Fits(c, k, flight', pointer) /\ Busy(k) /\ k.at \in {"mark", "prepare"}
    BY <1>4, <1>5, FinishingFits
  <1> HIDE DEF k
  <1>7. MarksSame
    <2>1. flight.owner # 0 => flight.owner \in 1..Len(f.rts)
      BY <1>2, Typed
    <2> QED BY <1>1, <1>2, <1>3, <2>1 DEF MarksSame, Lighter
  <1>8. MarkInv'
    <2>1. ~Ends(k) /\ ~Unmarked(k) /\ ~Ends(calls[c]) /\ ~Unmarked(calls[c])
      BY <1>2, <1>5, <1>6, AtUnmarked, RestUnmarked
    <2> QED BY <1>1, <1>5, <1>7, <2>1, MarksGo DEF BlockInv
  <1>9. AloneInv'
    BY <1>1, <1>2, <1>4, <1>5, <1>6, AloneGoes DEF BlockInv
  <1> QED BY <1>4, <1>8, <1>9, RestsWait DEF BlockInv, Idles

LEMMA CueHeldKeepsBlock ==
    ASSUME TypeInv, OrderInv, BlockInv, CueHeld
    PROVE  BlockInv'
  <1> DEFINE r   == NextTurn.rt
             rt  == flight.rts[r]
             i   == Aimed(NextTurn)
             cue == rt.items[i]
             due == DueAt(rt, cue)
             f   == Taken(flight)
             t   == Timer(flight, r, "hold", i, due)
  <1>1. /\ TurnFree /\ ~Stale(flight, r, NextTurn.gen) /\ i <= Len(rt.items)
        /\ Early(rt, cue) /\ flight' = Armed(f, r, t) /\ UNCHANGED <<calls, logs, pointer>>
    BY DEF CueHeld
  <1>2. r \in 1..Len(flight.rts) /\ i = NextTurn.index /\ i \in Nat \ {0}
    BY <1>1, NextCueFacts
  <1>3. rt \in Runtime /\ Len(flight.rts) \in Nat
    BY <1>2, Typed, MemoryParts
  <1>4. cue \in Cue
    <2>1. rt.items \in Seq(Cue) /\ i \in 1..Len(rt.items)
      BY <1>1, <1>2, <1>3, LenProperties DEF Runtime
    <2> QED BY <2>1, ElementOfSeq
  <1>5. due \in Nat
    BY <1>1, <1>3, <1>4, DueAtType DEF Early
  <1>6. /\ \A d \in Callers : ~Busy(calls[d])
        /\ Idles(f) /\ f.owner = flight.owner /\ f.rts = flight.rts /\ IsMemory(f)
        /\ Held(f) /\ Owned(f, pointer) /\ flight.owner # 0 /\ Rests(f)
        /\ flight.owner \in 1..Len(flight.rts)
    BY <1>1, TurnFreeFacts
  <1>7. t \in Armable(Len(f.rts))
    BY <1>2, <1>5, <1>6, Typed, TimerType DEF TimerKinds
  <1>8. t.rt = r /\ r = f.owner
    <2>1. t.rt = r
      BY DEF Timer
    <2> QED BY <1>1, <1>6, <2>1 DEF Stale
  <1> HIDE DEF f, t, r
  <1>9. Arms(f, flight')
    BY <1>1, <1>6, <1>7, <1>8, ArmedArms
  <1>10. Apart(flight') /\ Owned(flight', pointer)
    BY <1>6, <1>9, NearApart DEF Arms
  <1>11. WaitInv'
    BY <1>6, <1>9 DEF Arms, Near, Rests, WaitInv
  <1>12. MarksSame
    BY <1>1, <1>6, <1>9 DEF MarksSame, Arms, Near
  <1> QED BY <1>1, <1>6, <1>10, <1>11, <1>12, RestingBlock

LEMMA CueBeginsKeepsBlock ==
    ASSUME TypeInv, OrderInv, BlockInv, CueBegins
    PROVE  BlockInv'
  <1> DEFINE r   == NextTurn.rt
             i   == Aimed(NextTurn)
             rt  == flight.rts[r]
             cue == rt.items[i]
             f   == Taken(flight)
             at  == IF CutsFirst(rt, cue) THEN "cut" ELSE "cue"
             on  == IF rt.sched # Unclocked THEN "cueFailed" ELSE "ignore"
             c   == "turn"
             k   == [Idle EXCEPT !.at = at, !.rt = r, !.gen = NextTurn.gen, !.keep = TRUE,
                                 !.then = "cue", !.items = <<cue>>, !.on = on]
  <1>1. /\ TurnFree /\ ~Stale(flight, r, NextTurn.gen) /\ UNCHANGED pointer
        /\ flight' = [f EXCEPT !.rts[r].index = i, !.rts[r].waiting = FALSE]
        /\ Go(c, k) /\ logs' = [logs EXCEPT ![rt.log].running = TRUE]
    BY DEF CueBegins
  <1>2. r \in 1..Len(flight.rts) /\ Clockwork(rt)
    BY <1>1, NextCueFacts
  <1>3. /\ \A d \in Callers : ~Busy(calls[d])
        /\ Idles(f) /\ f.owner = flight.owner /\ f.rts = flight.rts /\ IsMemory(f)
        /\ Owned(f, pointer) /\ flight.owner # 0
        /\ \A l \in Logs : logs[l].running <=> l = flight.rts[flight.owner].log
    BY <1>1, TurnFreeFacts
  <1>4. r = flight.owner /\ rt.log \in Logs /\ logs \in [Logs -> Row] /\ c \in Callers
    BY <1>1, <1>2, Typed, LogsOf, OrderFacts DEF Stale
  <1>5. rt.sched # Unclocked
    BY <1>2 DEF Clockwork
  <1>6. /\ k.at \in {"cut", "cue"} /\ k.rt = r /\ k.then = "cue" /\ k.on = "cueFailed"
        /\ k.held = 0
    <2>1. on = "cueFailed" /\ at \in {"cut", "cue"}
      BY <1>5
    <2> HIDE DEF at, on, cue, r
    <2> QED BY <2>1 DEF Idle
  <1> HIDE DEF k, f, i, r, rt, c
  <1>7. /\ flight'.owner = f.owner /\ flight'.lock = f.lock /\ flight'.timers = f.timers
        /\ ~flight'.rts[r].waiting /\ flight'.rts[r].log = f.rts[r].log
        /\ flight'.rts[r].running = f.rts[r].running
    <2>1. f.rts[r] \in Runtime /\ f.rts \in Seq(Run) /\ r \in 1..Len(f.rts)
      BY <1>2, <1>3, MemoryParts
    <2> QED BY <1>1, <1>3, <2>1 DEF IsMemory, Memory, Runtime
  <1>8. Idles(flight') /\ Owned(flight', pointer)
    BY <1>3, <1>4, <1>7 DEF Idles, Rests, Owned
  <1>9. Stage(k) = "cue" /\ ~Ends(k)
    BY <1>6 DEF Stage, Ends, OfCue
  <1>10. Fits(c, k, flight', pointer)
    <2>1. c # "scheduler"
      BY DEF c
    <2> QED BY <1>3, <1>4, <1>6, <1>7, <1>9, <2>1 DEF Fits, StopFits, CueFits, OfCue
  <1>11. AloneInv'
    <2>1. Busy(k)
      BY <1>6 DEF Busy, Claimless
    <2> QED BY <1>1, <1>3, <1>4, <1>8, <1>10, <2>1, AloneGoes DEF BlockInv
  <1>12. MarkInv'
    <2>1. \A d \in Callers : ~Ends(calls'[d])
      <3>1. calls'[c] = k /\ \A d \in Callers \ {c} : calls'[d] = calls[d]
        BY <1>1, <1>4, Typed DEF Go
      <3> QED BY <1>3, <1>9, <3>1, RestUnmarked
    <2>2. \A l \in Logs : logs'[l].running <=> l = rt.log
      <3>1. flight.rts[flight.owner].log = rt.log
        BY <1>4 DEF rt
      <3> QED BY <1>1, <1>3, <1>4, <3>1 DEF Row
    <2>3. flight'.rts[flight'.owner].log = rt.log
      BY <1>3, <1>4, <1>7 DEF rt
    <2> QED BY <1>3, <1>4, <1>7, <2>1, <2>2, <2>3 DEF MarkInv
  <1> QED BY <1>8, <1>11, <1>12, RestsWait DEF BlockInv, Idles

\* The turn that executes a cue is of the runtime in the map.
LEMMA CueFacts ==
    ASSUME TypeInv, OrderInv, BlockInv, Turn.at \in OfCue
    PROVE  /\ Busy(Turn) /\ "turn" \in Callers /\ Turn = calls["turn"]
           /\ Turn.rt = flight.owner /\ flight.owner # 0 /\ flight.owner \in 1..Len(flight.rts)
           /\ Idles(flight) /\ Owned(flight, pointer) /\ IsMemory(flight) /\ Held(flight)
           /\ Fits("turn", Turn, flight, pointer) /\ Turn \in CallRecord(Len(flight.rts))
           /\ \A d \in Callers \ {"turn"} : ~Busy(calls[d])
           /\ \A d \in Callers : ~Ends(calls[d]) /\ ~Unmarked(calls[d])
           /\ TurnCue.kind \in {"song", "clip", "stop"}
           /\ Turn.at = "after" => TurnCue.kind = "stop"
           /\ Turn.on = "cueFailed" /\ Turn.held = 0
           /\ flight.rts[flight.owner].sched # Unclocked
           /\ flight.rts[flight.owner].index <= Len(flight.rts[flight.owner].items)
           /\ flight.rts[flight.owner].index \in Nat
  <1>1. Busy(Turn) /\ Turn = calls["turn"] /\ "turn" \in Callers
    BY OrderFacts DEF Busy, Claimless, OfCue, Turn
  <1>2. /\ Idles(flight) /\ \A d \in Callers \ {"turn"} : ~Busy(calls[d])
        /\ Owned(flight, pointer) /\ Fits("turn", Turn, flight, pointer)
    BY <1>1, AloneFacts DEF BlockInv
  <1>3. /\ Turn.rt \in 1..Len(flight.rts) /\ TurnCue.kind \in {"song", "clip", "stop"}
        /\ Stage(Turn) = Turn.at
        /\ flight.rts[Turn.rt].index <= Len(flight.rts[Turn.rt].items)
        /\ flight.rts[Turn.rt].index \in Nat
        /\ Steady(flight, Turn.rt, Announced, radio.aired)
    BY TurnFacts
  <1>4. Turn.rt = flight.owner /\ Turn.on = "cueFailed" /\ Turn.held = 0
        /\ (Turn.at = "after" => TurnCue.kind = "stop")
    BY <1>2, <1>3 DEF Fits, CueFits, TurnCue
  <1>5. flight.owner # 0 /\ flight.owner \in 1..Len(flight.rts)
    BY <1>3, <1>4
  <1>6. flight.rts[flight.owner].sched # Unclocked
    BY <1>3, <1>4 DEF Steady, Single, Clockwork
  <1>7. \A d \in Callers : ~Ends(calls[d]) /\ ~Unmarked(calls[d])
    <2>1. Turn.at \notin {"cut", "cutting", "cutDone", "persist"}
      BY DEF OfCue
    <2> QED BY <1>1, <1>2, <2>1, AtUnmarked, RestUnmarked
  <1> QED BY <1>1, <1>2, <1>3, <1>4, <1>5, <1>6, <1>7, OrderFacts, Typed

LEMMA TurnEndsKeepsBlock ==
    ASSUME TypeInv, OrderInv, BlockInv, Turn.at \in OfCue, TurnEnds(flight),
           UNCHANGED <<pointer, logs>>,
           \/ WaitInv'
           \/ TurnCue.kind # "song"
    PROVE  BlockInv'
  <1> DEFINE r == flight.owner
             f == flight
             k == [calls EXCEPT !["turn"] = Idle]
             cue == TurnCue
             on == f.rts[r].gen = Turn.gen /\ f.rts[r].running
             moves == on /\ ~Waits(f.rts[r], cue)
  <1>1. /\ "turn" \in Callers /\ Turn.rt = r /\ r # 0 /\ r \in 1..Len(f.rts)
        /\ Idles(f) /\ Owned(f, pointer) /\ IsMemory(f) /\ Held(f)
        /\ \A d \in Callers \ {"turn"} : ~Busy(calls[d])
        /\ \A d \in Callers : ~Ends(calls[d]) /\ ~Unmarked(calls[d])
        /\ cue.kind \in {"song", "clip", "stop"} /\ f.rts[r].sched # Unclocked
        /\ f.rts[r].index <= Len(f.rts[r].items)
    BY CueFacts
  <1>2. /\ flight' = IF on THEN AfterCue(f, r, cue) ELSE f
        /\ calls' = IF moves THEN Spawned(k, "advance", f, r) ELSE k
    BY <1>1 DEF TurnEnds
  <1>3. k \in [Callers -> Call(Len(f.rts))] /\ \A d \in Callers : ~Busy(k[d])
    <2>1. \A d \in Callers : k[d] = IF d = "turn" THEN Idle ELSE calls[d]
      BY Typed
    <2>2. k \in [Callers -> Call(Len(f.rts))]
      BY Typed, IdleType
    <2> HIDE DEF k
    <2> QED BY <1>1, <2>1, <2>2, ReturnedRests
  <1>4. clock \in Nat
    BY Typed
  <1> HIDE DEF k, cue
  <1>5. LET g == AfterCue(f, r, cue)
        IN  /\ Apart(g) /\ g.owner = r /\ Owned(g, pointer) /\ g.rts[r].log = f.rts[r].log
            /\ g.rts[r].waiting => cue.kind = "song"
            /\ ~Waits(f.rts[r], cue) => g = MovedOn(f, r)
    BY <1>1, <1>4, AfterCueApart
  <1>6. CASE moves
    <2>1. flight' = MovedOn(f, f.owner) /\ calls' = Spawned(k, "advance", f, f.owner)
      BY <1>2, <1>5, <1>6
    <2>2. Near(flight, f)
      BY LighterReflexive, LighterNear
    <2> DEFINE c == "advance"
               S == Call(Len(f.rts))
    <2>3. c \in Callers /\ c # "scheduler" /\ k \in [Callers -> S]
          /\ calls' = Spawned(k, c, f, f.owner)
      BY <1>3, <2>1, OrderFacts
    <2> HIDE DEF c, S
    <2> QED BY <1>1, <1>3, <2>1, <2>2, <2>3, BlockMoves
  <1>7. CASE ~moves
    <2>1. calls' = k /\ (flight' = f \/ flight' = AfterCue(f, r, cue))
      BY <1>2, <1>7
    <2>2. /\ Apart(flight') /\ flight'.owner = r /\ Owned(flight', pointer)
          /\ flight'.rts[r].log = f.rts[r].log
          /\ flight'.rts[r].waiting => cue.kind = "song"
      BY <1>1, <1>5, <2>1, IdlesApart DEF Idles, Rests
    <2>3. MarksSame
      BY <1>1, <2>2 DEF MarksSame
    <2>4. MarkInv'
      BY <1>1, <1>3, <2>1, <2>3, RestUnmarked, MarksStay DEF BlockInv
    <2>5. AloneInv'
      <3>1. \A c \in Callers : Fits(c, calls'[c], flight', pointer')
        BY <1>3, <2>1, RestFits
      <3> QED BY <1>3, <2>1, <2>2, <3>1 DEF AloneInv
    <2>6. WaitInv'
      <3>1. CASE TurnCue.kind # "song"
        BY <2>2, <3>1 DEF WaitInv, cue
      <3> QED BY <3>1
    <2> QED BY <2>4, <2>5, <2>6 DEF BlockInv
  <1> QED BY <1>6, <1>7

\* A song is commanded: it is what the engine believes in, and it plays.
LEMMA TakesOnAir ==
    ASSUME NEW x \in Radio, NEW rt, NEW pos
    PROVE  LET y == Takes(x, rt, pos)
               n == Len(x.aired) + 1
           IN  /\ y.active = n /\ y.onAir = n /\ n \in 1..Len(y.aired)
               /\ y.aired[n] = [rt |-> rt, pos |-> pos]
  <1> DEFINE air == [rt |-> rt, pos |-> pos]
             s == Append(x.aired, air)
             n == Len(x.aired) + 1
  <1>1. Silenced(x).aired = x.aired /\ Silenced(x) \in Radio
    BY SilencedType
  <1>2. Takes(x, rt, pos) = [Silenced(x) EXCEPT !.aired = s, !.onAir = n, !.active = n]
    BY <1>1 DEF Takes
  <1>3. Len(s) = n /\ s[n] = air /\ n \in 1..n
    <2>1. x.aired \in Seq([rt : Nat, pos : Nat] \cup {air}) /\ Len(x.aired) \in Nat
      <3>1. x.aired \in Seq([rt : Nat, pos : Nat])
        BY RadioAirs
      <3> HIDE DEF air
      <3> QED BY <3>1, SeqMonotonic, LenProperties
    <2> HIDE DEF air
    <2> QED BY <2>1, AppendProperties
  <1> HIDE DEF s, n, air
  <1>4. /\ Takes(x, rt, pos).aired = s /\ Takes(x, rt, pos).onAir = n
        /\ Takes(x, rt, pos).active = n
    BY <1>1, <1>2 DEF Radio
  <1> QED BY <1>3, <1>4 DEF n, air

LEMMA CueUnplayableKeepsBlock ==
    ASSUME TypeInv, OrderInv, BlockInv, CueUnplayable
    PROVE  BlockInv'
  <1> DEFINE c == "turn"
  <1>1. Turn.at \in OfCue /\ Turn.at = "cue" /\ UNCHANGED <<pointer, logs>>
    BY DEF CueUnplayable, OfCue
  <1>2. /\ c \in Callers /\ Turn = calls[c] /\ Busy(Turn) /\ Turn.on = "cueFailed"
        /\ Turn.at \notin {"cut", "cutting", "cutDone", "persist"}
    BY <1>1, CueFacts
  <1>3. Fails(c)
    BY <1>2 DEF CueUnplayable
  <1> HIDE DEF c
  <1> QED BY <1>1, <1>2, <1>3, FailsKeepsBlock

LEMMA CueTakesSongKeepsBlock ==
    ASSUME TypeInv, OrderInv, BlockInv, CueTakesSong
    PROVE  BlockInv'
  <1> DEFINE r == Turn.rt
             p == flight.rts[r].index
             x == IF OwnsAir(flight) THEN radio ELSE MemStopped(RowStopped(radio))
             f == flight
             cue == TurnCue
             n == Len(x.aired) + 1
  <1>1. Turn.at \in OfCue /\ TurnEnds(flight) /\ UNCHANGED <<pointer, logs>>
        /\ radio' = Takes(x, r, p)
    BY DEF CueTakesSong, OfCue
  <1>2. /\ r = f.owner /\ r # 0 /\ Idles(f) /\ Owned(f, pointer) /\ IsMemory(f) /\ Held(f)
        /\ cue.kind \in {"song", "clip", "stop"} /\ f.rts[f.owner].sched # Unclocked
        /\ f.rts[f.owner].index <= Len(f.rts[f.owner].items)
    BY <1>1, CueFacts
  <1>3. x \in Radio
    <2>1. RowStopped(radio) \in Radio /\ radio \in Radio
      BY Typed, RadioType
    <2>2. MemStopped(RowStopped(radio)) \in Radio
      BY <2>1, RadioType
    <2> QED BY <2>1, <2>2
  <1>4. WaitInv'
    <2>1. flight' = f \/ flight' = AfterCue(f, r, cue)
      BY <1>1 DEF TurnEnds
    <2>2. clock \in Nat
      BY Typed
    <2> HIDE DEF cue
    <2>3. LET g == AfterCue(f, f.owner, cue)
          IN  g.owner = f.owner /\ (g.rts[f.owner].waiting => g.rts[f.owner].index = p)
      BY <1>2, <2>2, AfterCueApart
    <2>4. flight'.owner = r /\ (flight'.rts[r].waiting => flight'.rts[r].index = p)
      BY <1>2, <2>1, <2>3
    <2> HIDE DEF x, r, p
    <2>5. /\ radio'.active = n /\ radio'.onAir = n /\ n \in 1..Len(radio'.aired)
          /\ radio'.aired[n] = [rt |-> r, pos |-> p]
      BY <1>1, <1>3, TakesOnAir
    <2> HIDE DEF n
    <2> QED BY <2>4, <2>5 DEF WaitInv
  <1> QED BY <1>1, <1>4, TurnEndsKeepsBlock

LEMMA CueNeedsNoAirKeepsBlock ==
    ASSUME TypeInv, OrderInv, BlockInv, CueNeedsNoAir
    PROVE  BlockInv'
  <1>1. Turn.at \in OfCue /\ UNCHANGED <<pointer, logs>> /\ TurnEnds(flight)
    BY DEF CueNeedsNoAir, OfCue
  <1>2. TurnCue.kind # "song"
    <2>1. Turn.at = "after" => TurnCue.kind = "stop"
      BY <1>1, CueFacts
    <2> QED BY <2>1 DEF CueNeedsNoAir
  <1> QED BY <1>1, <1>2, TurnEndsKeepsBlock

LEMMA CueStopsSongKeepsBlock ==
    ASSUME TypeInv, OrderInv, BlockInv, CueStopsSong
    PROVE  BlockInv'
  <1> DEFINE c == "turn"
             owns == OwnsAir(flight)
             k == [Turn EXCEPT !.at = "cut", !.keep = owns, !.then = "after"]
  <1>1. /\ UNCHANGED <<pointer, flight, logs>> /\ Go(c, k) /\ Turn.at = "cue"
        /\ Turn.at \in OfCue /\ TurnCue.kind = "stop"
    BY DEF CueStopsSong, OfCue
  <1>2. /\ Busy(Turn) /\ c \in Callers /\ Turn = calls[c] /\ c # "scheduler"
        /\ Turn.rt = flight.owner /\ Idles(flight) /\ Owned(flight, pointer)
        /\ Turn \in CallRecord(Len(flight.rts)) /\ Turn.on = "cueFailed" /\ Turn.held = 0
        /\ \A d \in Callers : ~Ends(calls[d]) /\ ~Unmarked(calls[d])
    BY <1>1, CueFacts
  <1> HIDE DEF owns
  <1>3. /\ k.at = "cut" /\ k.then = "after" /\ k.items = Turn.items /\ k.rt = Turn.rt
        /\ k.on = Turn.on /\ k.held = Turn.held
    BY <1>2 DEF CallRecord
  <1> HIDE DEF k, c
  <1>4. Stage(k) = "after" /\ ~Ends(k) /\ ~Unmarked(k)
    BY <1>3 DEF Stage, Ends, Unmarked, OfCue
  <1>5. Fits(c, k, flight, pointer)
    BY <1>1, <1>2, <1>3, <1>4 DEF Fits, StopFits, CueFits, OfCue, TurnCue
  <1>6. MarksSame
    BY <1>1 DEF MarksSame
  <1>7. MarkInv'
    BY <1>1, <1>2, <1>4, <1>6, MarksGo DEF BlockInv
  <1> QED BY <1>1, <1>2, <1>5, <1>7, BlockGoes

LEMMA TurnsKeepsBlock ==
    ASSUME TypeInv, OrderInv, BlockInv, Turns
    PROVE  BlockInv'
  <1>1. ~EditBegins
    BY NextCueFacts DEF EditBegins
  <1>2. ~EditWrites /\ ~EditApplies
    <2>1. "turn" \in Callers /\ "turn" # "scheduler"
      BY OrderFacts
    <2> QED BY <2>1, SchedulerOnly, LinesApart DEF EditWrites, EditApplies, Turn
  <1> QED BY <1>1, <1>2, CueDroppedKeepsBlock, CueOutOfRangeKeepsBlock, CueHeldKeepsBlock,
       CueBeginsKeepsBlock, CueUnplayableKeepsBlock, CueTakesSongKeepsBlock,
       CueNeedsNoAirKeepsBlock, CueStopsSongKeepsBlock DEF Turns

--------------------------------------------------------------------------------
\* Timers and ends

LEMMA LighterWait ==
    ASSUME TypeInv, WaitInv, Lighter(flight, flight'), UNCHANGED radio
    PROVE  WaitInv'
  <1>1. flight.owner # 0 => flight.owner \in 1..Len(flight.rts)
    BY Typed
  <1> QED BY <1>1 DEF Lighter, WaitInv

\* A timer that fires asks for a cue, if for anything.
LEMMA RequestKeepsBlock ==
    ASSUME TypeInv, OrderInv, BlockInv, UNCHANGED <<calls, pointer, logs>>,
           \A c \in Callers : ~Busy(calls[c]),
           NEW f, IsMemory(f), Idles(f), f.owner # 0, Lighter(flight, f), NEW r, NEW gen, NEW i,
           flight' = Requested(f, r, gen, i)
    PROVE  BlockInv'
  <1>1. Apart(flight') /\ flight'.owner = f.owner /\ flight'.rts = f.rts /\ Rests(flight')
    BY RequestedApart
  <1>2. Owned(f, pointer)
    BY Typed, LighterIdles DEF BlockInv, AloneInv
  <1>3. MarksSame
    BY <1>1, LighterNear, NearMarks
  <1> QED BY <1>1, <1>2, <1>3, RestsWait, RestingBlock DEF Owned

LEMMA TimersKeepsBlock ==
    ASSUME TypeInv, OrderInv, BlockInv, Timers
    PROVE  BlockInv'
  <1> SUFFICES ASSUME NEW t \in flight.timers,
                      \/ HoldFires(t) \/ WaitFires(t) \/ SongEndTimesOut(t)
                      \/ ClipFires(t) \/ HardFires(t)
               PROVE  BlockInv'
    BY DEF Timers
  <1> DEFINE f == Fired(flight, t)
             r == t.rt
             rt == f.rts[r]
             e == Executed
             n == Announced
             aired == radio.aired
  <1>1. /\ Lighter(flight, f) /\ IsMemory(f) /\ f.timers = {} /\ f.lock = <<>>
        /\ r = flight.owner /\ flight.owner # 0 /\ r \in 1..Len(flight.rts)
        /\ t.kind # "hard" => Idles(f)
    <2> DEFINE h == flight
    <2>1. IsMemory(h) /\ Steady(h, e, n, aired) /\ t \in h.timers /\ Apart(h)
      BY OrderFacts DEF OrderInv, BlockInv, AloneInv
    <2> HIDE DEF h, e, n, aired, f, r
    <2>2. LET g == Fired(h, t)
          IN  /\ Lighter(h, g) /\ IsMemory(g) /\ g.timers = {} /\ g.lock = <<>>
              /\ t.rt = h.owner /\ h.owner # 0 /\ t.rt \in 1..Len(h.rts)
              /\ t.kind # "hard" => Idles(g)
      BY <2>1, FiredLighter
    <2> QED BY <2>2 DEF h, f, r
  <1>2. t.kind \in {"hold", "clip", "hard"}
    <2> DEFINE h == flight
    <2>1. IsMemory(h) /\ Steady(h, e, n, aired) /\ t \in h.timers
      BY OrderFacts DEF OrderInv
    <2> HIDE DEF h, e, n, aired
    <2> QED BY <2>1, FiredSteady
  <1>3. f.owner = flight.owner
    BY <1>1 DEF Lighter
  <1>4. \A c \in Callers : ~Busy(calls[c])
    BY DEF BlockInv, AloneInv, Idles, Rests
  <1>5. Apart(f) /\ Owned(f, pointer)
    <2>1. Owned(f, pointer)
      BY <1>1, Typed, LighterIdles DEF BlockInv, AloneInv
    <2> QED BY <1>1, <2>1 DEF Apart
  <1>6. UNCHANGED <<calls, pointer, logs, radio>>
    <2>1. ~WaitFires(t) /\ ~SongEndTimesOut(t)
      BY <1>2 DEF WaitFires, SongEndTimesOut
    <2> QED BY <2>1 DEF HoldFires, ClipFires, HardFires, OnlyFlight
  <1>7. CASE flight' = f
    <2>1. MarksSame
      BY <1>1, <1>6, <1>7, LighterMarks
    <2>2. WaitInv'
      BY <1>1, <1>6, <1>7, LighterWait DEF BlockInv
    <2> HIDE DEF f
    <2> QED BY <1>4, <1>5, <1>6, <1>7, <2>1, <2>2, RestingBlock
  <1>8. CASE HoldFires(t)
    <2> DEFINE gen == t.gen
               i == t.cue
    <2>1. flight' = Requested(f, r, gen, i) /\ Idles(f)
      BY <1>1, <1>8 DEF HoldFires
    <2> HIDE DEF f, r, gen, i
    <2> QED BY <1>1, <1>3, <1>4, <1>6, <2>1, RequestKeepsBlock
  <1>9. CASE ClipFires(t) /\ flight' # f
    <2> DEFINE gen == t.gen
               i == IF t.cue = 0 THEN rt.index + 1 ELSE RowOf(rt.items, t.cue)
    <2>1. flight' = Requested(f, r, gen, i) /\ Idles(f)
      BY <1>1, <1>9 DEF ClipFires
    <2> HIDE DEF f, r, gen, i
    <2> QED BY <1>1, <1>3, <1>4, <1>6, <2>1, RequestKeepsBlock
  <1>10. CASE HardFires(t) /\ flight' # f
    <2> DEFINE i == RowOf(rt.items, t.cue)
               g == [f EXCEPT !.rts[r].waiting = FALSE, !.rts[r].gen = @ + 1]
               gen == f.rts[r].gen + 1
               next == t.gen + 1
    <2>1. flight' = Requested(g, r, next, i)
      BY <1>10 DEF HardFires
    <2>2. /\ r \in 1..Len(f.rts) /\ gen \in Nat
          /\ g = [f EXCEPT !.rts[r].waiting = FALSE, !.rts[r].gen = gen]
      <3>1. r \in 1..Len(f.rts)
        BY <1>1 DEF Lighter
      <3>2. f.rts[r] \in Runtime /\ f.rts \in Seq(Run)
        BY <1>1, <3>1, MemoryParts
      <3> HIDE DEF f, r
      <3> QED BY <1>1, <3>1, <3>2 DEF Runtime, IsMemory, Memory
    <2> HIDE DEF f, r, gen, g, i, next
    <2>3. IsMemory(g) /\ Lighter(f, g) /\ ~g.rts[r].waiting
      BY <1>1, <2>2, UnwaitingRewrites
    <2>4. Idles(g) /\ g.owner # 0
      BY <1>1, <1>3, <2>3 DEF Lighter, Idles, Rests
    <2>5. Lighter(flight, g)
      BY <1>1, <2>3, LighterTransitive
    <2> QED BY <1>4, <1>6, <2>1, <2>3, <2>4, <2>5, RequestKeepsBlock
  <1> QED BY <1>2, <1>7, <1>8, <1>9, <1>10 DEF WaitFires, SongEndTimesOut

\* Nothing moves but the radio.
LEMMA BlockStays ==
    ASSUME TypeInv, BlockInv, UNCHANGED <<flight, pointer>>, \A c \in Callers : Still(c),
           \A l \in Logs : logs'[l].running = logs[l].running, WaitInv'
    PROVE  BlockInv'
  <1>1. AloneInv'
    BY AloneStays DEF BlockInv
  <1>2. MarksSame
    BY DEF MarksSame
  <1>3. MarkInv'
    BY <1>2, RestUnmarked, MarksStay DEF BlockInv, Still
  <1> QED BY <1>1, <1>3 DEF BlockInv

\* The song a block waits for has ended.
LEMMA SongEndedKeepsBlock ==
    ASSUME TypeInv, OrderInv, BlockInv, SongEnded, UNCHANGED <<pointer, logs>>
    PROVE  BlockInv'
  <1> DEFINE r == flight.owner
             f == Bumped(flight, r)
             c == "song"
             S == Call(Len(flight.rts))
  <1>1. CASE UNCHANGED <<flight, calls>> /\ ~(IsRunning(flight) /\ flight.rts[r].waiting)
    <2>1. r = 0 \/ ~flight.rts[r].waiting
      BY <1>1 DEF BlockInv, AloneInv, Owned, IsRunning
    <2>2. WaitInv'
      BY <1>1, <2>1 DEF WaitInv
    <2> QED BY <1>1, <2>2, BlockStays DEF Still
  <1>2. CASE /\ IsRunning(flight) /\ flight.rts[r].waiting
             /\ flight' = MovedOn(f, r) /\ calls' = Spawned(calls, "song", f, r)
    <2>1. r # 0 /\ ~Rests(flight)
      BY <1>2 DEF IsRunning, Rests
    <2>2. \A d \in Callers : ~Busy(calls[d])
      BY <2>1 DEF BlockInv, AloneInv, Idles
    <2>3. Apart(flight) /\ flight.lock = <<>> /\ Owned(flight, pointer)
      BY <2>1 DEF BlockInv, AloneInv, Apart
    <2>4. IsMemory(flight) /\ Held(flight) /\ c \in Callers /\ c # "scheduler"
          /\ calls \in [Callers -> S]
      BY OrderFacts, Typed
    <2>5. Idles(f) /\ Lighter(flight, f) /\ IsMemory(f)
      BY <2>1, <2>3, <2>4, BumpedIdles
    <2>6. Held(f)
      BY <2>5 DEF Held, Idles, Rests
    <2> HIDE DEF f
    <2>7. f.owner = r /\ Owned(f, pointer) /\ Near(flight, f)
      BY <2>3, <2>4, <2>5, LighterIdles, LighterNear DEF Lighter
    <2>8. \A d \in Callers : ~Ends(calls[d]) /\ ~Unmarked(calls[d])
      BY <2>2, RestUnmarked
    <2>9. f.owner # 0 /\ flight' = MovedOn(f, f.owner) /\ calls' = Spawned(calls, c, f, f.owner)
      BY <1>2, <2>1, <2>7
    <2> HIDE DEF c, S, r
    <2> QED BY <2>2, <2>4, <2>5, <2>6, <2>7, <2>8, <2>9, BlockMoves
  <1> QED BY <1>1, <1>2 DEF SongEnded

LEMMA EndArrivesKeepsBlock ==
    ASSUME TypeInv, OrderInv, BlockInv, NEW m \in radio.ended, EndArrives(m)
    PROVE  BlockInv'
  <1>1. UNCHANGED <<pointer, logs>>
    BY DEF EndArrives
  <1>2. CASE SongEnded
    BY <1>1, <1>2, SongEndedKeepsBlock
  <1>3. CASE /\ radio.active # m /\ radio' = [radio EXCEPT !.ended = @ \ {m}]
             /\ UNCHANGED <<flight, calls>>
    <2>1. /\ radio'.aired = radio.aired /\ radio'.active = radio.active
          /\ radio'.onAir = radio.onAir /\ radio'.ended = radio.ended \ {m}
      BY <1>3, Typed DEF Radio
    <2>2. WaitInv'
      BY <1>3, <2>1 DEF BlockInv, WaitInv
    <2> QED BY <1>1, <1>3, <2>2, BlockStays DEF Still
  <1> QED BY <1>2, <1>3 DEF EndArrives

LEMMA RadioKeepsBlock ==
    ASSUME TypeInv, OrderInv, BlockInv,
           IdleSnapshot \/ TrackEnds \/ Ticks \/ \E m \in Cues : Disable(m)
    PROVE  BlockInv'
  <1>1. UNCHANGED <<flight, pointer, calls, logs>>
    BY DEF IdleSnapshot, TrackEnds, Ticks, Disable
  <1>2. WaitInv'
    <2>1. CASE Ticks \/ \E m \in Cues : Disable(m)
      BY <2>1 DEF Ticks, Disable, BlockInv, WaitInv
    <2>2. CASE IdleSnapshot
      <3>1. radio.active \notin 1..Len(radio.aired)
        BY <2>2 DEF IdleSnapshot
      <3> QED BY <1>1, <3>1 DEF BlockInv, WaitInv
    <2>3. CASE TrackEnds
      <3>1. /\ radio'.aired = radio.aired /\ radio'.active = radio.active
            /\ radio'.ended = radio.ended \cup ({radio.onAir} \ {0})
        BY <2>3, Typed DEF TrackEnds, Silenced, Radio
      <3> QED BY <1>1, <2>3, <3>1 DEF BlockInv, WaitInv, TrackEnds
    <2> QED BY <2>1, <2>2, <2>3
  <1> QED BY <1>1, <1>2, BlockStays DEF Still

--------------------------------------------------------------------------------
\* The scheduler's claim, and a restart

\* The scheduler claims a log while no other is on the air and no call is in progress.
Alone == claimed' # claimed => flight.owner = 0 /\ \A c \in Callers : ~Busy(calls[c])

LEMMA SchedulesKeepsBlock ==
    ASSUME TypeInv, OrderInv, BlockInv, Schedules, Alone
    PROVE  BlockInv'
  <1> DEFINE c == "scheduler"
  <1>1. c \in Callers
    BY OrderFacts
  <1>2. ASSUME NEW due, Go(c, ClaimNext(due)), calls[c].at \in Claimless,
               UNCHANGED <<flight, pointer, radio, logs>>
        PROVE  BlockInv'
    <2> DEFINE k == ClaimNext(due)
    <2>1. ~Busy(calls[c]) /\ ~Busy(k)
      BY <1>2, ReturnedRests DEF Busy
    <2> HIDE DEF k, c
    <2>2. \A d \in Callers : Still(d)
      <3>1. calls'[c] = k /\ \A d \in Callers \ {c} : calls'[d] = calls[d]
        BY <1>1, <1>2, Typed DEF Go, k
      <3> QED BY <2>1, <3>1 DEF Still
    <2>3. WaitInv'
      BY <1>2 DEF BlockInv, WaitInv
    <2> QED BY <1>2, <2>2, <2>3, BlockStays
  <1>3. CASE Poll
    BY <1>2, <1>3 DEF Poll, Claimless
  <1>4. ASSUME NEW l \in Logs, Claims(l) PROVE BlockInv'
    <2> DEFINE due == calls[c].due \ {l}
               k == [Idle EXCEPT !.at = "activate", !.log = l, !.due = due]
    <2>1. CASE ~ClaimableNow(logs[l])
      <3> HIDE DEF due
      <3>1. Go(c, ClaimNext(due)) /\ calls[c].at \in Claimless
            /\ UNCHANGED <<flight, pointer, radio, logs>>
        BY <1>4, <2>1 DEF Claims, Claimless, due
      <3> QED BY <1>2, <3>1
    <2>2. CASE ClaimableNow(logs[l])
      <3>1. /\ Go(c, k) /\ UNCHANGED <<flight, pointer, radio>>
            /\ logs' = [logs EXCEPT ![l].started = TRUE]
            /\ claimed' = [claimed EXCEPT ![l] = @ + 1]
        BY <1>4, <2>2 DEF Claims
      <3>2. claimed' # claimed
        <4>1. claimed'[l] = claimed[l] + 1 /\ claimed[l] \in Nat
          BY <3>1, Typed
        <4> QED BY <4>1
      <3>3. flight.owner = 0 /\ \A d \in Callers : ~Busy(calls[d])
        BY <3>2 DEF Alone
      <3>4. Idles(flight)
        BY <3>3, Typed, ApartIdles DEF BlockInv, AloneInv
      <3>5. k.at = "activate" /\ k.on = "end"
        <4> HIDE DEF due
        <4> QED BY DEF Idle
      <3> HIDE DEF k, c, due
      <3>6. Fits(c, k, flight, pointer)
        <4>1. k.at \in Launches \cup Announces /\ SchedulerFits(k, flight, pointer)
          BY <3>3, <3>5 DEF SchedulerFits, Launches, Announces, Recovers
        <4> QED BY <4>1, SchedulerGoes
      <3>7. Owned(flight, pointer) /\ Busy(k)
        BY <3>3, <3>5 DEF Owned, Busy, Claimless
      <3>8. AloneInv'
        BY <1>1, <3>1, <3>3, <3>4, <3>6, <3>7, AloneGoes DEF BlockInv
      <3>9. MarkInv'
        <4>1. \A i \in Logs : ~logs[i].running
          BY <3>3, NoneMarked DEF BlockInv
        <4>2. \A i \in Logs : ~logs'[i].running
          BY <3>1, <4>1, Typed DEF Row
        <4> QED BY <3>1, <3>3, <4>2, MarksGone
      <3> QED BY <3>1, <3>4, <3>8, <3>9, RestsWait DEF BlockInv, Idles
    <2> QED BY <2>1, <2>2
  <1> QED BY <1>3, <1>4 DEF Schedules

\* onModuleInit takes back every mark there is.
LEMMA RestartKeepsBlock ==
    ASSUME TypeInv, ClaimInv, OrderInv, BlockInv, Restart
    PROVE  BlockInv'
  <1>1. /\ flight'.owner = 0 /\ flight'.timers = {} /\ flight'.lock = <<>>
        /\ calls' = [c \in Callers |-> Idle] /\ logs' = [l \in Logs |-> Interrupted(logs[l])]
    BY DEF Restart
  <1>2. \A c \in Callers : ~Busy(calls'[c])
    BY <1>1, ReturnedRests
  <1>3. \A c \in Callers : Fits(c, calls'[c], flight', pointer')
    BY <1>2, RestFits
  <1>4. AloneInv'
    BY <1>1, <1>2, <1>3 DEF AloneInv, Apart, Owned
  <1>5. \A l \in Logs : ~logs'[l].running
    <2> SUFFICES ASSUME NEW l \in Logs, logs[l].running PROVE logs[l].sched # Unclocked
      BY <1>1, Typed DEF Interrupted, Row
    <2>1. flight.owner # 0 /\ flight.rts[flight.owner].log = l
      BY DEF BlockInv, MarkInv
    <2>2. flight.owner \in 1..Len(flight.rts)
      BY <2>1, Typed
    <2>3. flight.rts[flight.owner].sched # Unclocked
      BY <2>2 DEF OrderInv, Steady, Single, Clockwork
    <2> QED BY <2>1, <2>2, <2>3 DEF ClaimInv
  <1>6. MarkInv' /\ WaitInv'
    BY <1>1, <1>5, MarksGone DEF WaitInv
  <1> QED BY <1>4, <1>6 DEF BlockInv

LEMMA NextKeepsBlock ==
    ASSUME TypeInv, ClaimInv, OrderInv, BlockInv, [Next]_vars, [~Operator]_vars, [Alone]_vars
    PROVE  BlockInv'
  <1>1. CASE UNCHANGED vars
    <2>1. UNCHANGED <<flight, pointer, calls, logs, radio>>
      BY <1>1 DEF vars
    <2>2. WaitInv'
      BY <2>1 DEF BlockInv, WaitInv
    <2> QED BY <2>1, <2>2, BlockStays DEF Still
  <1>2. CASE ~UNCHANGED vars
    <2>1. Next /\ ~Operator /\ Alone
      BY <1>2
    <2>2. ASSUME NEW c \in Callers, Proceeds(c) \/ StopFails(c) \/ PrepareFails(c)
          PROVE  BlockInv'
      BY <2>2, ProceedsKeepsBlock
    <2>3. CASE Schedules \/ Turns \/ Timers
      BY <2>1, <2>3, SchedulesKeepsBlock, TurnsKeepsBlock, TimersKeepsBlock
    <2>4. CASE Reports
      BY <2>4, EndArrivesKeepsBlock DEF Reports
    <2>5. CASE IdleSnapshot \/ TrackEnds \/ Ticks \/ \E m \in Cues : Disable(m)
      BY <2>5, RadioKeepsBlock
    <2>6. CASE Restart
      BY <2>6, RestartKeepsBlock
    <2> QED BY <2>1, <2>2, <2>3, <2>4, <2>5, <2>6 DEF Next, Faults
  <1> QED BY <1>1, <1>2

LEMMA InitBlock ==
    ASSUME Init, \A l \in Logs : ~logs[l].running
    PROVE  BlockInv
  <1>1. /\ flight.owner = 0 /\ flight.timers = {} /\ flight.lock = <<>>
        /\ \A c \in Callers : calls[c] = Idle
    BY DEF Init
  <1>2. \A c \in Callers : ~Busy(calls[c])
    BY <1>1, ReturnedRests
  <1>3. \A c \in Callers : Fits(c, calls[c], flight, pointer)
    BY <1>2, RestFits
  <1>4. AloneInv
    BY <1>1, <1>2, <1>3 DEF AloneInv, Apart, Owned
  <1> QED BY <1>1, <1>4 DEF BlockInv, WaitInv, MarkInv

\* No row says at first that it runs.
NoneRuns == \A l \in Logs : ~logs[l].running

\* Blocks do not overlap: the scheduler claims a log only while no other is in the map
\* and no call is in progress.
OneByOne == [][Alone]_vars

THEOREM FlightKeepsBlock ==
    Spec /\ NoneRuns /\ Unattended /\ OneByOne => [](TypeInv /\ ClaimInv /\ OrderInv /\ BlockInv)
  <1>1. Init /\ NoneRuns => BlockInv
    BY InitBlock DEF NoneRuns
  <1>2. /\ TypeInv /\ ClaimInv /\ OrderInv /\ BlockInv
        /\ [Next]_vars /\ [~Operator]_vars /\ [Alone]_vars
        => BlockInv'
    BY NextKeepsBlock
  <1> QED BY <1>1, <1>2, FlightKeepsOrder, PTL DEF Spec, Unattended, OneByOne

\* A block that waits for the end of its song is woken: the song is the one the engine
\* believes in, and its end is still to come.
THEOREM AwaitedEndComesAlone ==
    Spec /\ NoneRuns /\ Unattended /\ OneByOne => []AwaitedEndComes
  <1>1. TypeInv /\ BlockInv => AwaitedEndComes
    <2> SUFFICES ASSUME TypeInv, BlockInv, IsRunning(flight), flight.rts[flight.owner].waiting
                 PROVE  LET n == radio.active
                        IN  /\ n # 0
                            /\ radio.aired[n] = [rt  |-> flight.owner,
                                                 pos |-> flight.rts[flight.owner].index]
                            /\ radio.onAir = n \/ n \in radio.ended
      BY DEF AwaitedEndComes
    <2> QED BY DEF BlockInv, WaitInv, IsRunning
  <1> QED BY <1>1, FlightKeepsBlock, PTL

\* Between calls a row is marked as running exactly if its log runs.
THEOREM RunningRowRunsAlone ==
    Spec /\ NoneRuns /\ Unattended /\ OneByOne => []RunningRowRuns
  <1>1. TypeInv /\ BlockInv => RunningRowRuns
    <2> SUFFICES ASSUME TypeInv, BlockInv, \A c \in Callers : calls[c].at = "idle"
                 PROVE  \A l \in Logs : logs[l].running
                            <=> IsRunning(flight) /\ flight.rts[flight.owner].log = l
      BY DEF RunningRowRuns, Settled
    <2>1. \A c \in Callers : ~Unmarked(calls[c])
      BY AtUnmarked
    <2>2. IsRunning(flight) <=> flight.owner # 0
      BY DEF BlockInv, AloneInv, Owned, IsRunning
    <2> QED BY <2>1, <2>2 DEF BlockInv, MarkInv
  <1> QED BY <1>1, FlightKeepsBlock, PTL
================================================================================
