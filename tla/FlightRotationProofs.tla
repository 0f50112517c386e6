-------------------------- MODULE FlightRotationProofs --------------------------
(***************************************************************************)
(* A FlightService whose blocks come one after another leaves no filler of *)
(* the continuous rotation out, as long as no stop fails and no restart    *)
(* comes while a completed block hands the air back.  The theorem holds    *)
(* for all logs, cues, budgets and bounds of the clock; what the steps     *)
(* preserve is BlockInv, proved in FlightBlocksProofs, and FillerInv       *)
(* below: where the rotation's cursor is, in the row and in the engine's   *)
(* memory, relative to the filler that went on the air last.               *)
(***************************************************************************)
EXTENDS FlightBlocksProofs

--------------------------------------------------------------------------------
\* What went on the air

\* Each filler is the successor of the one before it, or an earlier one.
Sequent(aired) ==
    \A i, j \in 1..Len(aired) :
        /\ i < j
        /\ aired[i].rt = 0 /\ aired[j].rt = 0
        /\ \A k \in i+1..j-1 : aired[k].rt # 0
        => aired[j].pos <= aired[i].pos + 1

\* The last filler on the air was the one at p.
LastFiller(aired, p) ==
    \E i \in 1..Len(aired) : /\ aired[i].rt = 0 /\ aired[i].pos = p
                             /\ \A j \in i+1..Len(aired) : aired[j].rt # 0

\* All that may have gone on the air, and an entry that is added to it.
Airings == Seq([rt : Nat, pos : Nat])
Adds(aired, after, r, n) == after = Append(aired, [rt |-> r, pos |-> n])

LEMMA CueAired ==
    ASSUME NEW aired \in Airings, NEW r \in Nat \ {0}, NEW n \in Nat,
           NEW after, Adds(aired, after, r, n)
    PROVE  /\ Sequent(aired) => Sequent(after)
           /\ \A p : LastFiller(after, p) => LastFiller(aired, p)
  <1> DEFINE q == [rt |-> r, pos |-> n]
             N == Len(aired)
  <1>1. q \in [rt : Nat, pos : Nat] /\ N \in Nat /\ q.rt = r
    BY LenProperties DEF Airings
  <1>2. Len(after) = N + 1 /\ after[N + 1] = q /\ \A i \in 1..N : after[i] = aired[i]
    BY <1>1, AppendProperties DEF Airings, Adds
  <1> HIDE DEF q, N
  <1>3. \A i \in 1..Len(after) : after[i].rt = 0 => i \in 1..N /\ aired[i] = after[i]
    BY <1>1, <1>2
  <1>4. N = Len(aired)
    BY DEF N
  <1>5. ASSUME Sequent(aired) PROVE Sequent(after)
    <2> SUFFICES ASSUME NEW i \in 1..Len(after), NEW j \in 1..Len(after), i < j,
                        after[i].rt = 0, after[j].rt = 0,
                        \A k \in i+1..j-1 : after[k].rt # 0
                 PROVE  after[j].pos <= after[i].pos + 1
      BY DEF Sequent
    <2>1. i \in 1..N /\ j \in 1..N /\ aired[i] = after[i] /\ aired[j] = after[j]
      BY <1>3
    <2>2. \A k \in i+1..j-1 : aired[k].rt # 0
      <3> TAKE k \in i+1..j-1
      <3>1. k \in 1..N /\ k \in i+1..j-1
        BY <1>1, <2>1
      <3> QED BY <1>2, <3>1
    <2> QED BY <1>4, <1>5, <2>1, <2>2 DEF Sequent
  <1>6. ASSUME NEW p, LastFiller(after, p) PROVE LastFiller(aired, p)
    <2>1. PICK i \in 1..Len(after) : /\ after[i].rt = 0 /\ after[i].pos = p
                                     /\ \A j \in i+1..Len(after) : after[j].rt # 0
      BY <1>6 DEF LastFiller
    <2>2. i \in 1..N /\ aired[i] = after[i]
      BY <1>3, <2>1
    <2>3. \A j \in i+1..N : aired[j].rt # 0
      BY <1>1, <1>2, <2>1, <2>2
    <2> QED BY <1>4, <2>1, <2>2, <2>3 DEF LastFiller
  <1> QED BY <1>5, <1>6

LEMMA FillerAired ==
    ASSUME NEW aired \in Airings, NEW n \in Nat, NEW after, Adds(aired, after, 0, n),
           Sequent(aired), \A p \in Nat : LastFiller(aired, p) => n <= p + 1
    PROVE  Sequent(after) /\ \A p : LastFiller(after, p) => p = n
  <1> DEFINE q == [rt |-> 0, pos |-> n]
             N == Len(aired)
  <1>1. q \in [rt : Nat, pos : Nat] /\ N \in Nat /\ q.rt = 0 /\ q.pos = n
    BY LenProperties DEF Airings
  <1>2. Len(after) = N + 1 /\ after[N + 1] = q /\ \A i \in 1..N : after[i] = aired[i]
    BY <1>1, AppendProperties DEF Airings, Adds
  <1>3. \A i \in 1..N : aired[i].pos \in Nat
    <2> TAKE i \in 1..N
    <2>1. aired[i] \in [rt : Nat, pos : Nat]
      BY <1>1, ElementOfSeq DEF Airings
    <2> QED BY <2>1
  <1> HIDE DEF q, N
  <1>0. \A i \in 1..Len(after) : i \in 1..N \/ i = N + 1
    BY <1>1, <1>2
  <1>4. N = Len(aired)
    BY DEF N
  <1>5. Sequent(after)
    <2> SUFFICES ASSUME NEW i \in 1..Len(after), NEW j \in 1..Len(after), i < j,
                        after[i].rt = 0, after[j].rt = 0,
                        \A k \in i+1..j-1 : after[k].rt # 0
                 PROVE  after[j].pos <= after[i].pos + 1
      BY DEF Sequent
    <2>1. i \in 1..N /\ aired[i] = after[i]
      BY <1>1, <1>2
    <2>2. CASE j \in 1..N
      <3>1. aired[j] = after[j]
        BY <1>2, <2>2
      <3>2. \A k \in i+1..j-1 : aired[k].rt # 0
        BY <1>1, <1>2, <2>1, <2>2
      <3> QED BY <1>4, <2>1, <2>2, <3>1, <3>2 DEF Sequent
    <2>3. CASE j = N + 1
      <3>1. \A k \in i+1..N : aired[k].rt # 0
        BY <1>1, <1>2, <2>1, <2>3
      <3>2. LastFiller(aired, aired[i].pos)
        BY <1>4, <2>1, <3>1 DEF LastFiller
      <3>3. n <= aired[i].pos + 1
        BY <1>3, <2>1, <3>2
      <3> QED BY <1>1, <1>2, <2>1, <2>3, <3>3
    <2> QED BY <1>0, <2>2, <2>3
  <1>6. ASSUME NEW p, LastFiller(after, p) PROVE p = n
    <2>1. PICK i \in 1..Len(after) : /\ after[i].rt = 0 /\ after[i].pos = p
                                     /\ \A j \in i+1..Len(after) : after[j].rt # 0
      BY <1>6 DEF LastFiller
    <2>2. i = N + 1
      <3> SUFFICES ASSUME i # N + 1 PROVE FALSE
        OBVIOUS
      <3>1. N + 1 \in i+1..Len(after)
        BY <1>1, <1>2
      <3> QED BY <1>1, <1>2, <2>1, <3>1
    <2> QED BY <1>1, <1>2, <2>1, <2>2
  <1> QED BY <1>5, <1>6

--------------------------------------------------------------------------------
\* Where the rotation's cursor is

\* The row is at most d ahead of the engine, and the engine at most e ahead of the
\* filler that went on the air last.
Continuous(x, d, e) ==
    /\ Sequent(x.aired)
    /\ x.row.auto => x.mem.auto /\ x.row.cursor <= x.mem.cursor + d
    /\ x.mem.auto => \A p \in Nat : LastFiller(x.aired, p) => x.mem.cursor <= p + e

LEMMA RadioParts ==
    ASSUME NEW x \in Radio
    PROVE  /\ x.row \in Sequencing /\ x.mem \in Sequencing
           /\ x.row.cursor \in Nat /\ x.mem.cursor \in Nat
           /\ x.row.auto \in BOOLEAN /\ x.mem.auto \in BOOLEAN
           /\ x.aired \in Airings
           /\ x.active \in Nat /\ x.onAir \in Nat
  BY DEF Radio, Sequencing, Airings

LEMMA ContinuousWeaker ==
    ASSUME NEW x \in Radio, Continuous(x, 0, 0), NEW d \in {0, 1}, NEW e \in {0, 1}
    PROVE  Continuous(x, d, e)
  <1>1. x.row.cursor \in Nat /\ x.mem.cursor \in Nat
    BY RadioParts
  <1>2. x.row.auto => x.mem.auto /\ x.row.cursor <= x.mem.cursor + d
    BY <1>1 DEF Continuous
  <1>3. ASSUME x.mem.auto, NEW p \in Nat, LastFiller(x.aired, p) PROVE x.mem.cursor <= p + e
    <2>1. x.mem.cursor <= p + 0
      BY <1>3 DEF Continuous
    <2> QED BY <1>1, <2>1
  <1> QED BY <1>2, <1>3 DEF Continuous

LEMMA ContinuousSame ==
    ASSUME NEW x, NEW y, y.row = x.row, y.mem = x.mem, y.aired = x.aired, NEW d, NEW e,
           Continuous(x, d, e)
    PROVE  Continuous(y, d, e)
  BY DEF Continuous

\* maybeStartSequence commands the successor, if anything.
LEMMA RotationContinues ==
    ASSUME NEW x \in Radio, NEW e \in {0, 1}, Continuous(x, 0, e), e = 1 => x.active = 0
    PROVE  LET y == RotationStarts(x)
           IN  Continuous(y, 0, 0) /\ y.row = x.row /\ y.mem = x.mem
  <1>1. /\ x.mem.cursor \in Nat /\ x.row.cursor \in Nat
        /\ x.aired \in Airings
    BY RadioParts
  <1>2. CASE x.mem.auto /\ x.active = 0
    <2> DEFINE n == x.mem.cursor
               after == Append(x.aired, [rt |-> 0, pos |-> n])
               y == RotationStarts(x)
    <2>1. y.aired = after /\ y.row = x.row /\ y.mem = x.mem
      <3> DEFINE s == Silenced(x)
                 m == Len(s.aired) + 1
      <3>1. y = Takes(x, 0, n) /\ s.aired = x.aired /\ s \in Radio
        BY <1>2, SilencedType DEF RotationStarts
      <3>2. s.row = x.row /\ s.mem = x.mem
        BY DEF Silenced, Radio
      <3>3. y = [s EXCEPT !.aired = after, !.onAir = m, !.active = m]
        BY <3>1 DEF Takes
      <3> HIDE DEF s, m, after, y
      <3> QED BY <3>1, <3>2, <3>3 DEF Radio
    <2> HIDE DEF y, n
    <2>2. n \in Nat /\ Sequent(x.aired) /\ \A p \in Nat : LastFiller(x.aired, p) => n <= p + 1
      <3>1. n \in Nat
        BY <1>1 DEF n
      <3>2. \A p \in Nat : LastFiller(x.aired, p) => n <= p + 1
        <4> SUFFICES ASSUME NEW p \in Nat, LastFiller(x.aired, p) PROVE n <= p + 1
          OBVIOUS
        <4>1. n <= p + e
          BY <1>2 DEF Continuous, n
        <4> QED BY <3>1, <4>1
      <3> QED BY <3>1, <3>2 DEF Continuous
    <2>3. Sequent(after) /\ \A p : LastFiller(after, p) => p = n
      <3> DEFINE aired == x.aired
      <3>1. /\ Adds(aired, after, 0, n) /\ aired \in Airings /\ n \in Nat /\ Sequent(aired)
            /\ \A p \in Nat : LastFiller(aired, p) => n <= p + 1
        BY <1>1, <2>2 DEF Adds
      <3> HIDE DEF after, aired
      <3> QED BY <3>1, FillerAired
    <2> HIDE DEF after
    <2>4. y.row.auto => y.mem.auto /\ y.row.cursor <= y.mem.cursor + 0
      <3>1. x.row.auto => x.mem.auto /\ x.row.cursor <= x.mem.cursor + 0
        BY DEF Continuous
      <3> QED BY <2>1, <3>1
    <2>5. \A p \in Nat : LastFiller(after, p) => y.mem.cursor <= p + 0
      BY <2>1, <2>2, <2>3 DEF n
    <2> QED BY <2>1, <2>3, <2>4, <2>5 DEF Continuous, y
  <1>3. CASE ~(x.mem.auto /\ x.active = 0)
    <2>1. RotationStarts(x) = x
      BY <1>3 DEF RotationStarts
    <2>2. CASE ~x.mem.auto
      <3>1. ~x.row.auto
        BY <2>2 DEF Continuous
      <3> QED BY <2>1, <2>2, <3>1 DEF Continuous
    <2>3. CASE e = 0
      BY <2>1, <2>3
    <2> QED BY <1>3, <2>2, <2>3
  <1> QED BY <1>2, <1>3

\* The end of what the engine believes in, outside a clocked log.
LEMMA EndContinues ==
    ASSUME NEW x \in Radio, NEW e \in {0, 1}, Continuous(x, 0, e), NEW n, e = 1 => n = 0
    PROVE  LET y == Continues(x, n)
           IN  Continuous(y, 0, 0) /\ y.row = x.row /\ y.mem.auto = x.mem.auto
  <1> DEFINE moves == x.mem.auto /\ IsRotation(x, n)
             c == IF moves THEN x.mem.cursor + 1 ELSE x.mem.cursor
             m == [x.mem EXCEPT !.cursor = c]
             y == [x EXCEPT !.active = 0, !.mem = m]
  <1>1. x.mem \in Sequencing /\ x.mem.cursor \in Nat /\ x.row.cursor \in Nat
    BY RadioParts
  <1>2. c \in Nat /\ x.mem.cursor <= c
    BY <1>1
  <1>3. Continues(x, n) = RotationStarts(y)
    BY <1>1 DEF Continues, Radio, Sequencing
  <1>4. ASSUME x.mem.auto, NEW p \in Nat, LastFiller(x.aired, p) PROVE c <= p + 1
    <2>1. x.mem.cursor <= p + e
      BY <1>4 DEF Continuous
    <2>2. moves => e = 0
      BY DEF IsRotation
    <2> HIDE DEF moves
    <2> QED BY <1>1, <2>1, <2>2
  <1> HIDE DEF c
  <1>5. m \in Sequencing /\ m.auto = x.mem.auto /\ m.cursor = c
    BY <1>1, <1>2 DEF Sequencing
  <1> HIDE DEF m
  <1>6. y \in Radio /\ y.active = 0 /\ y.mem = m /\ y.row = x.row /\ y.aired = x.aired
    BY <1>5 DEF Radio
  <1> HIDE DEF y
  <1>7. Continuous(y, 0, 1)
    <2>1. x.row.auto => x.mem.auto /\ x.row.cursor <= c + 0
      BY <1>1, <1>2 DEF Continuous
    <2>2. Sequent(x.aired)
      BY DEF Continuous
    <2> QED BY <1>4, <1>5, <1>6, <2>1, <2>2 DEF Continuous
  <1>8. Continuous(RotationStarts(y), 0, 0) /\ RotationStarts(y).row = y.row
        /\ RotationStarts(y).mem = y.mem
    <2> DEFINE e1 == 1
    <2>1. e1 \in {0, 1} /\ Continuous(y, 0, e1)
      BY <1>7
    <2> HIDE DEF e1
    <2> QED BY <1>6, <2>1, RotationContinues
  <1> QED BY <1>3, <1>5, <1>6, <1>8

\* A cue's song goes on the air.
LEMMA CueTakes ==
    ASSUME NEW x \in Radio, Continuous(x, 0, 0), NEW r \in Nat \ {0}, NEW n \in Nat
    PROVE  LET y == Takes(x, r, n)
           IN  Continuous(y, 0, 0) /\ y.row = x.row /\ y.mem = x.mem
  <1> DEFINE after == Append(x.aired, [rt |-> r, pos |-> n])
             y == Takes(x, r, n)
             s == Silenced(x)
             m == Len(s.aired) + 1
  <1>1. s.aired = x.aired /\ s \in Radio /\ x.aired \in Airings
    BY SilencedType, RadioParts
  <1>2. s.row = x.row /\ s.mem = x.mem
    BY DEF Silenced, Radio
  <1>3. y = [s EXCEPT !.aired = after, !.onAir = m, !.active = m]
    BY <1>1 DEF Takes
  <1> HIDE DEF s, m, after, y
  <1>4. y.aired = after /\ y.row = x.row /\ y.mem = x.mem
    BY <1>1, <1>2, <1>3 DEF Radio
  <1>5. Sequent(x.aired)
    BY DEF Continuous
  <1>6. Sequent(after) /\ \A p : LastFiller(after, p) => LastFiller(x.aired, p)
    <2> DEFINE aired == x.aired
    <2>1. Adds(aired, after, r, n) /\ aired \in Airings /\ Sequent(aired)
      BY <1>1, <1>5 DEF after, Adds
    <2> HIDE DEF aired
    <2>2. Sequent(after) /\ \A p : LastFiller(after, p) => LastFiller(aired, p)
      BY <2>1, CueAired
    <2> QED BY <2>2 DEF aired
  <1> QED BY <1>4, <1>6 DEF Continuous, y

\* The rotation is stopped in the row, and in the engine's memory after that; what
\* plays is silenced.
LEMMA StopsContinuous ==
    ASSUME NEW x \in Radio, NEW d, NEW e, Continuous(x, d, e)
    PROVE  /\ Continuous(RowStopped(x), d, e) /\ ~RowStopped(x).row.auto
           /\ RowStopped(x).mem = x.mem /\ RowStopped(x).active = x.active
           /\ ~x.row.auto => Continuous(MemStopped(x), d, e) /\ MemStopped(x).row = x.row
           /\ MemStopped(x).active = x.active
           /\ Continuous(Silenced(x), d, e) /\ Silenced(x).row = x.row
           /\ Silenced(x).mem = x.mem /\ Silenced(x).active = x.active
           /\ Silenced(x).aired = x.aired
  <1>1. ~Stopped.auto /\ Stopped.cursor = 0
    BY DEF Stopped
  <1> DEFINE y == RowStopped(x)
             z == MemStopped(x)
             w == Silenced(x)
             s == Stopped
  <1>2. /\ y.row = s /\ y.mem = x.mem /\ y.aired = x.aired /\ y.active = x.active
        /\ z.row = x.row /\ z.mem = s /\ z.aired = x.aired /\ z.active = x.active
    BY DEF RowStopped, MemStopped, Radio
  <1>3. w.row = x.row /\ w.mem = x.mem /\ w.aired = x.aired /\ w.active = x.active
    BY DEF Silenced, Radio
  <1> HIDE DEF y, z, w, s
  <1>4. ~s.auto
    BY <1>1 DEF s
  <1>5. Continuous(y, d, e) /\ Continuous(w, d, e) /\ (~x.row.auto => Continuous(z, d, e))
    BY <1>2, <1>3, <1>4 DEF Continuous
  <1> QED BY <1>2, <1>3, <1>4, <1>5 DEF y, z, w

\* prepareContinuousRotationResume writes the successor to the row, then to the
\* engine's memory.
LEMMA PreparesContinuous ==
    ASSUME NEW x \in Radio, x.mem.auto, NEW s, s = [x.mem EXCEPT !.cursor = @ + 1]
    PROVE  /\ Continuous(x, 0, 0) => Continuous([x EXCEPT !.row = s], 1, 0)
           /\ Continuous(x, 1, 0) => Continuous([x EXCEPT !.mem = s], 0, 1)
  <1> DEFINE y == [x EXCEPT !.row = s]
             z == [x EXCEPT !.mem = s]
             n == x.mem.cursor
  <1>1. x.mem.cursor \in Nat /\ x.row.cursor \in Nat
    BY RadioParts
  <1>2. s.auto /\ s.cursor = n + 1 /\ n \in Nat
    BY <1>1 DEF Radio, Sequencing
  <1>3. /\ y.row = s /\ y.mem = x.mem /\ y.aired = x.aired
        /\ z.row = x.row /\ z.mem = s /\ z.aired = x.aired
    BY DEF Radio
  <1> HIDE DEF y, z
  <1>4. Continuous(x, 0, 0) => Continuous(y, 1, 0)
    <2>1. y.row.cursor <= y.mem.cursor + 1 /\ y.mem.auto
      BY <1>2, <1>3
    <2> QED BY <1>3, <2>1 DEF Continuous
  <1>5. ASSUME Continuous(x, 1, 0) PROVE Continuous(z, 0, 1)
    <2>1. z.row.auto => z.mem.auto /\ z.row.cursor <= z.mem.cursor + 0
      <3>1. x.row.auto => x.row.cursor <= n + 1
        BY <1>5 DEF Continuous
      <3> QED BY <1>1, <1>2, <1>3, <3>1
    <2>2. ASSUME NEW p \in Nat, LastFiller(x.aired, p) PROVE z.mem.cursor <= p + 1
      <3>1. n <= p + 0
        BY <1>5, <2>2 DEF Continuous
      <3> QED BY <1>2, <1>3, <3>1
    <2> QED BY <1>3, <1>5, <2>1, <2>2 DEF Continuous
  <1> QED BY <1>4, <1>5 DEF y, z

\* The engine restarts from the row.
LEMMA RebootedContinuous ==
    ASSUME NEW x \in Radio, Continuous(x, 0, 0)
    PROVE  Continuous(Rebooted(x), 0, 0)
  <1> DEFINE y == Rebooted(x)
  <1>1. y.row = x.row /\ y.mem = x.row /\ y.aired = x.aired
    BY DEF Rebooted, Radio
  <1> HIDE DEF y
  <1>2. x.row.cursor \in Nat /\ x.mem.cursor \in Nat
    BY RadioParts
  <1>3. ASSUME x.row.auto, NEW p \in Nat, LastFiller(x.aired, p) PROVE x.row.cursor <= p + 0
    <2>1. x.row.cursor <= x.mem.cursor + 0 /\ x.mem.cursor <= p + 0
      BY <1>3 DEF Continuous
    <2> QED BY <1>2, <2>1
  <1> QED BY <1>1, <1>2, <1>3 DEF Continuous, y

--------------------------------------------------------------------------------
\* What every step preserves

\* A block that runs, or is about to be started, has reached its start.
Sched == calls["scheduler"]
Due(l) == logs[l].sched <= clock
Activates == {"activate", "activating"}
BeginSteps == {"unmark", "start", "starting"}
DueInv ==
    /\ flight.owner # 0 \/ Sched.at \in BeginSteps => pointer # None /\ Due(pointer)
    /\ \A l \in Sched.due : Due(l)
    /\ Sched.at \in Activates => Due(Sched.log)

\* A completed block hands the air back: from the write of the row's cursor until the
\* rotation resumes.  The row is ahead of the engine at first, then the engine of what
\* went on the air, until the rotation resumes by itself or is resumed.
HandsOver(k) == k.at = "prepared" \/ Stage(k) = "resume"
Lag(k) == IF k.at = "prepared" THEN 1 ELSE 0
Lead(k, x) == IF Stage(k) = "resume" /\ (k.at = "resume" => x.active = 0) THEN 1 ELSE 0

\* A call that prepares the resumption has the cursor of the filler that follows, and
\* it resumes once its runtime has left the map; a stop of the rotation that reaches
\* the engine has been written to the row.
Agrees(k, f, x) ==
    /\ Stage(k) \in {"prepare", "prepared"} =>
          /\ k.at = Stage(k) /\ f.owner # 0
          /\ x.mem.auto /\ k.cursor = [x.mem EXCEPT !.cursor = @ + 1]
    /\ Stage(k) = "resume" => (f.owner = 0 <=> k.at = "resume")
    /\ k.at = "cutting" /\ ~k.keep => ~x.row.auto
    /\ Continuous(x, Lag(k), Lead(k, x))

\* No call but c is under way.
OneCall(c) == \A d \in Callers \ {c} : ~Busy(calls[d])
AirInv == \A c \in Callers : OneCall(c) => Agrees(calls[c], flight, radio)

FillerInv == DueInv /\ AirInv

\* All the invariants.
Invs == TypeInv /\ ClaimInv /\ OrderInv /\ BlockInv /\ FillerInv

LEMMA Leads ==
    ASSUME NEW k, NEW x
    PROVE  /\ Lag(k) \in {0, 1} /\ Lead(k, x) \in {0, 1}
           /\ ~HandsOver(k) => Lag(k) = 0 /\ Lead(k, x) = 0
           /\ Stage(k) = "resume" => Lag(k) = 0
           /\ k.at = "prepared" => Lead(k, x) = 0
  BY DEF Lag, Lead, HandsOver, Stage

\* A call that completes no block.
LEMMA PlainAgrees ==
    ASSUME NEW k, Stage(k) \notin {"prepare", "prepared", "resume"}, NEW f, NEW x
    PROVE  /\ Agrees(k, f, x) => Continuous(x, 0, 0)
           /\ Continuous(x, 0, 0) /\ (k.at = "cutting" /\ ~k.keep => ~x.row.auto)
                 => Agrees(k, f, x)
  <1>1. ~HandsOver(k)
    BY DEF HandsOver, Stage
  <1>2. Lag(k) = 0 /\ Lead(k, x) = 0
    BY <1>1, Leads
  <1> QED BY <1>2 DEF Agrees

\* A call at rest.
LEMMA RestAgrees ==
    ASSUME NEW k, ~Busy(k), NEW f, NEW x
    PROVE  Agrees(k, f, x) <=> Continuous(x, 0, 0)
  <1>1. Stage(k) = k.at /\ k.at \in {"idle", "claim"}
    BY DEF Busy, Claimless, Stage
  <1> QED BY <1>1, PlainAgrees

\* The call of a block that completes.
LEMMA FinishingAgrees ==
    ASSUME NEW x \in Radio, Continuous(x, 0, 0), x.mem = radio.mem,
           NEW f, NEW g, g.owner = f.owner, g.owner # 0, NEW r
    PROVE  Agrees(Finishing(Idle, f, r), g, x) /\ Busy(Finishing(Idle, f, r))
  <1> DEFINE k == Finishing(Idle, f, r)
             c == "turn"
  <1>1. /\ Busy(k) /\ k.at \in {"mark", "prepare"}
        /\ k.at = "prepare" => radio.mem.auto /\ k.cursor = [radio.mem EXCEPT !.cursor = @ + 1]
        /\ Stage(k) \in {"end", "resume", "prepare"}
    <2>1. c # "scheduler"
      OBVIOUS
    <2> HIDE DEF c
    <2> QED BY <2>1, FinishingFits
  <1> HIDE DEF k
  <1>2. Stage(k) = "prepare" => k.at = "prepare"
    <2>1. k.at = "mark" => Stage(k) # "prepare" \/ Stage(k) = k.then
      BY DEF Stage
    <2>2. k.at = "mark" => Stage(k) \in {"end", "resume"}
      <3>1. k.at = "mark" => k.then \in {"end", "resume"}
        BY DEF k, Finishing, Stopping, Idle
      <3> QED BY <3>1 DEF Stage
    <2> QED BY <1>1, <2>2
  <1>3. Continuous(x, Lag(k), Lead(k, x))
    BY Leads, ContinuousWeaker
  <1> QED BY <1>1, <1>2, <1>3 DEF Agrees, k

LEMMA SomeCall ==
    ASSUME AloneInv
    PROVE  /\ \E c \in Callers : OneCall(c)
           /\ \A c \in Callers : Busy(calls[c]) => OneCall(c)
  <1>1. "turn" \in Callers
    BY DEF Callers
  <1> QED BY <1>1 DEF AloneInv, OneCall

\* Nobody is busy.
LEMMA AirAtRest ==
    ASSUME AirInv, \A c \in Callers : ~Busy(calls[c])
    PROVE  Continuous(radio, 0, 0)
  <1>1. "turn" \in Callers
    BY DEF Callers
  <1>2. Agrees(calls["turn"], flight, radio)
    BY <1>1 DEF AirInv, OneCall
  <1> QED BY <1>1, <1>2, RestAgrees

LEMMA AirRests ==
    ASSUME Continuous(radio', 0, 0), \A c \in Callers : ~Busy(calls'[c])
    PROVE  AirInv'
  BY RestAgrees DEF AirInv

\* The call under way goes on.
LEMMA AirGoes ==
    ASSUME TypeInv, NEW c \in Callers, OneCall(c), NEW k, Go(c, k), Agrees(k, flight', radio')
    PROVE  AirInv'
  <1>1. calls'[c] = k /\ \A d \in Callers \ {c} : calls'[d] = calls[d]
    BY Typed DEF Go
  <1> SUFFICES ASSUME NEW d \in Callers, OneCall(d)' PROVE Agrees(calls'[d], flight', radio')
    BY DEF AirInv
  <1>2. CASE d = c
    BY <1>1, <1>2
  <1>3. CASE d # c
    <2>1. ~Busy(k) /\ ~Busy(calls'[d])
      BY <1>1, <1>3 DEF OneCall
    <2>2. Continuous(radio', 0, 0)
      BY <2>1, RestAgrees
    <2> QED BY <2>1, <2>2, RestAgrees
  <1> QED BY <1>2, <1>3

\* Calls stay where they are, and so does the radio, or it takes an end for the
\* engine's.
SameAir(x, y) == y.row = x.row /\ y.mem = x.mem /\ y.aired = x.aired /\ y.active \in {x.active, 0}
LEMMA SameAgrees ==
    ASSUME NEW k, NEW f, NEW g, g.owner = f.owner, NEW x \in Radio, NEW y, SameAir(x, y),
           Agrees(k, f, x)
    PROVE  Agrees(k, g, y)
  <1>1. Continuous(x, Lag(k), Lead(k, y))
    <2>1. CASE Lead(k, y) = Lead(k, x)
      BY <2>1 DEF Agrees
    <2>2. CASE Lead(k, y) # Lead(k, x)
      <3>1. Stage(k) = "resume" /\ Lag(k) = 0 /\ Lead(k, x) = 0
        BY <2>2, Leads DEF Lead, SameAir
      <3>2. Continuous(x, 0, 0)
        BY <3>1 DEF Agrees
      <3> QED BY <3>1, <3>2, Leads, ContinuousWeaker
    <2> QED BY <2>1, <2>2
  <1>2. Continuous(y, Lag(k), Lead(k, y))
    BY <1>1, ContinuousSame DEF SameAir
  <1> QED BY <1>2 DEF Agrees, SameAir

LEMMA AirStays ==
    ASSUME TypeInv, AirInv, \A c \in Callers : Still(c), flight'.owner = flight.owner,
           SameAir(radio, radio')
    PROVE  AirInv'
  <1> SUFFICES ASSUME NEW c \in Callers, OneCall(c)' PROVE Agrees(calls'[c], flight', radio')
    BY DEF AirInv
  <1>1. OneCall(c)
    BY DEF OneCall, Still
  <1>2. Agrees(calls[c], flight, radio) /\ radio \in Radio
    BY <1>1, Typed DEF AirInv
  <1>3. Agrees(calls[c], flight', radio')
    <2> DEFINE k == calls[c]
               f == flight
               g == flight'
               x == radio
               y == radio'
    <2>1. g.owner = f.owner /\ SameAir(x, y) /\ x \in Radio /\ Agrees(k, f, x)
      BY <1>2
    <2> HIDE DEF k, f, g, x, y
    <2>2. Agrees(k, g, y)
      BY <2>1, SameAgrees
    <2> QED BY <2>2 DEF k, g, y
  <1>4. CASE ~Busy(calls[c]) /\ ~Busy(calls'[c])
    BY <1>3, <1>4, RestAgrees
  <1> QED BY <1>3, <1>4 DEF Still

--------------------------------------------------------------------------------
\* Time goes on, and starts stay

Later == /\ \A l \in Logs : logs'[l].sched = logs[l].sched
         /\ clock \in Nat /\ clock' \in {clock, clock + 1}

LEMMA ClockRuns ==
    ASSUME [Next]_vars
    PROVE  clock' \in {clock, clock + 1}
  <1> USE DEF OnlyFlight
  <1>1. CASE UNCHANGED vars
    BY <1>1 DEF vars
  <1>2. ASSUME NEW c \in Callers, Proceeds(c) PROVE clock' = clock
    <2>1. CASE Stops(c) \/ Completes(c)
      BY <2>1 DEF Stops, StopMarks, StopCuts, StopForwards, StopEnds,
                  Completes, Prepares, Prepared, Resumes
    <2>2. CASE Starts(c)
      BY <2>2 DEF Starts, StartReads, StartChecks, StartLaunches, StartPersists, StartAnnounces
    <2>3. CASE Manages(c)
      BY <2>3 DEF Manages, ActivateReads, ActivateChecks, ActivatePoints, ActivateUnmarks,
                  DeactivateEnds, ResetRewinds, DeleteUnlists, DeleteUnpoints, PublishWrites
    <2> QED BY <1>2, <2>1, <2>2, <2>3 DEF Proceeds
  <1>3. CASE Schedules
    BY <1>3 DEF Schedules, Poll, Claims
  <1>4. CASE Turns
    BY <1>4 DEF Turns, CueDropped, CueOutOfRange, CueHeld, CueBegins, CueUnplayable,
                CueTakesSong, CueStopsSong, CueNeedsNoAir, EditBegins, EditWrites, EditApplies
  <1>5. CASE Timers \/ Reports
    BY <1>5 DEF Timers, HoldFires, WaitFires, SongEndTimesOut, ClipFires, HardFires,
                Reports, EndArrives
  <1>6. CASE IdleSnapshot \/ TrackEnds \/ Ticks
    BY <1>6 DEF IdleSnapshot, TrackEnds, Ticks
  <1>7. CASE Operator
    BY <1>7 DEF Operator, Quiet, AskStart, AskStop, AskReset, AskDeactivate, AskGo, AskActivate,
                AskDelete, AskPublish, AskEdit
  <1>8. CASE Faults
    BY <1>8 DEF Faults, Restart, StopFails, PrepareFails, Disable
  <1> QED BY <1>1, <1>2, <1>3, <1>4, <1>5, <1>6, <1>7, <1>8 DEF Next

LEMMA NextIsLater ==
    ASSUME TypeInv, [Next]_vars
    PROVE  Later
  <1>1. \A l \in Logs : logs'[l].sched = logs[l].sched
    <2>1. CASE Saved
      BY <2>1 DEF Saved
    <2>2. CASE ~Saved
      <3>1. RowsKeep
        BY <2>2, EveryStep DEF Progress, Ordinary, Launched, Claimed, Began, Relisted
      <3> QED BY <3>1 DEF RowsKeep, RowKeeps
    <2> QED BY <2>1, <2>2
  <1> QED BY <1>1, ClockRuns, Typed DEF Later

\* What was due stays due.
LEMMA DueLater ==
    ASSUME TypeInv, Later, NEW l \in Logs, Due(l)
    PROVE  Due(l)'
  <1>1. logs[l].sched \in Nat \cup {Unclocked} /\ Unclocked = -1
    BY Typed DEF Row, Unclocked
  <1> QED BY <1>1 DEF Later, Due

LEMMA DueGoes ==
    ASSUME TypeInv, TypeInv', DueInv, Later, UNCHANGED pointer,
           flight'.owner # 0 \/ Sched'.at \in BeginSteps => flight.owner # 0 \/ Sched.at \in BeginSteps,
           \A l \in Sched'.due : l \in Sched.due \/ (l \in Logs /\ Due(l)),
           Sched'.at \in Activates => Sched'.log \in Logs /\ Due(Sched'.log)
    PROVE  DueInv'
  <1>1. flight'.owner # 0 \/ Sched'.at \in BeginSteps => pointer' # None /\ Due(pointer)'
    <2> SUFFICES ASSUME flight'.owner # 0 \/ Sched'.at \in BeginSteps
                 PROVE  pointer' # None /\ Due(pointer)'
      OBVIOUS
    <2>1. pointer # None /\ Due(pointer) /\ pointer \in Logs
      BY Typed DEF DueInv
    <2> QED BY <2>1, DueLater DEF Due
  <1>2. \A l \in Sched'.due : Due(l)'
    <2>1. Sched.due \subseteq Logs
      <3>1. "scheduler" \in Callers
        BY DEF Callers
      <3> QED BY <3>1, Typed DEF Sched, CallRecord
    <2> QED BY <2>1, DueLater DEF DueInv
  <1>3. Sched'.at \in Activates => Due(Sched.log)'
    <2>1. \A l \in Logs : logs[l].sched <= clock => logs'[l].sched <= clock'
      BY DueLater DEF Due
    <2> QED BY <2>1 DEF Due
  <1> QED BY <1>1, <1>2, <1>3 DEF DueInv

\* What the steps of anyone but the scheduler leave as it is.
StartsNothing == /\ UNCHANGED pointer /\ calls'["scheduler"] = calls["scheduler"]
                 /\ flight'.owner \in {0, flight.owner}

LEMMA DueStays ==
    ASSUME TypeInv, TypeInv', DueInv, Later, StartsNothing
    PROVE  DueInv'
  <1>1. Sched' = Sched /\ "scheduler" \in Callers
    BY DEF StartsNothing, Sched, Callers
  <1>2. Sched \in Call(Len(flight.rts))
    BY <1>1, Typed DEF Sched
  <1>3. Sched.at \in Activates => Sched.log \in Logs /\ Due(Sched.log)
    BY <1>2 DEF DueInv, Activates, Call, Stage, OfLog
  <1> QED BY <1>1, <1>3, DueGoes DEF StartsNothing

\* A runtime in the map is of a clocked log that has reached its start.
LEMMA OwnsTheAir ==
    ASSUME Invs
    PROVE  OwnsAir(flight) <=> flight.owner # 0
  <1> SUFFICES ASSUME flight.owner # 0 PROVE OwnsAir(flight)
    BY DEF OwnsAir, IsRunning
  <1> DEFINE r == flight.owner
  <1>1. r \in 1..Len(flight.rts)
    BY Typed DEF Invs
  <1>2. flight.rts[r].running /\ flight.rts[r].log = pointer
    BY DEF Invs, BlockInv, AloneInv, Owned
  <1>3. Due(pointer) /\ flight.rts[r].sched = logs[pointer].sched
    BY <1>1, <1>2 DEF Invs, FillerInv, DueInv, ClaimInv
  <1>4. flight.rts[r].sched # Unclocked
    BY <1>1 DEF Invs, OrderInv, Steady, Single, Clockwork
  <1>5. flight.rts[r].sched \in Nat /\ clock \in Nat
    <2>1. flight.rts[r] \in Runtime
      BY <1>1, Typed, MemoryParts DEF Invs
    <2> QED BY <1>4, <2>1, Typed DEF Runtime, Invs
  <1> QED BY <1>2, <1>3, <1>4, <1>5 DEF OwnsAir, IsRunning, Due

--------------------------------------------------------------------------------
\* Stops, and blocks that complete

\* A call of anyone but the scheduler goes on.
LEMMA CallGoes ==
    ASSUME Invs, NEW c \in Callers, c # "scheduler", OneCall(c), NEW k, Go(c, k),
           Agrees(k, flight', radio'), UNCHANGED pointer, flight'.owner \in {0, flight.owner}
    PROVE  AirInv' /\ StartsNothing
  <1>1. TypeInv
    BY DEF Invs
  <1>2. calls'["scheduler"] = calls["scheduler"]
    BY <1>1, Typed DEF Go, Callers
  <1> QED BY <1>1, <1>2, AirGoes DEF StartsNothing

\* What holds of the call under way.
LEMMA CallFacts ==
    ASSUME Invs, NEW c \in Callers, Busy(calls[c])
    PROVE  /\ OneCall(c) /\ Agrees(calls[c], flight, radio) /\ radio \in Radio
           /\ calls[c] \in CallRecord(Len(flight.rts)) /\ Len(flight.rts) \in Nat
  <1>1. OneCall(c)
    BY SomeCall DEF Invs, BlockInv
  <1> QED BY <1>1, Typed DEF Invs, FillerInv, AirInv

\* One step further in a stop.
LEMMA CutAgrees ==
    ASSUME NEW n, NEW k \in CallRecord(n), k.at \in Cutting,
           NEW f, NEW g, g.owner = f.owner, NEW x, NEW y, Agrees(k, f, x),
           NEW at \in {"cut", "cutting", "cutDone"}, at = "cutting" /\ ~k.keep => ~y.row.auto,
           \A e : Continuous(x, 0, e) => Continuous(y, 0, e)
    PROVE  Agrees([k EXCEPT !.at = at], g, y)
  <1> DEFINE j == [k EXCEPT !.at = at]
  <1>1. j.at = at /\ j.then = k.then /\ j.keep = k.keep
    BY DEF CallRecord
  <1> HIDE DEF j
  <1>2. Stage(j) = k.then /\ Stage(k) = k.then /\ k.at \notin {"prepare", "prepared", "resume"}
    BY <1>1 DEF Stage, Cutting
  <1>3. k.then \notin {"prepare", "prepared"}
    BY <1>2 DEF Agrees
  <1>4. Lag(k) = 0 /\ Lag(j) = 0 /\ Lead(j, y) = Lead(k, x)
    BY <1>1, <1>2 DEF Lag, Lead
  <1>5. Continuous(y, Lag(j), Lead(j, y))
    BY <1>4 DEF Agrees
  <1> QED BY <1>1, <1>2, <1>3, <1>5 DEF Agrees, j

LEMMA CutKeepsAir ==
    ASSUME Invs, NEW c \in Callers, StopMarks(c) \/ StopCuts(c) \/ StopForwards(c)
    PROVE  AirInv' /\ StartsNothing
  <1> DEFINE k == calls[c]
             n == Len(flight.rts)
             x == radio
             y == radio'
  <1>1. k.at \in Cutting /\ UNCHANGED <<pointer, flight>>
    BY DEF StopMarks, StopCuts, StopForwards, Cutting
  <1>2. Busy(k) /\ c # "scheduler" /\ k \in CallRecord(n)
    BY <1>1, StopFacts DEF Invs
  <1>3. OneCall(c) /\ Agrees(k, flight, x) /\ x \in Radio
    BY <1>2, CallFacts
  <1>4. ASSUME NEW at \in {"cut", "cutting", "cutDone"}, Go(c, [k EXCEPT !.at = at]),
               at = "cutting" /\ ~k.keep => ~y.row.auto,
               \A e : Continuous(x, 0, e) => Continuous(y, 0, e)
        PROVE  AirInv' /\ StartsNothing
    <2> DEFINE j == [k EXCEPT !.at = at]
               f == flight
               g == flight'
    <2>1. Go(c, j) /\ g.owner = f.owner /\ UNCHANGED pointer /\ Agrees(k, f, x)
      BY <1>1, <1>3, <1>4
    <2>2. Agrees(j, g, y)
      <3> HIDE DEF k, n, x, y, f, g
      <3> QED BY <1>1, <1>2, <1>4, <2>1, CutAgrees
    <2> HIDE DEF j, k
    <2> QED BY <1>2, <1>3, <2>1, <2>2, CallGoes
  <1>5. CASE StopMarks(c)
    <2> DEFINE at == "cut"
    <2>1. at \in {"cut", "cutting", "cutDone"} /\ at # "cutting"
      OBVIOUS
    <2>2. Go(c, [k EXCEPT !.at = at]) /\ y = x
      BY <1>5 DEF StopMarks
    <2> HIDE DEF at, k, x, y
    <2> QED BY <1>4, <2>1, <2>2
  <1>6. CASE StopCuts(c)
    <2> DEFINE at == "cutting"
    <2>1. at \in {"cut", "cutting", "cutDone"}
      OBVIOUS
    <2>2. Go(c, [k EXCEPT !.at = at]) /\ y = IF k.keep THEN x ELSE RowStopped(x)
      BY <1>6 DEF StopCuts
    <2> HIDE DEF at, k, x, y
    <2>3. ~k.keep => ~y.row.auto
      BY <1>3, <2>2, RadioType, StopsContinuous DEF RowStopped, Stopped, Radio
    <2>4. \A e : Continuous(x, 0, e) => Continuous(y, 0, e)
      BY <1>3, <2>2, StopsContinuous
    <2> QED BY <1>4, <2>1, <2>2, <2>3, <2>4
  <1>7. CASE StopForwards(c)
    <2> DEFINE at == "cutDone"
               z == IF k.keep THEN x ELSE MemStopped(x)
    <2>1. at \in {"cut", "cutting", "cutDone"} /\ at # "cutting"
      OBVIOUS
    <2>2. Go(c, [k EXCEPT !.at = at]) /\ y = Silenced(z) /\ k.at = "cutting"
      BY <1>7 DEF StopForwards
    <2> HIDE DEF at, k, x, y
    <2>3. ~k.keep => ~x.row.auto
      BY <1>3, <2>2 DEF Agrees
    <2>4. z \in Radio /\ \A e : Continuous(x, 0, e) => Continuous(z, 0, e)
      BY <1>3, <2>3, RadioType, StopsContinuous
    <2> HIDE DEF z
    <2>5. \A e : Continuous(x, 0, e) => Continuous(y, 0, e)
      BY <2>2, <2>4, StopsContinuous
    <2> QED BY <1>4, <2>1, <2>2, <2>5
  <1> QED BY <1>5, <1>6, <1>7

\* What follows a stop for anything but a block that hands the air back.
LEMMA OnwardAgrees ==
    ASSUME NEW n, NEW k \in CallRecord(n), k.at \in Cutting, k.then \in Ending \cup OfCue,
           k.then \notin {"prepare", "prepared", "resume"}, NEW g, NEW x, Continuous(x, 0, 0)
    PROVE  Agrees(Onward(k, k.then), g, x)
  <1>1. CASE k.then = "end"
    <2>1. ~Busy(Returned(k)) /\ Onward(k, k.then) = Returned(k)
      BY <1>1, ReturnedRests DEF Onward
    <2> QED BY <2>1, RestAgrees
  <1>2. CASE k.then # "end"
    <2> DEFINE j == [k EXCEPT !.at = k.then]
    <2>1. Onward(k, k.then) = j /\ j.at = k.then
      BY <1>2 DEF Onward, CallRecord
    <2> HIDE DEF j
    <2>2. j.at \in {"idle", "cue", "after"}
      BY <1>2, <2>1 DEF Ending, OfCue
    <2>3. Stage(j) = j.at
      BY <2>2 DEF Stage
    <2> QED BY <2>1, <2>2, <2>3, PlainAgrees
  <1> QED BY <1>1, <1>2

\* An error ends a call, or has it stop the program.
LEMMA FailedAgrees ==
    ASSUME NEW n \in Nat, NEW k \in Call(n), NEW h, NEW p, NEW c, Busy(k), Fits(c, k, h, p),
           NEW f, NEW g, NEW x, Continuous(x, 0, 0)
    PROVE  Agrees(Failed(k, f), g, x)
  <1> DEFINE j == Failed(k, f)
  <1>1. j.at \in Claimless \cup {"mark"} /\ (j.at = "mark" => Stage(j) = "end")
    <2> DEFINE e == f
    <2>1. e.owner = f.owner
      OBVIOUS
    <2> QED BY <2>1, FailedFits
  <1> HIDE DEF j
  <1>2. CASE ~Busy(j)
    BY <1>2, RestAgrees DEF j
  <1>3. CASE j.at = "mark"
    BY <1>1, <1>3, PlainAgrees DEF j
  <1> QED BY <1>1, <1>2, <1>3 DEF Busy

\* The runtime that was stopped leaves the map, if the stop was for a block.
LEMMA ReleasedAir ==
    ASSUME Invs, NEW c \in Callers, calls[c].at \in {"cutting", "cutDone"}
    PROVE  LET f == Released(flight, calls[c].held)
           IN  /\ f.owner \in {0, flight.owner} /\ IsMemory(f) /\ Held(f)
               /\ calls[c].then \notin OfCue => f.owner = 0
               /\ \A g : Lighter(f, g) => g.owner = f.owner
  BY ReleasedBlock DEF Invs, Lighter

LEMMA StopEndsKeepsAir ==
    ASSUME Invs, NEW c \in Callers, StopEnds(c)
    PROVE  AirInv' /\ StartsNothing
  <1> DEFINE k == calls[c]
             n == Len(flight.rts)
             x == radio
             y == radio'
             f == flight
             g == flight'
             j == Onward(k, k.then)
  <1>1. k.at \in Cutting /\ k.at \in {"cutting", "cutDone"} /\ UNCHANGED pointer /\ Go(c, j)
        /\ k.at # "resume"
    BY DEF StopEnds, Cutting
  <1>2. /\ Busy(k) /\ c # "scheduler" /\ k \in CallRecord(n) /\ Stage(k) = k.then
        /\ k.then \in Ending \cup OfCue
    BY <1>1, StopFacts DEF Invs
  <1>3. OneCall(c) /\ Agrees(k, f, x) /\ x \in Radio
    BY <1>2, CallFacts
  <1>4. g.owner \in {0, f.owner} /\ (k.then \notin OfCue => g.owner = 0)
    BY <1>1, ReleasedAir DEF StopEnds
  <1>5. y.row = x.row /\ y.mem = x.mem /\ y.aired = x.aired /\ y.active = 0
    BY <1>3 DEF StopEnds, Radio
  <1> HIDE DEF k, n, x, y, f, g
  <1>6. k.then \notin {"prepare", "prepared"}
    BY <1>1, <1>2, <1>3 DEF Agrees, Cutting
  <1>7. Agrees(j, g, y)
    <2>1. CASE k.then = "resume"
      <3>1. j = [k EXCEPT !.at = k.then]
        BY <2>1 DEF Onward
      <3>2. j.at = "resume"
        BY <1>2, <2>1, <3>1 DEF CallRecord
      <3> HIDE DEF j
      <3>3. Stage(j) = "resume" /\ Lag(j) = 0 /\ Lead(j, y) = 1
        BY <1>5, <3>2 DEF Stage, Lag, Lead
      <3>4. Lag(k) = 0 /\ Lead(k, x) = 1
        BY <1>1, <1>2, <2>1 DEF Lag, Lead, Cutting
      <3>5. Continuous(x, 0, 1)
        BY <1>3, <3>4 DEF Agrees
      <3>6. Continuous(y, 0, 1)
        BY <1>5, <3>5 DEF Continuous
      <3>7. g.owner = 0
        BY <1>4, <2>1 DEF OfCue
      <3> QED BY <3>2, <3>3, <3>6, <3>7 DEF Agrees
    <2>2. CASE k.then # "resume"
      <3>1. Continuous(x, 0, 0)
        BY <1>2, <1>3, <1>6, <2>2, PlainAgrees
      <3>2. Continuous(y, 0, 0)
        BY <1>5, <3>1 DEF Continuous
      <3>3. k.then \notin {"prepare", "prepared", "resume"}
        BY <1>6, <2>2
      <3> QED BY <1>1, <1>2, <3>2, <3>3, OnwardAgrees
    <2> QED BY <2>1, <2>2
  <1> HIDE DEF j
  <1> QED BY <1>1, <1>2, <1>3, <1>4, <1>7, CallGoes DEF f, g, y

\* A stop that fails while no block hands the air back.
LEMMA StopFailsKeepsAir ==
    ASSUME Invs, NEW c \in Callers, StopFails(c), ~HandsOver(calls[c])
    PROVE  AirInv' /\ StartsNothing
  <1> DEFINE k == calls[c]
             n == Len(flight.rts)
             x == radio
             y == radio'
             f == Released(flight, k.held)
             j == Onward(k, k.then)
  <1>1. /\ k.at \in Cutting /\ k.at = "cutting" /\ UNCHANGED pointer
        /\ y = IF k.keep THEN x ELSE MemStopped(x)
        /\ \/ /\ flight' = IF Recovers(k) THEN StopBegun(f) ELSE f
              /\ Go(c, Failed(k, f))
           \/ flight' = f /\ Go(c, j)
    BY DEF StopFails, Cutting
  <1>2. /\ Busy(k) /\ c # "scheduler" /\ k \in CallRecord(n) /\ Stage(k) = k.then
        /\ k.then \in Ending \cup OfCue /\ Fits(c, k, flight, pointer) /\ k \in Call(n)
        /\ n \in Nat
    BY <1>1, StopFacts DEF Invs
  <1>3. OneCall(c) /\ Agrees(k, flight, x) /\ x \in Radio
    BY <1>2, CallFacts
  <1>4. f.owner \in {0, flight.owner} /\ StopBegun(f).owner = f.owner
    <2>1. /\ f.owner \in {0, flight.owner} /\ IsMemory(f) /\ Held(f)
          /\ \A g : Lighter(f, g) => g.owner = f.owner
      BY <1>1, ReleasedAir
    <2> HIDE DEF f
    <2> QED BY <2>1, StopBegunLighter
  <1> HIDE DEF n, x, y, f
  <1>5. k.then \notin {"prepare", "prepared", "resume"}
    BY <1>1, <1>2, <1>3 DEF Agrees, HandsOver
  <1>6. Continuous(y, 0, 0)
    <2>1. Continuous(x, 0, 0)
      BY <1>2, <1>3, <1>5, PlainAgrees
    <2>2. ~k.keep => ~x.row.auto
      BY <1>1, <1>3 DEF Agrees
    <2> HIDE DEF k
    <2> QED BY <1>1, <1>3, <2>1, <2>2, StopsContinuous
  <1>7. CASE flight' = f /\ Go(c, j)
    <2> DEFINE g == f
    <2> HIDE DEF k
    <2>1. Agrees(j, f, y)
      BY <1>1, <1>2, <1>5, <1>6, OnwardAgrees
    <2> HIDE DEF j
    <2> QED BY <1>1, <1>2, <1>3, <1>4, <1>7, <2>1, CallGoes DEF y
  <1>8. CASE /\ flight' = IF Recovers(k) THEN StopBegun(f) ELSE f
             /\ Go(c, Failed(k, f))
    <2> DEFINE i == Failed(k, f)
               g == flight'
               h == flight
               p == pointer
    <2>1. Go(c, i) /\ flight'.owner \in {0, flight.owner}
      BY <1>4, <1>8
    <2>2. Fits(c, k, h, p)
      BY <1>2
    <2> HIDE DEF k, g, h, p
    <2>3. Agrees(i, g, y)
      BY <1>2, <1>6, <2>2, FailedAgrees
    <2> HIDE DEF i
    <2> QED BY <1>1, <1>2, <1>3, <2>1, <2>3, CallGoes DEF y, g
  <1> QED BY <1>1, <1>7, <1>8

\* finishBlock of a clocked log.
LEMMA CompletesKeepsAir ==
    ASSUME Invs, NEW c \in Callers, Completes(c) \/ PrepareFails(c)
    PROVE  AirInv' /\ StartsNothing
  <1> DEFINE k == calls[c]
             n == Len(flight.rts)
             x == radio
             y == radio'
             f == flight
  <1>1. k.at \in {"prepare", "prepared", "resume"} /\ UNCHANGED pointer /\ Busy(k)
    BY DEF Completes, Prepares, Prepared, Resumes, PrepareFails, Busy, Claimless
  <1>2. OneCall(c) /\ Agrees(k, f, x) /\ x \in Radio /\ k \in CallRecord(n) /\ n \in Nat
    BY <1>1, CallFacts
  <1>3. /\ IsMemory(f) /\ Held(f) /\ k \in Call(n) /\ Fits(c, k, f, pointer)
    BY <1>1, OrderFacts, Typed, AloneFacts DEF Invs, BlockInv
  <1>4. c # "scheduler"
    BY <1>1, <1>3 DEF Fits, SchedulerFits, Claimless, Launches, Announces
  <1>5. Stage(k) = k.at
    BY <1>1 DEF Stage
  <1>6. StopBegun(f).owner = f.owner
    BY <1>3, StopBegunLighter DEF Lighter
  <1>7. k.at = "prepare" => Continuous(x, 0, 0)
    <2> SUFFICES ASSUME k.at = "prepare" PROVE Continuous(x, 0, 0)
      OBVIOUS
    <2>1. Lag(k) = 0 /\ Lead(k, x) = 0
      BY <1>5 DEF Lag, Lead
    <2> QED BY <1>2, <2>1 DEF Agrees
  <1>8. CASE PrepareFails(c)
    <2> DEFINE j == Failed(k, f)
               g == flight'
               p == pointer
    <2>1. Go(c, j) /\ g.owner \in {0, f.owner} /\ y = x /\ k.at = "prepare"
      BY <1>6, <1>8 DEF PrepareFails, Fails
    <2>2. Continuous(y, 0, 0) /\ Fits(c, k, f, p)
      BY <1>3, <1>7, <2>1
    <2> HIDE DEF k, n, x, y, f, g, p
    <2>3. Agrees(j, g, y)
      BY <1>1, <1>2, <1>3, <2>2, FailedAgrees
    <2> HIDE DEF j
    <2> QED BY <1>1, <1>2, <1>4, <2>1, <2>3, CallGoes DEF g, y, f
  <1>9. CASE Prepares(c)
    <2> DEFINE j == [k EXCEPT !.at = "prepared"]
               s == k.cursor
    <2>1. Go(c, j) /\ UNCHANGED flight /\ y = [x EXCEPT !.row = s] /\ k.at = "prepare"
      BY <1>9 DEF Prepares
    <2>2. j.at = "prepared" /\ j.cursor = s
      BY <1>2 DEF CallRecord
    <2>3. f.owner # 0 /\ x.mem.auto /\ s = [x.mem EXCEPT !.cursor = @ + 1]
      BY <1>2, <1>5, <2>1 DEF Agrees
    <2> HIDE DEF j, s, k, x, y
    <2>4. Continuous(y, 1, 0) /\ y.mem = x.mem
      <3>1. y.mem = x.mem
        BY <1>2, <2>1 DEF Radio
      <3> QED BY <1>2, <1>7, <2>1, <2>3, <3>1, PreparesContinuous
    <2>5. Stage(j) = "prepared" /\ Lag(j) = 1 /\ Lead(j, y) = 0
      BY <2>2 DEF Stage, Lag, Lead
    <2>6. Agrees(j, f, y)
      BY <2>2, <2>3, <2>4, <2>5 DEF Agrees
    <2> QED BY <1>1, <1>2, <1>4, <2>1, <2>6, CallGoes DEF f, y
  <1>10. CASE Prepared(c)
    <2> DEFINE j == Stopping(k, f, TRUE, "resume")
               s == k.cursor
    <2>1. Go(c, j) /\ flight' = StopBegun(f) /\ y = [x EXCEPT !.mem = s] /\ k.at = "prepared"
      BY <1>10 DEF Prepared
    <2>2. j.at = "mark" /\ j.then = "resume" /\ j.keep
      BY <1>2 DEF CallRecord, Stopping
    <2>3. f.owner # 0 /\ x.mem.auto /\ s = [x.mem EXCEPT !.cursor = @ + 1]
      BY <1>2, <1>5, <2>1 DEF Agrees
    <2>4. Continuous(x, 1, 0)
      <3>1. Lag(k) = 1 /\ Lead(k, x) = 0
        BY <1>5, <2>1 DEF Lag, Lead
      <3> QED BY <1>2, <3>1 DEF Agrees
    <2> HIDE DEF j, s, k, x, y, f
    <2>5. Continuous(y, 0, 1)
      BY <1>2, <2>1, <2>3, <2>4, PreparesContinuous
    <2>6. Stage(j) = "resume" /\ Lag(j) = 0 /\ Lead(j, y) = 1
      BY <2>2 DEF Stage, Lag, Lead
    <2>7. Agrees(j, flight', y) /\ flight'.owner = flight.owner
      BY <1>6, <2>1, <2>2, <2>3, <2>5, <2>6 DEF Agrees, f
    <2> QED BY <1>1, <1>2, <1>4, <2>1, <2>7, CallGoes DEF y
  <1>11. CASE Resumes(c)
    <2> DEFINE j == Returned(k)
               e == Lead(k, x)
    <2>1. Go(c, j) /\ UNCHANGED flight /\ k.at = "resume"
          /\ y = IF OwnsAir(flight) THEN x ELSE RotationStarts(x)
      BY <1>11 DEF Resumes, Resumed
    <2>2. f.owner = 0 /\ Continuous(x, 0, e) /\ e \in {0, 1} /\ (e = 1 => x.active = 0)
      <3>1. Lag(k) = 0 /\ (e = 1 => x.active = 0)
        BY <1>5, <2>1 DEF Lag, Lead
      <3>2. e \in {0, 1}
        BY Leads
      <3> QED BY <1>2, <1>5, <2>1, <3>1, <3>2 DEF Agrees
    <2>3. ~OwnsAir(flight)
      BY <2>2, OwnsTheAir
    <2> HIDE DEF e, k, x, y
    <2>4. Continuous(y, 0, 0)
      BY <1>2, <2>1, <2>2, <2>3, RotationContinues
    <2>5. ~Busy(j)
      BY ReturnedRests
    <2> HIDE DEF j
    <2>6. Agrees(j, flight', y)
      BY <2>4, <2>5, RestAgrees
    <2> QED BY <1>1, <1>2, <1>4, <2>1, <2>6, CallGoes DEF y
  <1> QED BY <1>8, <1>9, <1>10, <1>11 DEF Completes

--------------------------------------------------------------------------------
\* The scheduler

LEMMA SchedulerKeepsAir ==
    ASSUME Invs, BlockInv', NEW c \in Callers, calls[c].at \in Launches \cup Announces,
           NEW k, Go(c, k), UNCHANGED radio
    PROVE  AirInv'
  <1> DEFINE j == calls[c]
  <1>1. /\ c = "scheduler" /\ Busy(j) /\ OneCall(c) /\ TypeInv /\ Stage(j) = j.at
        /\ j.at \in Launches \cup Announces
    BY SchedulerFacts DEF Invs, OneCall
  <1>2. Agrees(j, flight, radio)
    BY <1>1, CallFacts
  <1>3. calls'[c] = k
    BY <1>1, Typed DEF Go
  <1>4. k.at \in Claimless \cup Launches \cup Announces
    BY <1>1, <1>3 DEF BlockInv, AloneInv, Fits, SchedulerFits
  <1> HIDE DEF j
  <1>5. Continuous(radio, 0, 0)
    <2>1. Stage(j) \notin {"prepare", "prepared", "resume"}
      BY <1>1 DEF Launches, Announces
    <2> QED BY <1>2, <2>1, PlainAgrees
  <1>6. Agrees(k, flight', radio')
    <2>1. Stage(k) \notin {"prepare", "prepared", "resume"} /\ k.at # "cutting"
      BY <1>4 DEF Stage, Claimless, Launches, Announces
    <2>2. Continuous(radio', 0, 0)
      BY <1>5
    <2> QED BY <2>1, <2>2, PlainAgrees
  <1> QED BY <1>1, <1>6, AirGoes

\* The scheduler goes on with what it read, and starts nothing that is not due.
LEMMA SchedulerGoesOn ==
    ASSUME Invs, TypeInv', BlockInv', Later, NEW c \in Callers,
           calls[c].at \in Launches \cup Announces, NEW k, Go(c, k), UNCHANGED <<radio, pointer>>,
           \A l \in k.due : l \in calls[c].due,
           flight'.owner # 0 => flight.owner # 0 \/ calls[c].at \in BeginSteps,
           k.at \in BeginSteps => calls[c].at \in BeginSteps,
           k.at \in Activates => calls[c].at \in Activates /\ k.log = calls[c].log
    PROVE  FillerInv'
  <1> DEFINE j == calls[c]
  <1>1. c = "scheduler" /\ TypeInv /\ DueInv /\ j \in Call(Len(flight.rts)) /\ Stage(j) = j.at
    BY SchedulerFacts DEF Invs, FillerInv
  <1>2. Sched = j /\ Sched' = k
    BY <1>1, Typed DEF Go, Sched
  <1>3. j.at \in Activates => j.log \in Logs /\ Due(j.log)
    BY <1>1, <1>2 DEF DueInv, Activates, Call, OfLog
  <1>4. DueInv'
    <2>1. UNCHANGED pointer /\ \A l \in Sched'.due : l \in Sched.due
      BY <1>2
    <2>2. Sched'.at \in Activates => Sched'.log \in Logs /\ Due(Sched'.log)
      BY <1>2, <1>3
    <2> HIDE DEF j
    <2>3. flight'.owner # 0 \/ Sched'.at \in BeginSteps => flight.owner # 0 \/ Sched.at \in BeginSteps
      BY <1>2 DEF j
    <2> QED BY <1>1, <2>1, <2>2, <2>3, DueGoes
  <1> QED BY <1>4, SchedulerKeepsAir DEF FillerInv

LEMMA ReturnedDue ==
    ASSUME NEW k
    PROVE  /\ Returned(k).at \notin BeginSteps \cup Activates
           /\ \A l \in Returned(k).due : l \in k.due
  BY DEF Returned, ClaimNext, Idle, BeginSteps, Activates

\* It reports an error and goes on.
LEMMA SchedulerFails ==
    ASSUME Invs, TypeInv', BlockInv', Later, NEW c \in Callers,
           calls[c].at \in Launches \cup Announces, Fails(c), UNCHANGED <<radio, pointer>>
    PROVE  FillerInv'
  <1> DEFINE k == Returned(calls[c])
  <1>1. ~Recovers(calls[c])
    BY SchedulerFacts DEF Invs
  <1>2. Go(c, k) /\ flight' = flight
    BY <1>1 DEF Fails, Failed
  <1>3. k.at \notin BeginSteps \cup Activates /\ \A l \in k.due : l \in calls[c].due
    BY ReturnedDue
  <1> HIDE DEF k
  <1> QED BY <1>2, <1>3, SchedulerGoesOn

LEMMA StartsKeepsFiller ==
    ASSUME Invs, TypeInv', BlockInv', Later, NEW c \in Callers,
           \/ StartReads(c) \/ StartChecks(c) \/ StartPersists(c) \/ StartAnnounces(c)
    PROVE  FillerInv'
  <1> DEFINE j == calls[c]
             a == j.at
  <1>1. /\ a \in {"start", "starting", "persist", "announce"} /\ UNCHANGED <<radio, pointer>>
        /\ a \in Launches \cup Announces
    BY DEF StartReads, StartChecks, StartPersists, StartAnnounces, Launches, Announces
  <1>2. /\ j \in CallRecord(Len(flight.rts)) /\ IsMemory(flight)
        /\ SchedulerFits(j, flight, pointer) /\ InLine(c, j, logs, pointer) /\ Stage(j) = a
    BY <1>1, SchedulerFacts DEF Invs
  <1>3. CASE Fails(c)
    BY <1>1, <1>3, SchedulerFails
  <1>4. ASSUME NEW k, Go(c, k), k.due = j.due, k.at \notin Activates,
               flight'.owner # 0 => flight.owner # 0 \/ a \in BeginSteps,
               k.at \in BeginSteps => a \in BeginSteps
        PROVE  FillerInv'
    BY <1>1, <1>4, SchedulerGoesOn
  <1>5. CASE StartReads(c) /\ ~Fails(c)
    <2> DEFINE k == [j EXCEPT !.at = "starting", !.log = pointer, !.snap = logs[pointer]]
    <2>1. Go(c, k) /\ UNCHANGED flight /\ a \in BeginSteps
      BY <1>5 DEF StartReads, BeginSteps
    <2>2. k.at = "starting" /\ k.due = j.due
      BY <1>2 DEF CallRecord
    <2> HIDE DEF k, j, a
    <2> QED BY <1>4, <2>1, <2>2 DEF Activates
  <1>6. CASE StartChecks(c) /\ ~Fails(c)
    <2>1. a = "starting" /\ flight.owner = 0
      BY <1>2, <1>6 DEF StartChecks, SchedulerFits, Launches
    <2>2. j.snap.sched # Unclocked
      BY <1>2, <2>1, LinesApart DEF InLine
    <2>3. Launch(c)
      BY <1>6, <2>1, <2>2 DEF StartChecks
    <2> DEFINE at == IF j.snap.sched # Unclocked /\ ~j.snap.started THEN "persist" ELSE "announce"
               n == Len(flight.rts) + 1
               k == [j EXCEPT !.at = at, !.rt = n]
    <2>4. Go(c, k)
      BY <2>3 DEF Launch
    <2>5. at \in {"persist", "announce"}
      OBVIOUS
    <2> HIDE DEF at, n
    <2>6. k.at = at /\ k.due = j.due
      BY <1>2 DEF CallRecord
    <2> HIDE DEF k, j, a
    <2>7. a \in BeginSteps /\ k.at \notin BeginSteps \cup Activates
      BY <2>1, <2>5, <2>6 DEF BeginSteps, Activates
    <2> QED BY <1>4, <2>4, <2>6, <2>7
  <1>7. CASE StartPersists(c)
    <2> DEFINE k == [j EXCEPT !.at = "announce"]
    <2>1. Go(c, k) /\ UNCHANGED flight
      BY <1>7 DEF StartPersists
    <2>2. k.at = "announce" /\ k.due = j.due
      BY <1>2 DEF CallRecord
    <2> HIDE DEF k, j, a
    <2> QED BY <1>4, <2>1, <2>2 DEF BeginSteps, Activates
  <1>8. CASE StartAnnounces(c)
    <2> DEFINE k == Returned(j)
               r == j.rt
               gen == flight.rts[r].gen
    <2>1. Go(c, k) /\ flight' = Requested(flight, r, gen, 1)
      BY <1>8 DEF StartAnnounces
    <2> HIDE DEF r, gen
    <2>2. flight'.owner = flight.owner
      BY <1>2, <2>1 DEF Requested, IsMemory, Memory
    <2>3. k.at \notin BeginSteps \cup Activates /\ \A l \in k.due : l \in j.due
      BY ReturnedDue
    <2> HIDE DEF k
    <2> QED BY <1>1, <2>1, <2>2, <2>3, SchedulerGoesOn
  <1> QED BY <1>3, <1>5, <1>6, <1>7, <1>8

\* What is activated is due, and the program points to it.
LEMMA PointKeepsFiller ==
    ASSUME Invs, TypeInv', BlockInv', Later, NEW c \in Callers, Point(c),
           calls[c].at = "activating", UNCHANGED radio
    PROVE  FillerInv'
  <1> DEFINE j == calls[c]
             k == [j EXCEPT !.at = "unmark"]
  <1>1. j.at \in Launches \cup Announces /\ Go(c, k) /\ pointer' = j.log
    BY DEF Launches, Point
  <1>2. /\ c = "scheduler" /\ TypeInv /\ DueInv /\ j \in CallRecord(Len(flight.rts))
        /\ Stage(j) = j.at /\ j \in Call(Len(flight.rts))
    BY <1>1, SchedulerFacts DEF Invs, FillerInv
  <1>3. k.at = "unmark" /\ k.due = j.due /\ j.due \subseteq Logs
    BY <1>2 DEF CallRecord
  <1>4. Sched = j /\ Sched' = calls'[c] /\ calls'[c] = k
    BY <1>1, <1>2, Typed DEF Go, Sched
  <1>5. j.log \in Logs /\ Due(j.log)
    BY <1>2, <1>4 DEF DueInv, Activates, Call, OfLog
  <1> HIDE DEF k
  <1>6. \A l \in Logs : Due(l) => logs'[l].sched <= clock'
    BY <1>2, DueLater DEF Due
  <1>7. pointer' # None /\ logs'[pointer'].sched <= clock'
    BY <1>1, <1>5, <1>6, FlightAssumption
  <1>8. \A l \in k.due : logs'[l].sched <= clock'
    BY <1>2, <1>3, <1>4, <1>6 DEF DueInv
  <1>9. DueInv'
    BY <1>3, <1>4, <1>7, <1>8 DEF DueInv, Activates, Due
  <1> QED BY <1>1, <1>9, SchedulerKeepsAir DEF FillerInv

LEMMA ManagesKeepsFiller ==
    ASSUME Invs, TypeInv', BlockInv', Later, NEW c \in Callers,
           ActivateReads(c) \/ ActivateChecks(c) \/ ActivateUnmarks(c)
    PROVE  FillerInv'
  <1> DEFINE j == calls[c]
             a == j.at
  <1>1. /\ a \in {"activate", "activating", "unmark"} /\ UNCHANGED radio
        /\ a \in Launches \cup Announces
    BY DEF ActivateReads, ActivateChecks, ActivateUnmarks, Launches
  <1>2. /\ j \in CallRecord(Len(flight.rts)) /\ SchedulerFits(j, flight, pointer)
        /\ c = "scheduler"
    BY <1>1, SchedulerFacts DEF Invs
  <1>3. CASE Fails(c) /\ UNCHANGED pointer
    BY <1>1, <1>3, SchedulerFails
  <1>4. CASE ActivateReads(c) /\ ~Fails(c)
    <2> DEFINE k == [j EXCEPT !.at = "activating", !.snap = logs[j.log]]
    <2>1. Go(c, k) /\ UNCHANGED <<flight, pointer>> /\ a \in Activates
      BY <1>4 DEF ActivateReads, Activates
    <2>2. k.at = "activating" /\ k.due = j.due /\ k.log = j.log
      BY <1>2 DEF CallRecord
    <2> HIDE DEF k
    <2> QED BY <1>1, <2>1, <2>2, SchedulerGoesOn DEF BeginSteps
  <1>5. CASE ActivateChecks(c) /\ ~(Fails(c) /\ UNCHANGED pointer)
    <2>1. a = "activating" /\ flight.owner = 0 /\ j.snap.sched # Unclocked
      BY <1>2, <1>5 DEF ActivateChecks, SchedulerFits, Launches
    <2>2. Point(c)
      BY <1>5, <2>1 DEF ActivateChecks
    <2> QED BY <1>1, <2>1, <2>2, PointKeepsFiller
  <1>6. CASE ActivateUnmarks(c)
    <2> DEFINE k == [j EXCEPT !.at = "start"]
    <2>1. Go(c, k) /\ UNCHANGED <<flight, pointer>> /\ a \in BeginSteps
      BY <1>2, <1>6 DEF ActivateUnmarks, BeginSteps
    <2>2. k.at = "start" /\ k.due = j.due
      BY <1>2 DEF CallRecord
    <2> HIDE DEF k
    <2> QED BY <1>1, <2>1, <2>2, SchedulerGoesOn DEF Activates
  <1>7. ActivateReads(c) => UNCHANGED pointer
    BY DEF ActivateReads
  <1> QED BY <1>3, <1>4, <1>5, <1>6, <1>7

LEMMA AirUnmoved ==
    ASSUME NEW x
    PROVE  SameAir(x, x)
  BY DEF SameAir

\* startDuePublishedLogs claims what has reached its start.
LEMMA SchedulesKeepsFiller ==
    ASSUME Invs, TypeInv', Later, Schedules, Alone
    PROVE  FillerInv'
  <1> DEFINE c == "scheduler"
  <1>1. c \in Callers /\ TypeInv /\ DueInv /\ AirInv /\ Sched = calls[c]
    BY OrderFacts DEF Invs, FillerInv, Sched
  <1>2. ASSUME NEW due, Go(c, ClaimNext(due)), calls[c].at \in Claimless,
               UNCHANGED <<flight, pointer, radio>>,
               \A l \in due : l \in Sched.due \/ (l \in Logs /\ Due(l))
        PROVE  FillerInv'
    <2> DEFINE k == ClaimNext(due)
    <2>1. ~Busy(calls[c]) /\ ~Busy(k)
      BY <1>2, ReturnedRests DEF Busy
    <2>2. k.at \notin BeginSteps \cup Activates /\ \A l \in k.due : l \in due
      BY DEF ClaimNext, Idle, BeginSteps, Activates
    <2> HIDE DEF k
    <2>3. calls'[c] = k /\ \A d \in Callers \ {c} : calls'[d] = calls[d]
      BY <1>1, <1>2, Typed DEF Go, k
    <2>4. Sched' = k
      BY <2>3 DEF Sched
    <2> HIDE DEF c
    <2>5. AirInv'
      <3>1. \A d \in Callers : Still(d)
        BY <2>1, <2>3 DEF Still
      <3>2. SameAir(radio, radio')
        BY <1>2, AirUnmoved
      <3> QED BY <1>1, <1>2, <3>1, <3>2, AirStays
    <2>6. DueInv'
      <3>1. \A l \in Sched'.due : l \in Sched.due \/ (l \in Logs /\ Due(l))
        BY <1>2, <2>2, <2>4
      <3> QED BY <1>1, <1>2, <2>2, <2>4, <3>1, DueGoes
    <2> QED BY <2>5, <2>6 DEF FillerInv
  <1>3. CASE Poll
    <2> DEFINE due == DueNow
    <2>1. Go(c, ClaimNext(due)) /\ calls[c].at \in Claimless /\ UNCHANGED <<flight, pointer, radio>>
      BY <1>3 DEF Poll, Claimless
    <2>2. \A l \in due : l \in Logs /\ Due(l)
      BY DEF DueNow, Due
    <2> HIDE DEF due, c
    <2> QED BY <1>2, <2>1, <2>2
  <1>4. ASSUME NEW l \in Logs, Claims(l) PROVE FillerInv'
    <2> DEFINE due == calls[c].due \ {l}
               k == [Idle EXCEPT !.at = "activate", !.log = l, !.due = due]
    <2>1. \A i \in due : i \in Sched.due
      BY <1>1
    <2>2. CASE ~ClaimableNow(logs[l])
      <3> HIDE DEF due
      <3>1. Go(c, ClaimNext(due)) /\ calls[c].at \in Claimless
            /\ UNCHANGED <<flight, pointer, radio>>
        BY <1>4, <2>2 DEF Claims, Claimless, due
      <3> HIDE DEF c
      <3> QED BY <1>2, <2>1, <3>1
    <2>3. CASE ClaimableNow(logs[l])
      <3>1. /\ Go(c, k) /\ UNCHANGED <<flight, pointer, radio>>
            /\ claimed' = [claimed EXCEPT ![l] = @ + 1] /\ l \in Sched.due
        BY <1>4, <2>3 DEF Claims, Sched
      <3>2. claimed' # claimed
        <4>1. claimed'[l] = claimed[l] + 1 /\ claimed[l] \in Nat
          BY <1>1, <3>1, Typed
        <4> QED BY <4>1
      <3>3. \A d \in Callers : ~Busy(calls[d])
        BY <3>2 DEF Alone
      <3> HIDE DEF due
      <3>4. k.at = "activate" /\ k.log = l /\ k.due = due
        BY DEF Idle
      <3> HIDE DEF k
      <3>5. AirInv'
        <4>1. Continuous(radio', 0, 0)
          BY <1>1, <3>1, <3>3, AirAtRest
        <4>2. Stage(k) = "activate"
          BY <3>4 DEF Stage
        <4>3. Agrees(k, flight', radio') /\ OneCall(c)
          BY <3>3, <3>4, <4>1, <4>2, PlainAgrees DEF OneCall
        <4> HIDE DEF c
        <4> QED BY <1>1, <3>1, <4>3, AirGoes
      <3>6. DueInv'
        <4>1. Sched' = k
          BY <1>1, <3>1, Typed DEF Go, Sched
        <4>2. \A i \in Sched'.due : i \in Sched.due
          BY <2>1, <3>4, <4>1
        <4>3. Sched'.log \in Logs /\ Due(Sched'.log)
          BY <1>1, <3>1, <3>4, <4>1 DEF DueInv
        <4>4. flight'.owner = flight.owner /\ Sched'.at \notin BeginSteps
          BY <3>1, <3>4, <4>1 DEF BeginSteps
        <4> QED BY <1>1, <3>1, <4>2, <4>3, <4>4, DueGoes
      <3> QED BY <3>5, <3>6 DEF FillerInv
    <2> QED BY <2>2, <2>3
  <1> QED BY <1>3, <1>4 DEF Schedules

\* The calls that go on of themselves, but for a stop that fails while a block hands
\* the air back.
LEMMA ProceedsKeepsFiller ==
    ASSUME Invs, TypeInv', BlockInv', Later, NEW c \in Callers,
           \/ Proceeds(c) \/ PrepareFails(c)
           \/ StopFails(c) /\ ~HandsOver(calls[c])
    PROVE  FillerInv'
  <1>1. TypeInv /\ DueInv
    BY DEF Invs, FillerInv
  <1>2. ASSUME AirInv' /\ StartsNothing PROVE FillerInv'
    BY <1>1, <1>2, DueStays DEF FillerInv
  <1>3. CASE Stops(c)
    BY <1>2, <1>3, CutKeepsAir, StopEndsKeepsAir DEF Stops
  <1>4. CASE Completes(c) \/ PrepareFails(c)
    BY <1>2, <1>4, CompletesKeepsAir
  <1>5. CASE StopFails(c) /\ ~HandsOver(calls[c])
    BY <1>2, <1>5, StopFailsKeepsAir
  <1>6. calls[c].at \notin {"launch", "point"}
    <2> SUFFICES ASSUME calls[c].at \in {"launch", "point"} PROVE FALSE
      OBVIOUS
    <2>1. calls[c].at \notin Cutting \cup Ending \cup OfCue
      BY LinesApart
    <2>2. c = "scheduler"
      BY <2>1, SchedulerOnly DEF Invs
    <2> QED BY <2>2 DEF Invs, BlockInv, AloneInv, Fits, SchedulerFits, Claimless, Launches,
                        Announces
  <1>7. CASE Starts(c)
    BY <1>6, <1>7, StartsKeepsFiller DEF Starts, StartLaunches
  <1>8. CASE Manages(c)
    BY <1>6, <1>8, NoneManages, ManagesKeepsFiller DEF Manages, ActivatePoints, Invs
  <1> QED BY <1>3, <1>4, <1>5, <1>7, <1>8 DEF Proceeds

--------------------------------------------------------------------------------
\* Cues

\* The runtime in the map goes on with the cue that follows, or its block ends.
LEMMA AirMoves ==
    ASSUME NEW c \in Callers, NEW S, NEW k \in [Callers -> S], \A d \in Callers : ~Busy(k[d]),
           NEW f, f.owner # 0, flight'.owner = f.owner, calls' = Spawned(k, c, f, f.owner),
           radio' \in Radio, radio'.mem = radio.mem, Continuous(radio', 0, 0)
    PROVE  AirInv'
  <1> DEFINE r == f.owner
             j == Finishing(Idle, f, r)
             x == radio'
             g == flight'
  <1>1. CASE ~Finishes(f, r)
    BY <1>1, AirRests DEF Spawned
  <1>2. CASE Finishes(f, r)
    <2>1. calls' = [k EXCEPT ![c] = j]
      BY <1>2 DEF Spawned
    <2>2. x \in Radio /\ Continuous(x, 0, 0) /\ x.mem = radio.mem /\ g.owner = f.owner /\ g.owner # 0
      OBVIOUS
    <2> HIDE DEF x, g, r
    <2>3. Agrees(j, g, x) /\ Busy(j)
      BY <2>2, FinishingAgrees
    <2> HIDE DEF j
    <2>4. calls'[c] = j
      BY <2>1
    <2>5. \A d \in Callers : OneCall(d)' => d = c
      BY <2>3, <2>4 DEF OneCall
    <2> QED BY <2>3, <2>4, <2>5 DEF AirInv, x, g
  <1> QED BY <1>1, <1>2

\* Nothing goes on but the flight's own memory.
LEMMA AirKept ==
    ASSUME Invs, UNCHANGED <<pointer, calls, radio>>, flight'.owner = flight.owner
    PROVE  AirInv' /\ StartsNothing
  <1>1. TypeInv /\ AirInv /\ \A c \in Callers : Still(c)
    BY DEF Invs, FillerInv, Still
  <1>2. SameAir(radio, radio')
    BY AirUnmoved
  <1> QED BY <1>1, <1>2, AirStays DEF StartsNothing

LEMMA CueOutOfRangeKeepsAir ==
    ASSUME Invs, CueOutOfRange
    PROVE  AirInv' /\ StartsNothing
  <1> DEFINE f == Taken(flight)
             h == flight
             g == flight'
             r == NextTurn.rt
             c == "turn"
             k == Finishing(Idle, h, r)
             x == radio'
  <1>1. TurnFree /\ g = FinishBegun(f, r) /\ Go(c, k) /\ UNCHANGED <<pointer, radio>>
    BY DEF CueOutOfRange
  <1>2. /\ \A d \in Callers : ~Busy(calls[d])
        /\ f.owner = h.owner /\ IsMemory(f) /\ Held(f) /\ h.owner # 0
    BY <1>1, TurnFreeFacts DEF Invs
  <1>3. x \in Radio /\ Continuous(x, 0, 0) /\ x.mem = radio.mem
    BY <1>1, <1>2, AirAtRest, Typed DEF Invs, FillerInv
  <1>4. c \in Callers /\ c # "scheduler" /\ OneCall(c)
    BY <1>2, OrderFacts DEF OneCall, Invs
  <1> HIDE DEF f, x, c, k
  <1>5. g.owner = h.owner
    BY <1>1, <1>2, StopBegunLighter DEF Lighter
  <1> HIDE DEF g, r
  <1>6. Agrees(k, g, x)
    BY <1>2, <1>3, <1>5, FinishingAgrees DEF k
  <1> QED BY <1>1, <1>4, <1>5, <1>6, CallGoes DEF g, x

LEMMA CueBeginsKeepsAir ==
    ASSUME Invs, CueBegins
    PROVE  AirInv' /\ StartsNothing
  <1> DEFINE r   == NextTurn.rt
             i   == Aimed(NextTurn)
             rt  == flight.rts[r]
             cue == rt.items[i]
             f   == Taken(flight)
             at  == IF CutsFirst(rt, cue) THEN "cut" ELSE "cue"
             on  == IF rt.sched # Unclocked THEN "cueFailed" ELSE "ignore"
             c   == "turn"
             k   == [Idle EXCEPT !.at = at, !.rt = r, !.gen = NextTurn.gen, !.keep = TRUE,
                                 !.then = "cue", !.items = <<cue>>, !.on = on]
             g   == flight'
             x   == radio'
  <1>1. /\ TurnFree /\ UNCHANGED <<pointer, radio>> /\ Go(c, k)
        /\ flight' = [f EXCEPT !.rts[r].index = i, !.rts[r].waiting = FALSE]
    BY DEF CueBegins
  <1>2. /\ \A d \in Callers : ~Busy(calls[d])
        /\ f.owner = flight.owner /\ IsMemory(f)
    BY <1>1, TurnFreeFacts DEF Invs
  <1>3. Continuous(x, 0, 0)
    BY <1>1, <1>2, AirAtRest DEF Invs, FillerInv
  <1>4. at \in {"cut", "cue"}
    OBVIOUS
  <1>5. c \in Callers /\ c # "scheduler" /\ OneCall(c)
    BY <1>2, OrderFacts DEF OneCall, Invs
  <1> HIDE DEF at, f, i, r, rt, cue, on, c, x
  <1>6. k.at = at /\ k.then = "cue"
    BY DEF Idle
  <1> HIDE DEF k
  <1>7. Agrees(k, g, x)
    <2>1. Stage(k) = "cue" /\ k.at # "cutting"
      BY <1>4, <1>6 DEF Stage
    <2> QED BY <1>3, <2>1, PlainAgrees
  <1>8. g.owner = flight.owner
    BY <1>1, <1>2 DEF IsMemory, Memory
  <1> QED BY <1>1, <1>5, <1>7, <1>8, CallGoes DEF x, g

\* The execution of a cue is over.
LEMMA TurnEndsKeepsAir ==
    ASSUME Invs, Turn.at \in OfCue, TurnEnds(flight), UNCHANGED pointer,
           radio' \in Radio, radio'.mem = radio.mem, Continuous(radio', 0, 0)
    PROVE  AirInv' /\ StartsNothing
  <1> DEFINE f == flight
             r == f.owner
             k == [calls EXCEPT !["turn"] = Idle]
             cue == TurnCue
             on == f.rts[r].gen = Turn.gen /\ f.rts[r].running
             moves == on /\ ~Waits(f.rts[r], cue)
             c == "advance"
             S == Call(Len(f.rts))
  <1>1. /\ "turn" \in Callers /\ Turn.rt = r /\ r # 0 /\ Idles(f) /\ IsMemory(f) /\ Held(f)
        /\ \A d \in Callers \ {"turn"} : ~Busy(calls[d])
        /\ cue.kind \in {"song", "clip", "stop"} /\ f.rts[r].sched # Unclocked
        /\ f.rts[r].index <= Len(f.rts[r].items)
    BY CueFacts DEF Invs
  <1>2. /\ flight' = IF on THEN AfterCue(f, r, cue) ELSE f
        /\ calls' = IF moves THEN Spawned(k, c, f, r) ELSE k
    BY <1>1 DEF TurnEnds
  <1>3. /\ k \in [Callers -> S] /\ \A d \in Callers : ~Busy(k[d])
        /\ k["scheduler"] = calls["scheduler"]
    <2>1. \A d \in Callers : k[d] = IF d = "turn" THEN Idle ELSE calls[d]
      BY Typed DEF Invs
    <2>2. k \in [Callers -> S]
      BY Typed, IdleType DEF Invs
    <2>3. "scheduler" \in Callers /\ "scheduler" # "turn"
      BY DEF Callers
    <2> HIDE DEF k
    <2> QED BY <1>1, <2>1, <2>2, <2>3, ReturnedRests
  <1>4. clock \in Nat
    BY Typed DEF Invs
  <1>5. c \in Callers /\ c # "scheduler" /\ "scheduler" \in Callers
    BY DEF Callers
  <1> HIDE DEF k, cue, c, S
  <1>6. flight'.owner = r
    <2>1. AfterCue(f, r, cue).owner = r
      BY <1>1, <1>4, AfterCueApart
    <2> QED BY <1>2, <2>1
  <1>7. StartsNothing
    <2>1. calls'["scheduler"] = k["scheduler"]
      BY <1>2, <1>3, <1>5 DEF Spawned
    <2> QED BY <1>3, <1>6, <2>1 DEF StartsNothing
  <1>8. CASE moves
    <2>1. calls' = Spawned(k, c, f, f.owner) /\ f.owner # 0 /\ flight'.owner = f.owner
      BY <1>1, <1>2, <1>6, <1>8
    <2> HIDE DEF f, r
    <2> QED BY <1>3, <1>5, <1>7, <2>1, AirMoves
  <1>9. CASE ~moves
    <2>1. calls' = k
      BY <1>2, <1>9
    <2> QED BY <1>3, <1>7, <2>1, AirRests
  <1> QED BY <1>8, <1>9

\* While a cue is executed, the cursor is where it should be.
LEMMA CueContinuous ==
    ASSUME Invs, Turn.at \in OfCue
    PROVE  Continuous(radio, 0, 0) /\ radio \in Radio /\ OneCall("turn")
  <1> DEFINE c == "turn"
  <1>1. c \in Callers /\ Busy(calls[c]) /\ calls[c].at \in OfCue
    BY CueFacts DEF Invs, Turn
  <1> HIDE DEF c
  <1>2. OneCall(c) /\ Agrees(calls[c], flight, radio) /\ radio \in Radio
    BY <1>1, CallFacts
  <1>3. Stage(calls[c]) \notin {"prepare", "prepared", "resume"}
    BY <1>1 DEF Stage, OfCue
  <1> QED BY <1>2, <1>3, PlainAgrees DEF c

LEMMA CueUnplayableKeepsAir ==
    ASSUME Invs, CueUnplayable
    PROVE  AirInv' /\ StartsNothing
  <1> DEFINE c == "turn"
             j == calls[c]
             f == flight
             k == Failed(j, f)
             n == Len(flight.rts)
             p == pointer
             g == flight'
             x == radio'
  <1>1. Turn.at \in OfCue /\ UNCHANGED <<pointer, radio>>
    BY DEF CueUnplayable, OfCue
  <1>2. /\ c \in Callers /\ c # "scheduler" /\ Turn = j /\ Busy(j) /\ Turn.on = "cueFailed"
        /\ IsMemory(f) /\ Held(f) /\ Fits(c, j, f, p) /\ j \in Call(n) /\ n \in Nat
    BY <1>1, CueFacts, Typed DEF Invs, Turn
  <1>3. Go(c, k) /\ g = IF Recovers(j) THEN StopBegun(f) ELSE f
    BY <1>2 DEF CueUnplayable, Fails
  <1>4. Continuous(x, 0, 0) /\ OneCall(c)
    BY <1>1, CueContinuous
  <1> HIDE DEF c, j, k, n, p, x, f
  <1>5. g.owner = f.owner
    BY <1>2, <1>3, StopBegunLighter DEF Lighter
  <1> HIDE DEF g
  <1>6. Agrees(k, g, x)
    BY <1>2, <1>4, FailedAgrees DEF k
  <1> QED BY <1>1, <1>2, <1>3, <1>4, <1>5, <1>6, CallGoes DEF f, g, x

LEMMA CueTakesSongKeepsAir ==
    ASSUME Invs, CueTakesSong
    PROVE  AirInv' /\ StartsNothing
  <1> DEFINE x == radio
             y == radio'
             r == Turn.rt
             n == flight.rts[r].index
  <1>1. Turn.at \in OfCue /\ TurnEnds(flight) /\ UNCHANGED pointer
        /\ y = Takes(IF OwnsAir(flight) THEN x ELSE MemStopped(RowStopped(x)), r, n)
    BY DEF CueTakesSong, OfCue
  <1>2. r = flight.owner /\ r \in Nat \ {0} /\ n \in Nat
    BY <1>1, CueFacts DEF Invs
  <1>3. OwnsAir(flight)
    BY <1>2, OwnsTheAir
  <1>4. Continuous(x, 0, 0) /\ x \in Radio
    BY <1>1, CueContinuous
  <1> HIDE DEF x, y, r, n
  <1>5. y = Takes(x, r, n)
    BY <1>1, <1>3
  <1>6. Continuous(y, 0, 0) /\ y.mem = x.mem
    BY <1>2, <1>4, <1>5, CueTakes
  <1>7. y \in Radio
    BY <1>2, <1>4, <1>5, TakesType
  <1> QED BY <1>1, <1>6, <1>7, TurnEndsKeepsAir DEF x, y

LEMMA CueNeedsNoAirKeepsAir ==
    ASSUME Invs, CueNeedsNoAir
    PROVE  AirInv' /\ StartsNothing
  <1>1. Turn.at \in OfCue /\ TurnEnds(flight) /\ UNCHANGED <<pointer, radio>>
    BY DEF CueNeedsNoAir, OfCue
  <1>2. Continuous(radio', 0, 0) /\ radio' \in Radio /\ radio'.mem = radio.mem
    BY <1>1, CueContinuous
  <1> QED BY <1>1, <1>2, TurnEndsKeepsAir

LEMMA CueStopsSongKeepsAir ==
    ASSUME Invs, CueStopsSong
    PROVE  AirInv' /\ StartsNothing
  <1> DEFINE c == "turn"
             owns == OwnsAir(flight)
             k == [Turn EXCEPT !.at = "cut", !.keep = owns, !.then = "after"]
             x == radio'
  <1>1. UNCHANGED <<pointer, flight, radio>> /\ Go(c, k) /\ Turn.at \in OfCue
    BY DEF CueStopsSong, OfCue
  <1>2. c \in Callers /\ c # "scheduler" /\ Turn \in CallRecord(Len(flight.rts))
    BY <1>1, CueFacts DEF Invs
  <1>3. Continuous(x, 0, 0) /\ OneCall(c)
    BY <1>1, CueContinuous
  <1> HIDE DEF owns, c, x
  <1>4. k.at = "cut" /\ k.then = "after"
    BY <1>2 DEF CallRecord
  <1> HIDE DEF k
  <1>5. Agrees(k, flight', x)
    <2>1. Stage(k) = "after" /\ k.at # "cutting"
      BY <1>4 DEF Stage
    <2> QED BY <1>3, <2>1, PlainAgrees
  <1> QED BY <1>1, <1>2, <1>3, <1>5, CallGoes DEF x

LEMMA TurnsKeepsAir ==
    ASSUME Invs, Turns
    PROVE  AirInv' /\ StartsNothing
  <1>1. ~EditBegins
    BY NextCueFacts DEF EditBegins, Invs
  <1>2. ~EditWrites /\ ~EditApplies
    <2>1. "turn" \in Callers /\ "turn" # "scheduler"
      BY OrderFacts DEF Invs
    <2> QED BY <2>1, SchedulerOnly, LinesApart DEF EditWrites, EditApplies, Turn, Invs
  <1>3. CASE CueDropped
    <2>1. flight'.owner = flight.owner
      BY <1>3, Typed DEF CueDropped, Taken, IsMemory, Memory, Invs
    <2> QED BY <1>3, <2>1, AirKept DEF CueDropped
  <1>4. CASE CueHeld
    <2>1. TurnFree /\ UNCHANGED <<pointer, calls, radio>>
      BY <1>4 DEF CueHeld
    <2>2. Taken(flight).owner = flight.owner /\ IsMemory(Taken(flight))
      BY <2>1, TurnFreeFacts DEF Invs
    <2> DEFINE r  == NextTurn.rt
               t == Timer(flight, r, "hold", Aimed(NextTurn),
                          DueAt(flight.rts[r], flight.rts[r].items[Aimed(NextTurn)]))
    <2>3. flight' = Armed(Taken(flight), r, t)
      BY <1>4 DEF CueHeld
    <2> HIDE DEF r, t
    <2>4. flight'.owner = flight.owner
      BY <2>2, <2>3 DEF Armed, IsMemory, Memory
    <2> QED BY <2>1, <2>4, AirKept
  <1> QED BY <1>1, <1>2, <1>3, <1>4, CueOutOfRangeKeepsAir, CueBeginsKeepsAir,
             CueUnplayableKeepsAir, CueTakesSongKeepsAir, CueNeedsNoAirKeepsAir,
             CueStopsSongKeepsAir DEF Turns

--------------------------------------------------------------------------------
\* Timers and ends

LEMMA TimersKeepsAir ==
    ASSUME Invs, Timers
    PROVE  AirInv' /\ StartsNothing
  <1> SUFFICES ASSUME NEW t \in flight.timers,
                      \/ HoldFires(t) \/ WaitFires(t) \/ SongEndTimesOut(t)
                      \/ ClipFires(t) \/ HardFires(t)
               PROVE  AirInv' /\ StartsNothing
    BY DEF Timers
  <1> DEFINE f == Fired(flight, t)
             g == [f EXCEPT !.rts[t.rt].waiting = FALSE, !.rts[t.rt].gen = @ + 1]
             e == Executed
             n == Announced
             aired == radio.aired
             h == flight
  <1>1. IsMemory(h) /\ Steady(h, e, n, aired) /\ t \in h.timers /\ Apart(h)
    BY OrderFacts DEF OrderInv, BlockInv, AloneInv, Invs
  <1>2. IsMemory(f) /\ f.owner = flight.owner
    <2> HIDE DEF h, e, n, aired
    <2>1. Lighter(h, Fired(h, t)) /\ IsMemory(Fired(h, t))
      BY <1>1, FiredLighter
    <2> QED BY <2>1 DEF h, Lighter
  <1>3. t.kind \in {"hold", "clip", "hard"}
    <2> HIDE DEF h, e, n, aired, f
    <2> QED BY <1>1, FiredSteady
  <1>4. UNCHANGED <<calls, pointer, radio>>
    <2>1. ~WaitFires(t) /\ ~SongEndTimesOut(t)
      BY <1>3 DEF WaitFires, SongEndTimesOut
    <2> QED BY <2>1 DEF HoldFires, ClipFires, HardFires, OnlyFlight
  <1> HIDE DEF f, h, e, n, aired
  <1>5. \A j, r, gen, i : Requested(j, r, gen, i).owner = j.owner \/ ~IsMemory(j)
    BY DEF Requested, IsMemory, Memory
  <1>6. g.owner = f.owner /\ \A r, gen, i : Requested(g, r, gen, i).owner = f.owner
    BY <1>2 DEF Requested, IsMemory, Memory
  <1>7. flight'.owner = flight.owner
    <2> HIDE DEF g
    <2>1. CASE HoldFires(t)
      BY <1>2, <1>5, <2>1 DEF HoldFires, f
    <2>2. CASE ClipFires(t)
      BY <1>2, <1>5, <2>2 DEF ClipFires, f
    <2>3. CASE HardFires(t)
      BY <1>2, <1>6, <2>3 DEF HardFires, f, g
    <2> QED BY <1>3, <2>1, <2>2, <2>3 DEF WaitFires, SongEndTimesOut
  <1> QED BY <1>4, <1>7, AirKept

\* The song a block waits for has ended, while the block owns the air.
LEMMA SongEndedKeepsAir ==
    ASSUME Invs, SongEnded, UNCHANGED pointer, radio' \in Radio, SameAir(radio, radio')
    PROVE  AirInv' /\ StartsNothing
  <1> DEFINE r == flight.owner
             f == Bumped(flight, r)
             c == "song"
             S == Call(Len(flight.rts))
  <1>1. CASE UNCHANGED <<flight, calls>>
    <2>1. TypeInv /\ AirInv /\ \A d \in Callers : Still(d)
      BY <1>1 DEF Invs, FillerInv, Still
    <2> QED BY <1>1, <2>1, AirStays DEF StartsNothing
  <1>2. CASE /\ IsRunning(flight) /\ flight.rts[r].waiting
             /\ flight' = MovedOn(f, r) /\ calls' = Spawned(calls, "song", f, r)
    <2>1. r # 0 /\ ~Rests(flight)
      BY <1>2 DEF IsRunning, Rests
    <2>2. \A d \in Callers : ~Busy(calls[d])
      BY <2>1 DEF BlockInv, AloneInv, Idles, Invs
    <2>3. Apart(flight) /\ flight.lock = <<>>
      BY <2>1 DEF BlockInv, AloneInv, Apart, Invs
    <2>4. IsMemory(flight) /\ Held(flight) /\ c \in Callers /\ calls \in [Callers -> S]
      BY OrderFacts, Typed DEF Invs
    <2>5. Idles(f) /\ Lighter(flight, f) /\ IsMemory(f)
      BY <2>1, <2>3, <2>4, BumpedIdles
    <2>6. Held(f) /\ f.owner = r
      BY <2>5 DEF Held, Idles, Rests, Lighter
    <2> HIDE DEF f
    <2>7. flight' = MovedOn(f, f.owner) /\ calls' = Spawned(calls, c, f, f.owner) /\ f.owner # 0
      BY <1>2, <2>1, <2>6
    <2>8. flight'.owner = f.owner
      BY <2>5, <2>6, <2>7, MovedOnApart
    <2>9. Continuous(radio', 0, 0) /\ radio'.mem = radio.mem
      <3>1. Continuous(radio, 0, 0)
        BY <2>2, AirAtRest DEF Invs, FillerInv
      <3> QED BY <3>1, ContinuousSame DEF SameAir
    <2> HIDE DEF c, S
    <2>10. AirInv'
      BY <2>2, <2>4, <2>7, <2>8, <2>9, AirMoves
    <2>11. calls'["scheduler"] = calls["scheduler"]
      BY <2>4, <2>7 DEF Spawned, c, Callers
    <2> QED BY <2>6, <2>8, <2>10, <2>11 DEF StartsNothing, r
  <1> QED BY <1>1, <1>2 DEF SongEnded

\* The rotation goes on while no block is in the map.
LEMMA RotationAgrees ==
    ASSUME NEW k, NEW f, f.owner = 0, NEW x, Agrees(k, f, x), NEW y \in Radio, y.row = x.row,
           \A e \in {0, 1} : Continuous(x, 0, e) /\ (e = 1 => x.active = 0)
                             => Continuous(y, 0, 0)
    PROVE  Agrees(k, f, y)
  <1>1. Stage(k) \notin {"prepare", "prepared"} /\ (Stage(k) = "resume" => k.at = "resume")
    BY DEF Agrees
  <1>2. Lag(k) = 0
    BY <1>1 DEF Lag, Stage
  <1> DEFINE e == Lead(k, x)
  <1>3. e \in {0, 1} /\ Continuous(x, 0, e) /\ (e = 1 => x.active = 0)
    <2>1. e = 1 => x.active = 0
      BY <1>1 DEF Lead
    <2> QED BY <1>2, <2>1, Leads DEF Agrees
  <1> HIDE DEF e
  <1>4. Continuous(y, 0, 0)
    BY <1>3
  <1>5. Continuous(y, Lag(k), Lead(k, y))
    BY <1>4, Leads, ContinuousWeaker
  <1> QED BY <1>1, <1>5 DEF Agrees

LEMMA RotationKeepsAir ==
    ASSUME Invs, flight.owner = 0, UNCHANGED <<pointer, flight, calls>>,
           radio' \in Radio, radio'.row = radio.row,
           \A e \in {0, 1} : Continuous(radio, 0, e) /\ (e = 1 => radio.active = 0)
                             => Continuous(radio', 0, 0)
    PROVE  AirInv' /\ StartsNothing
  <1> DEFINE x == radio
             y == radio'
             f == flight
  <1>1. SUFFICES ASSUME NEW c \in Callers, OneCall(c)' PROVE Agrees(calls'[c], flight', radio')
    BY DEF AirInv, StartsNothing
  <1>2. OneCall(c)
    BY <1>1 DEF OneCall
  <1> DEFINE k == calls[c]
  <1>3. Agrees(k, f, x)
    BY <1>2 DEF Invs, FillerInv, AirInv
  <1>4. /\ f.owner = 0 /\ y \in Radio /\ y.row = x.row
        /\ \A e \in {0, 1} : Continuous(x, 0, e) /\ (e = 1 => x.active = 0)
                             => Continuous(y, 0, 0)
    OBVIOUS
  <1> HIDE DEF x, y, f, k
  <1>5. Agrees(k, f, y)
    BY <1>3, <1>4, RotationAgrees
  <1> QED BY <1>5 DEF y, f, k

LEMMA EndArrivesKeepsAir ==
    ASSUME Invs, TypeInv', NEW n \in radio.ended, EndArrives(n)
    PROVE  AirInv' /\ StartsNothing
  <1> DEFINE x == radio
             y == radio'
             z == [x EXCEPT !.ended = @ \ {n}]
  <1>1. /\ UNCHANGED pointer
        /\ \/ x.active # n /\ y = z /\ UNCHANGED <<flight, calls>>
           \/ /\ x.active = n /\ SongEnded
              /\ y = IF OwnsAir(flight) THEN [z EXCEPT !.active = 0] ELSE Continues(z, n)
    BY DEF EndArrives
  <1>2. x \in Radio /\ y \in Radio
    BY Typed DEF Invs, TypeInv
  <1>3. /\ z \in Radio /\ z.row = x.row /\ z.mem = x.mem /\ z.aired = x.aired
        /\ z.active = x.active
    BY <1>2 DEF Radio
  <1> HIDE DEF x, y, z
  <1>4. CASE y = z /\ UNCHANGED <<flight, calls>>
    <2>1. SameAir(x, y)
      BY <1>3, <1>4 DEF SameAir
    <2>2. TypeInv /\ AirInv /\ \A c \in Callers : Still(c)
      BY <1>4 DEF Invs, FillerInv, Still
    <2> QED BY <1>1, <1>4, <2>1, <2>2, AirStays DEF StartsNothing, x, y
  <1>5. CASE SongEnded /\ flight.owner # 0 /\ x.active = n
             /\ y = IF OwnsAir(flight) THEN [z EXCEPT !.active = 0] ELSE Continues(z, n)
    <2>1. y = [z EXCEPT !.active = 0]
      BY <1>5, OwnsTheAir
    <2>2. SameAir(x, y)
      BY <1>3, <2>1 DEF SameAir, Radio
    <2> QED BY <1>1, <1>2, <1>5, <2>2, SongEndedKeepsAir DEF x, y
  <1>6. CASE SongEnded /\ flight.owner = 0 /\ x.active = n
             /\ y = IF OwnsAir(flight) THEN [z EXCEPT !.active = 0] ELSE Continues(z, n)
    <2>1. y = Continues(z, n) /\ UNCHANGED <<flight, calls>>
      BY <1>6, OwnsTheAir DEF SongEnded, IsRunning
    <2>2. ASSUME NEW e \in {0, 1}, Continuous(x, 0, e), e = 1 => x.active = 0
          PROVE  Continuous(y, 0, 0) /\ y.row = x.row
      <3>1. Continuous(z, 0, e)
        BY <1>3, <2>2, ContinuousSame
      <3>2. e = 1 => n = 0
        BY <1>6, <2>2
      <3> QED BY <1>3, <2>1, <3>1, <3>2, EndContinues
    <2>3. \A e \in {0, 1} : Continuous(x, 0, e) /\ (e = 1 => x.active = 0) => Continuous(y, 0, 0)
      BY <2>2
    <2>4. y.row = x.row
      BY <1>3, <2>1 DEF Continues, RotationStarts, Takes, Silenced, Radio
    <2> QED BY <1>1, <1>2, <1>6, <2>1, <2>3, <2>4, RotationKeepsAir DEF x, y
  <1> QED BY <1>1, <1>4, <1>5, <1>6

LEMMA RadioKeepsAir ==
    ASSUME Invs, TypeInv',
           IdleSnapshot \/ TrackEnds \/ Ticks \/ \E m \in Cues : Disable(m)
    PROVE  AirInv' /\ StartsNothing
  <1> DEFINE x == radio
             y == radio'
  <1>1. UNCHANGED <<pointer, flight, calls>>
    BY DEF IdleSnapshot, TrackEnds, Ticks, Disable
  <1>2. x \in Radio /\ y \in Radio
    BY Typed DEF Invs, TypeInv
  <1>3. CASE IdleSnapshot
    <2>1. y = RotationStarts(x) /\ flight.owner = 0
      BY <1>3, OwnsTheAir DEF IdleSnapshot
    <2> HIDE DEF x, y
    <2>2. \A e \in {0, 1} : Continuous(x, 0, e) /\ (e = 1 => x.active = 0) => Continuous(y, 0, 0)
      BY <1>2, <2>1, RotationContinues
    <2>3. y.row = x.row
      BY <1>2, <2>1 DEF RotationStarts, Takes, Silenced, Radio
    <2> QED BY <1>1, <1>2, <2>1, <2>2, <2>3, RotationKeepsAir DEF x, y
  <1>4. CASE TrackEnds
    <2>1. y = Silenced(x)
      BY <1>4 DEF TrackEnds
    <2> HIDE DEF x, y
    <2>2. SameAir(x, y)
      BY <1>2, <2>1 DEF SameAir, Silenced, Radio
    <2>3. TypeInv /\ AirInv /\ \A c \in Callers : Still(c)
      BY <1>1 DEF Invs, FillerInv, Still
    <2> QED BY <1>1, <2>2, <2>3, AirStays DEF StartsNothing, x, y
  <1>5. CASE Ticks \/ \E m \in Cues : Disable(m)
    <2>1. UNCHANGED radio
      BY <1>5 DEF Ticks, Disable
    <2> QED BY <1>1, <2>1, AirKept
  <1> QED BY <1>3, <1>4, <1>5

--------------------------------------------------------------------------------
\* Every step

\* No stop of a block that hands the air back fails, and no restart comes meanwhile.
Undisturbed == \A c \in Callers : HandsOver(calls[c]) => ~Restart /\ ~StopFails(c)

LEMMA RestartKeepsFiller ==
    ASSUME Invs, Restart, Undisturbed
    PROVE  FillerInv'
  <1>1. /\ flight'.owner = 0 /\ calls' = [c \in Callers |-> Idle] /\ radio' = Rebooted(radio)
    BY DEF Restart
  <1>2. Continuous(radio, 0, 0) /\ radio \in Radio
    <2>1. PICK c \in Callers : OneCall(c)
      BY SomeCall DEF Invs, BlockInv
    <2> DEFINE k == calls[c]
               x == radio
    <2>2. Agrees(k, flight, x) /\ ~HandsOver(k) /\ x \in Radio
      BY <2>1, Typed DEF Invs, FillerInv, AirInv, Undisturbed
    <2> HIDE DEF k, x
    <2>3. Lag(k) = 0 /\ Lead(k, x) = 0
      BY <2>2, Leads
    <2> QED BY <2>2, <2>3 DEF Agrees, x
  <1>3. \A c \in Callers : ~Busy(calls'[c])
    BY <1>1, ReturnedRests
  <1>4. AirInv'
    <2>1. Continuous(radio', 0, 0)
      BY <1>1, <1>2, RebootedContinuous
    <2> QED BY <1>3, <2>1, AirRests
  <1>5. Sched' = Idle
    BY <1>1 DEF Sched, Callers
  <1>6. DueInv'
    BY <1>1, <1>5 DEF DueInv, Idle, BeginSteps, Activates
  <1> QED BY <1>4, <1>6 DEF FillerInv

LEMMA NextKeepsFiller ==
    ASSUME Invs, TypeInv', BlockInv',
           [Next]_vars, [~Operator]_vars, [Alone]_vars, [Undisturbed]_vars
    PROVE  FillerInv'
  <1>1. TypeInv /\ DueInv /\ Later
    BY NextIsLater DEF Invs, FillerInv
  <1>2. ASSUME AirInv' /\ StartsNothing PROVE FillerInv'
    BY <1>1, <1>2, DueStays DEF FillerInv
  <1>3. CASE UNCHANGED vars
    <2>1. UNCHANGED <<pointer, flight, calls, radio>>
      BY <1>3 DEF vars
    <2> QED BY <1>2, <2>1, AirKept
  <1>4. CASE ~UNCHANGED vars
    <2>1. Next /\ ~Operator /\ Alone /\ Undisturbed
      BY <1>4
    <2>2. ASSUME NEW c \in Callers, Proceeds(c) \/ StopFails(c) \/ PrepareFails(c)
          PROVE  FillerInv'
      <3>1. StopFails(c) => ~HandsOver(calls[c])
        BY <2>1 DEF Undisturbed
      <3> QED BY <1>1, <2>2, <3>1, ProceedsKeepsFiller
    <2>3. CASE Schedules
      BY <1>1, <2>1, <2>3, SchedulesKeepsFiller
    <2>4. CASE Turns \/ Timers
      BY <1>2, <2>4, TurnsKeepsAir, TimersKeepsAir
    <2>5. CASE Reports
      BY <1>2, <2>5, EndArrivesKeepsAir DEF Reports
    <2>6. CASE IdleSnapshot \/ TrackEnds \/ Ticks \/ \E m \in Cues : Disable(m)
      BY <1>2, <2>6, RadioKeepsAir
    <2>7. CASE Restart
      BY <2>1, <2>7, RestartKeepsFiller
    <2> QED BY <2>1, <2>2, <2>3, <2>4, <2>5, <2>6, <2>7 DEF Next, Faults
  <1> QED BY <1>3, <1>4

LEMMA InitFiller ==
    ASSUME Init
    PROVE  FillerInv
  <1>1. /\ flight.owner = 0 /\ \A c \in Callers : calls[c] = Idle
        /\ \E auto \in BOOLEAN : radio = IdleRadio(auto)
    BY FlightAssumption DEF Init
  <1>2. Sched = Idle
    BY <1>1 DEF Sched, Callers
  <1>3. DueInv
    BY <1>1, <1>2 DEF DueInv, Idle, BeginSteps, Activates
  <1>4. Continuous(radio, 0, 0)
    <2>1. /\ radio.aired = <<>> /\ Len(radio.aired) = 0 /\ radio.row = radio.mem
          /\ radio.mem.cursor = 1
      BY <1>1 DEF IdleRadio
    <2>2. Sequent(radio.aired) /\ \A p : ~LastFiller(radio.aired, p)
      BY <2>1 DEF Sequent, LastFiller
    <2> QED BY <2>1, <2>2 DEF Continuous
  <1>5. AirInv
    BY <1>1, <1>4, ReturnedRests, RestAgrees DEF AirInv
  <1> QED BY <1>3, <1>5 DEF FillerInv

\* A completed block hands the air back undisturbed: from its write of the rotation's
\* cursor until the rotation has resumed, no stop is refused and no restart comes.
HandsBack == [][Undisturbed]_vars

THEOREM FlightKeepsFiller ==
    Spec /\ NoneRuns /\ Unattended /\ OneByOne /\ HandsBack => []Invs
  <1>1. Init => FillerInv
    BY InitFiller
  <1>2. /\ TypeInv /\ ClaimInv /\ OrderInv /\ BlockInv /\ FillerInv
        /\ TypeInv' /\ BlockInv'
        /\ [Next]_vars /\ [~Operator]_vars /\ [Alone]_vars /\ [Undisturbed]_vars
        => FillerInv'
    BY NextKeepsFiller DEF Invs
  <1>3. Invs <=> TypeInv /\ ClaimInv /\ OrderInv /\ BlockInv /\ FillerInv
    BY DEF Invs
  <1> QED BY <1>1, <1>2, <1>3, FlightKeepsBlock, PTL DEF Spec, Unattended, OneByOne, HandsBack

\* The continuous rotation leaves no filler out: prepareContinuousRotationResume and
\* resumeContinuousRotation go on with the filler that follows the one the block cut.
THEOREM NoFillerSkippedAlone ==
    Spec /\ NoneRuns /\ Unattended /\ OneByOne /\ HandsBack => []NoFillerSkipped
  <1>1. Invs => NoFillerSkipped
    <2> SUFFICES ASSUME Invs PROVE NoFillerSkipped
      OBVIOUS
    <2>1. PICK c \in Callers : OneCall(c)
      BY SomeCall DEF Invs, BlockInv
    <2>2. Sequent(radio.aired)
      BY <2>1 DEF Invs, FillerInv, AirInv, Agrees, Continuous
    <2>3. DOMAIN radio.aired = 1..Len(radio.aired)
      BY Typed, RadioParts, LenProperties DEF Invs, Airings
    <2> QED BY <2>2, <2>3 DEF NoFillerSkipped, Sequent
  <1> QED BY <1>1, FlightKeepsFiller, PTL
================================================================================
