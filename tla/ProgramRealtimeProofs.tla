------------------------- MODULE ProgramRealtimeProofs -------------------------
(***************************************************************************)
(* Theorems about ProgramRealtime for any scenes, pages, operators and     *)
(* budgets: its types, the background audio that follows the scene on air, *)
(* the watermark of the scene audio and the row a console shows.           *)
(***************************************************************************)
EXTENDS ProgramRealtime, SequenceTheorems, TLAPS

----------------------------------------------------------------------------
(* Types.  A message that shows a row carries one; a page that has seen a version *)
(* shows a row; and a page without one is about to receive a snapshot.            *)

Change == [kind : ChangeKinds, step : ChangeSteps, scene : SceneOrNothing,
           fade : BOOLEAN, before : RowOrNothing, row : RowOrNothing]
Sent == {m \in Payload : m.kind \notin {"staged", "instant"} => m.row \in ProgramRow}
Poll == [from : Renderers, step : {"read", "answer"},
         payload : {m \in Sent : m.kind \in {"snapshot", "instant"}}]
View == {v \in [row : RowOrNothing, seen : Int, sound : SceneOrNothing, heard : Int, cut : RowOrNothing] :
           v.seen >= 0 => v.row \in ProgramRow}
Stream == [phase : {"down", "opening", "open"}, read : RowOrNothing, queue : Seq(Sent)]

\* A change keeps the row it read first, and the row its announcement will show.
Remembers(w) ==
    /\ w.kind = "add" => w.scene \in Scenes
    /\ w.kind # "none" => w.before \in ProgramRow
    /\ w.kind \notin {"none", "stage"}
        => \/ w.step \in {"write", "clear", "read"}
           \/ w.kind \notin {"take", "offair"} /\ w.step # "announce"
           \/ w.row \in ProgramRow

Opening(c) == streams[c].phase = "opening" => streams[c].read \in ProgramRow

\* A page without a row has a snapshot ahead of everything else.
SnapshotFirst(c) ==
    streams[c].phase = "open" =>
        \/ views[c].row \in ProgramRow
        \/ /\ streams[c].queue # <<>>
           /\ streams[c].queue[1].kind = "snapshot"
           /\ streams[c].queue[1].version \in Nat

RowsTyped == program \in ProgramRow
SoundTyped == background \in [scene : SceneOrNothing, playing : BOOLEAN, byHand : BOOLEAN]
VersionsTyped == versions \in [state : Nat, instant : Nat]
ChangesTyped == changes \in [Mutators -> Change] /\ \A o \in Mutators : Remembers(changes[o])
StreamsTyped == streams \in [Clients -> Stream] /\ \A c \in Clients : Opening(c)
PagesTyped == polls \subseteq Poll /\ views \in [Clients -> View]
PagesShow == \A c \in Clients : SnapshotFirst(c)
BudgetTyped == realtimeBudget \in [RealtimeKinds -> Nat]

TypeInv ==
    /\ RowsTyped /\ SoundTyped /\ VersionsTyped /\ ChangesTyped
    /\ StreamsTyped /\ PagesTyped /\ PagesShow /\ BudgetTyped

----------------------------------------------------------------------------
(* Operators. *)

\* Every renderer is a client.
LEMMA RenderersAreClients == Renderers \subseteq Clients
BY DEF Clients

\* Spending from the budget leaves a budget.
LEMMA SpendingKeeps ==
    ASSUME BudgetTyped, NEW kind \in RealtimeKinds, Allowed(kind)
    PROVE  BudgetTyped'
BY DEF BudgetTyped, Allowed

\* The messages on a stream.
On(q) == {q[n] : n \in DOMAIN q}

\* What sending does to the messages of a stream.
LEMMA AppendKeeps ==
    ASSUME NEW S, NEW q \in Seq(S), NEW m \in S
    PROVE  /\ Append(q, m) \in Seq(S) /\ Append(q, m) # <<>>
           /\ On(Append(q, m)) \subseteq On(q) \cup {m}
           /\ q # <<>> => Append(q, m)[1] = q[1]
<1>1. Append(q, m) \in Seq(S) /\ Append(q, m) # <<>> /\ Len(Append(q, m)) = Len(q) + 1
  BY AppendProperties
<1>2. \A n \in 1 .. Len(q) + 1 : Append(q, m)[n] = IF n <= Len(q) THEN q[n] ELSE m
  OBVIOUS
<1>3. On(Append(q, m)) \subseteq On(q) \cup {m}
  <2> SUFFICES ASSUME NEW n \in DOMAIN Append(q, m) PROVE Append(q, m)[n] \in On(q) \cup {m}
    BY DEF On
  <2>1. n \in 1 .. Len(q) + 1 BY <1>1
  <2> QED BY <2>1, <1>2 DEF On
<1>4. q # <<>> => Append(q, m)[1] = q[1] BY <1>2
<1> QED BY <1>1, <1>3, <1>4

\* What putting a snapshot first does.
LEMMA PrefixKeeps ==
    ASSUME NEW S, NEW q \in Seq(S), NEW m \in S
    PROVE  /\ <<m>> \o q \in Seq(S) /\ <<m>> \o q # <<>> /\ (<<m>> \o q)[1] = m
           /\ On(<<m>> \o q) \subseteq On(q) \cup {m}
<1>1. <<m>> \in Seq(S) /\ Len(<<m>>) = 1 /\ <<m>>[1] = m OBVIOUS
<1>2. <<m>> \o q \in Seq(S) /\ Len(<<m>> \o q) = 1 + Len(q) BY <1>1
<1>3. \A n \in 1 .. 1 + Len(q) : (<<m>> \o q)[n] = IF n <= 1 THEN m ELSE q[n - 1]
  BY <1>1
<1>4. On(<<m>> \o q) \subseteq On(q) \cup {m}
  <2> SUFFICES ASSUME NEW n \in DOMAIN (<<m>> \o q) PROVE (<<m>> \o q)[n] \in On(q) \cup {m}
    BY DEF On
  <2>1. n \in 1 .. 1 + Len(q) BY <1>2
  <2>2. n > 1 => n - 1 \in DOMAIN q BY <2>1
  <2> QED BY <2>1, <2>2, <1>3 DEF On
<1>5. <<m>> \o q # <<>> /\ (<<m>> \o q)[1] = m BY <1>2, <1>3
<1> QED BY <1>2, <1>4, <1>5

\* Receiving the head leaves messages that were there.
LEMMA TailKeeps ==
    ASSUME NEW S, NEW q \in Seq(S), q # <<>>
    PROVE  /\ Tail(q) \in Seq(S) /\ Head(q) \in S
           /\ On(Tail(q)) \subseteq On(q) /\ Head(q) \in On(q) /\ Head(q) = q[1]
<1>1. Tail(q) \in Seq(S) /\ Head(q) = q[1] /\ 1 \in DOMAIN q /\ Len(Tail(q)) = Len(q) - 1
  OBVIOUS
<1>2. \A n \in 1 .. Len(q) - 1 : Tail(q)[n] = q[n + 1] /\ n + 1 \in DOMAIN q OBVIOUS
<1>3. On(Tail(q)) \subseteq On(q)
  <2> SUFFICES ASSUME NEW n \in DOMAIN Tail(q) PROVE Tail(q)[n] \in On(q)
    BY DEF On
  <2>1. n \in 1 .. Len(q) - 1 BY <1>1
  <2> QED BY <2>1, <1>2 DEF On
<1>4. Head(q) \in S BY <1>1
<1> QED BY <1>1, <1>3, <1>4 DEF On

\* What a handler announces is a payload, and the envelope leaves it one.
LEMMA MessagesTyped ==
    ASSUME NEW kind \in PayloadKinds
    PROVE  /\ Message(kind) \in Payload /\ Message(kind).kind = kind
           /\ \A row \in ProgramRow : [Message(kind) EXCEPT !.row = row] \in Sent
           /\ \A s \in SceneOrNothing : kind = "staged" => [Message(kind) EXCEPT !.staged = s] \in Sent
           /\ \A s \in SceneOrNothing : kind = "instant" => [Message(kind) EXCEPT !.sound = s] \in Sent
<1>1. Message(kind) \in Payload /\ Message(kind).kind = kind
  BY DEF Message, Payload, RowOrNothing, SceneOrNothing
<1>2. \A row \in ProgramRow : [Message(kind) EXCEPT !.row = row] \in Sent
  BY <1>1 DEF Payload, Sent, RowOrNothing
<1>3. \A s \in SceneOrNothing : kind = "staged" => [Message(kind) EXCEPT !.staged = s] \in Sent
  BY <1>1 DEF Payload, Sent
<1>4. \A s \in SceneOrNothing : kind = "instant" => [Message(kind) EXCEPT !.sound = s] \in Sent
  BY <1>1 DEF Payload, Sent
<1> QED BY <1>1, <1>2, <1>3, <1>4

\* A version is stamped on a copy.
LEMMA StampTyped ==
    ASSUME NEW m \in Sent, NEW n \in Int
    PROVE  [m EXCEPT !.version = n] \in Sent
BY DEF Sent, Payload

\* The versions after a broadcast, and the message it sends.
LEMMA StampsTyped ==
    ASSUME VersionsTyped, NEW m \in Sent
    PROVE  /\ Bumped(m.kind) \in [state : Nat, instant : Nat]
           /\ Stamped(m) \in Sent /\ Stamped(m).kind = m.kind
<1>1. m.kind \in PayloadKinds BY DEF Sent, Payload
<1>2. CASE TopicOf(m.kind) = "none" BY <1>2 DEF Bumped, Stamped, VersionsTyped
<1>3. CASE TopicOf(m.kind) # "none"
  <2>1. TopicOf(m.kind) \in {"state", "instant"} BY <1>3 DEF TopicOf
  <2>2. Bumped(m.kind) \in [state : Nat, instant : Nat] BY <1>3, <2>1 DEF Bumped, VersionsTyped
  <2>3. Bumped(m.kind)[TopicOf(m.kind)] \in Int BY <2>1, <2>2
  <2> QED BY <1>3, <2>2, <2>3, StampTyped DEF Stamped, Sent, Payload
<1> QED BY <1>2, <1>3

\* A broadcast sends one stamped message to the streams that are not down.
LEMMA BroadcastTyped ==
    ASSUME TypeInv, NEW m \in Sent, Broadcast(m), views' = views
    PROVE  /\ VersionsTyped' /\ StreamsTyped' /\ PagesShow'
           /\ \A c \in Clients : On(streams'[c].queue) \subseteq On(streams[c].queue) \cup {Stamped(m)}
<1>1. VersionsTyped' BY StampsTyped DEF TypeInv, Broadcast, VersionsTyped
<1>2. Stamped(m) \in Sent BY StampsTyped DEF TypeInv
<1>3. ASSUME NEW c \in Clients
      PROVE  /\ streams'[c] \in Stream /\ Opening(c)' /\ SnapshotFirst(c)'
             /\ On(streams'[c].queue) \subseteq On(streams[c].queue) \cup {Stamped(m)}
  <2>1. streams[c] \in Stream /\ streams[c].queue \in Seq(Sent) BY DEF TypeInv, StreamsTyped, Stream
  <2>2. Opening(c) /\ SnapshotFirst(c) BY DEF TypeInv, StreamsTyped, PagesShow
  <2>3. CASE streams[c].phase = "down"
    <3>1. streams'[c] = streams[c] BY <2>3 DEF Broadcast
    <3> QED BY <3>1, <2>1, <2>2 DEF Opening, SnapshotFirst
  <2>4. CASE streams[c].phase # "down"
    <3> DEFINE old == streams[c].queue
               sent == Stamped(m)
               q == Append(old, sent)
    <3>1. streams'[c] = [streams[c] EXCEPT !.queue = q] BY <2>4 DEF Broadcast
    <3>a. old \in Seq(Sent) /\ sent \in Sent BY <1>2, <2>1
    <3> HIDE DEF old, sent
    <3>b. /\ q \in Seq(Sent) /\ q # <<>> /\ On(q) \subseteq On(old) \cup {sent}
          /\ old # <<>> => q[1] = old[1]
      BY <3>a, AppendKeeps
    <3> HIDE DEF q
    <3>2. /\ q \in Seq(Sent) /\ q # <<>> /\ On(q) \subseteq On(streams[c].queue) \cup {Stamped(m)}
          /\ streams[c].queue # <<>> => q[1] = streams[c].queue[1]
      BY <3>b DEF old, sent
    <3>3. /\ streams'[c] \in Stream /\ streams'[c].queue = q
          /\ streams'[c].phase = streams[c].phase /\ streams'[c].read = streams[c].read
      BY <2>1, <3>1, <3>2 DEF Stream
    <3>4. SnapshotFirst(c)' BY <2>2, <3>2, <3>3 DEF SnapshotFirst
    <3> QED BY <2>2, <3>2, <3>3, <3>4 DEF Opening
  <2> QED BY <2>3, <2>4
<1>4. DOMAIN streams' = Clients /\ streams' = [c \in Clients |-> streams'[c]] BY DEF Broadcast
<1>5. streams' \in [Clients -> Stream] BY <1>3, <1>4
<1> QED BY <1>1, <1>3, <1>5 DEF StreamsTyped, PagesShow

\* The handler moves to another step of its change, or ends it.
LEMMA ChangeMoves ==
    ASSUME ChangesTyped, NEW o \in Mutators
    PROVE  /\ \A step \in ChangeSteps :
                ChangeGoes(o, step) /\ Remembers([changes[o] EXCEPT !.step = step]) => ChangesTyped'
           /\ ChangeEnds(o) => ChangesTyped'
           /\ \A w \in Change : Remembers(w) /\ changes' = [changes EXCEPT ![o] = w] => ChangesTyped'
<1>1. changes[o] \in Change BY DEF ChangesTyped
<1>2. \A w \in Change : Remembers(w) /\ changes' = [changes EXCEPT ![o] = w] => ChangesTyped'
  <2> SUFFICES ASSUME NEW w \in Change, Remembers(w), changes' = [changes EXCEPT ![o] = w]
               PROVE  ChangesTyped'
    OBVIOUS
  <2>1. changes' \in [Mutators -> Change] BY DEF ChangesTyped
  <2>2. \A p \in Mutators : changes'[p] = IF p = o THEN w ELSE changes[p] BY DEF ChangesTyped
  <2>3. \A p \in Mutators : Remembers(changes'[p]) BY <2>2 DEF ChangesTyped
  <2> QED BY <2>1, <2>3 DEF ChangesTyped
<1>3. ASSUME NEW step \in ChangeSteps, ChangeGoes(o, step), Remembers([changes[o] EXCEPT !.step = step])
      PROVE  ChangesTyped'
  <2> DEFINE w == [changes[o] EXCEPT !.step = step]
  <2>1. w \in Change BY <1>1 DEF Change
  <2>2. changes' = [changes EXCEPT ![o] = w] BY <1>3 DEF ChangeGoes
  <2>3. Remembers(w) BY <1>3
  <2> HIDE DEF w
  <2> QED BY <1>2, <2>1, <2>2, <2>3
<1>4. NoChange \in Change /\ Remembers(NoChange)
  BY DEF NoChange, Change, ChangeKinds, RowChanges, ChangeSteps, SceneOrNothing, RowOrNothing, Remembers
<1> QED BY <1>2, <1>3, <1>4 DEF ChangeEnds

\* Where a change stands once it has moved: what it remembers.
LEMMA StillRemembers ==
    ASSUME NEW w \in Change, Remembers(w), NEW step \in ChangeSteps,
           \/ w.kind = "stage"
           \/ step \in {"write", "clear", "read"}
           \/ w.kind \notin {"take", "offair"} /\ step # "announce"
           \/ w.row \in ProgramRow
    PROVE  Remembers([w EXCEPT !.step = step])
BY DEF Remembers, Change

----------------------------------------------------------------------------
(* Each action keeps the types. *)

\* The state starts well typed.
LEMMA InitIsTyped == RealtimeInit => TypeInv
<1> SUFFICES ASSUME RealtimeInit PROVE TypeInv OBVIOUS
<1>1. RowsTyped BY DEF RealtimeInit, RowsTyped, ProgramRow, SceneOrNothing
<1>2. SoundTyped /\ VersionsTyped BY DEF RealtimeInit, Silence, SoundTyped, VersionsTyped, SceneOrNothing
<1>3. NoChange \in Change /\ Remembers(NoChange)
  BY DEF NoChange, Change, ChangeKinds, RowChanges, ChangeSteps, SceneOrNothing, RowOrNothing, Remembers
<1>4. ChangesTyped BY <1>3 DEF RealtimeInit, ChangesTyped
<1>5. Down \in Stream /\ Down.phase = "down" BY DEF Down, Stream, RowOrNothing
<1>6. StreamsTyped /\ PagesShow
  BY <1>5 DEF RealtimeInit, StreamsTyped, Opening, PagesShow, SnapshotFirst
<1>7. PagesTyped BY DEF RealtimeInit, PagesTyped, View, RowOrNothing, SceneOrNothing
<1>8. BudgetTyped BY RealtimeAssumption DEF RealtimeInit, BudgetTyped
<1> QED BY <1>1, <1>2, <1>4, <1>6, <1>7, <1>8 DEF TypeInv

\* A request begins with what its first read saw.
LEMMA StartKeeps ==
    ASSUME TypeInv, NEW o \in Mutators, NEW w \in Change, Start(o, w),
           w.step \in {"write", "read"} \/ (w.kind \in {"play", "stop"} /\ w.step # "announce"),
           w.kind = "add" => w.scene \in Scenes,
           NEW kind \in RealtimeKinds, Allowed(kind)
    PROVE  TypeInv'
<1> DEFINE v == [w EXCEPT !.before = program]
<1>1. v \in Change /\ Remembers(v)
  BY DEF TypeInv, RowsTyped, Change, RowOrNothing, Remembers
<1>2. changes' = [changes EXCEPT ![o] = v] BY DEF Start
<1> HIDE DEF v
<1>3. ChangesTyped' BY <1>1, <1>2, ChangeMoves DEF TypeInv
<1>4. BudgetTyped' BY SpendingKeeps DEF TypeInv
<1> QED BY <1>3, <1>4 DEF Start, TypeInv, RowsTyped, SoundTyped, VersionsTyped, StreamsTyped, Opening,
           PagesTyped, PagesShow, SnapshotFirst

\* Every kind of change begins well typed.
LEMMA RequestsKeep ==
    ASSUME TypeInv, NEW o \in Mutators,
           \/ \E s \in Scenes : ActivateScene(o, s) \/ AddScene(o, s) \/ RemoveScene(o, s)
           \/ \E s \in SceneOrNothing : StageScene(o, s)
           \/ \E b \in BOOLEAN : SetFadeToBlack(o, b)
           \/ \E s \in Scenes : TakeSceneInstant(o, s)
           \/ TakeProgramOffAir(o) \/ StopSceneInstant(o)
    PROVE  TypeInv'
<1> USE DEF ChangeKinds, RowChanges, ChangeSteps, SceneOrNothing, RowOrNothing, RealtimeKinds
<1>1. ASSUME NEW s \in Scenes, ActivateScene(o, s) PROVE TypeInv'
  <2> DEFINE w == [NoChange EXCEPT !.kind = "take", !.scene = s]
  <2>1. /\ w \in Change /\ w.step \in {"write", "read"}
        /\ w.kind = "add" => w.scene \in Scenes
    BY DEF NoChange, Change
  <2> HIDE DEF w
  <2> QED BY <1>1, <2>1, StartKeeps DEF ActivateScene, w
<1>2. ASSUME NEW s \in Scenes, AddScene(o, s) PROVE TypeInv'
  <2> DEFINE w == [NoChange EXCEPT !.kind = "add", !.scene = s,
                                   !.step = IF s \in program.scenes THEN "read" ELSE "write"]
  <2>1. /\ w \in Change /\ w.step \in {"write", "read"}
        /\ w.kind = "add" => w.scene \in Scenes
    BY DEF NoChange, Change
  <2> HIDE DEF w
  <2> QED BY <1>2, <2>1, StartKeeps DEF AddScene, w
<1>3. ASSUME NEW s \in Scenes, RemoveScene(o, s) PROVE TypeInv'
  <2> DEFINE w == [NoChange EXCEPT !.kind = "remove", !.scene = s]
  <2>1. /\ w \in Change /\ w.step \in {"write", "read"}
        /\ w.kind = "add" => w.scene \in Scenes
    BY DEF NoChange, Change
  <2> HIDE DEF w
  <2> QED BY <1>3, <2>1, StartKeeps DEF RemoveScene, w
<1>4. ASSUME NEW s \in SceneOrNothing, StageScene(o, s) PROVE TypeInv'
  <2> DEFINE w == [NoChange EXCEPT !.kind = "stage", !.scene = s]
  <2>1. /\ w \in Change /\ w.step \in {"write", "read"}
        /\ w.kind = "add" => w.scene \in Scenes
    BY DEF NoChange, Change
  <2> HIDE DEF w
  <2> QED BY <1>4, <2>1, StartKeeps DEF StageScene, w
<1>5. ASSUME NEW b \in BOOLEAN, SetFadeToBlack(o, b) PROVE TypeInv'
  <2> DEFINE w == [NoChange EXCEPT !.kind = "fade", !.fade = b,
                                   !.step = IF program.fade = b THEN "read" ELSE "write"]
  <2>1. /\ w \in Change /\ w.step \in {"write", "read"}
        /\ w.kind = "add" => w.scene \in Scenes
    BY DEF NoChange, Change
  <2> HIDE DEF w
  <2> QED BY <1>5, <2>1, StartKeeps DEF SetFadeToBlack, w
<1>6. ASSUME TakeProgramOffAir(o) PROVE TypeInv'
  <2> DEFINE w == [NoChange EXCEPT !.kind = "offair"]
  <2>1. /\ w \in Change /\ w.step \in {"write", "read"}
        /\ w.kind = "add" => w.scene \in Scenes
    BY DEF NoChange, Change
  <2> HIDE DEF w
  <2> QED BY <1>6, <2>1, StartKeeps DEF TakeProgramOffAir, w
<1>7. ASSUME NEW s \in Scenes, TakeSceneInstant(o, s) PROVE TypeInv'
  <2> DEFINE w == [NoChange EXCEPT !.kind = "play", !.scene = s, !.step = "start"]
  <2>1. w \in Change /\ w.kind = "play" /\ w.step # "announce" BY DEF NoChange, Change
  <2> HIDE DEF w
  <2> QED BY <1>7, <2>1, StartKeeps DEF TakeSceneInstant, w
<1>8. ASSUME StopSceneInstant(o) PROVE TypeInv'
  <2> DEFINE w == [NoChange EXCEPT !.kind = "stop", !.step = "hush"]
  <2>1. w \in Change /\ w.kind = "stop" /\ w.step # "announce" BY DEF NoChange, Change
  <2> HIDE DEF w
  <2> QED BY <1>8, <2>1, StartKeeps DEF StopSceneInstant, w
<1> QED BY <1>1, <1>2, <1>3, <1>4, <1>5, <1>6, <1>7, <1>8

\* What most handlers leave alone.
LEMMA RestTyped ==
    ASSUME TypeInv, UNCHANGED <<polls, views>>
    PROVE  /\ PagesTyped'
           /\ streams' = streams => StreamsTyped' /\ PagesShow'
           /\ versions' = versions => VersionsTyped'
           /\ background' = background => SoundTyped'
           /\ program' = program => RowsTyped'
           /\ changes' = changes => ChangesTyped'
           /\ realtimeBudget' = realtimeBudget => BudgetTyped'
BY DEF TypeInv, PagesTyped, StreamsTyped, Opening, PagesShow, SnapshotFirst, VersionsTyped,
       SoundTyped, RowsTyped, ChangesTyped, BudgetTyped

\* A row is edited field by field.
LEMMA SceneRowEdits ==
    ASSUME NEW p \in ProgramRow, NEW s \in SceneOrNothing, NEW t \in SceneOrNothing,
           NEW b \in BOOLEAN, NEW S \in SUBSET Scenes
    PROVE  /\ [p EXCEPT !.active = s, !.staged = t] \in ProgramRow
           /\ [p EXCEPT !.active = s, !.fade = b] \in ProgramRow
           /\ [p EXCEPT !.staged = s] \in ProgramRow
           /\ [p EXCEPT !.fade = b] \in ProgramRow
           /\ [p EXCEPT !.scenes = S] \in ProgramRow
BY DEF ProgramRow

LEMMA WriteRowKeeps == ASSUME TypeInv, NEW o \in Mutators, WriteRow(o) PROVE TypeInv'
<1> DEFINE w == changes[o]
<1>1. w \in Change /\ Remembers(w) /\ program \in ProgramRow BY DEF TypeInv, ChangesTyped, RowsTyped
<1>2. w.kind \in RowChanges /\ w.step = "write" BY DEF WriteRow, Doing
<1>3. /\ w.scene \in SceneOrNothing /\ w.fade \in BOOLEAN /\ w.before \in ProgramRow
      /\ w.before.active \in SceneOrNothing /\ Nothing \in SceneOrNothing
  BY <1>1, <1>2 DEF Change, Remembers, ProgramRow, SceneOrNothing, RowChanges
<1>4. RowsTyped'
  <2>1. CASE w.kind = "take"
    <3>1. program' = [program EXCEPT !.active = w.scene, !.staged = w.before.active] BY <2>1 DEF WriteRow
    <3> QED BY <3>1, <1>1, <1>3, SceneRowEdits DEF RowsTyped
  <2>2. CASE w.kind = "offair"
    <3> DEFINE b == FALSE
    <3>1. b \in BOOLEAN OBVIOUS
    <3>2. program' = [program EXCEPT !.active = Nothing, !.fade = b] BY <2>2 DEF WriteRow
    <3> HIDE DEF b
    <3> QED BY <3>1, <3>2, <1>1, <1>3, SceneRowEdits DEF RowsTyped
  <2>3. CASE w.kind = "stage"
    <3>1. program' = [program EXCEPT !.staged = w.scene] BY <2>3 DEF WriteRow
    <3> QED BY <3>1, <1>1, <1>3, SceneRowEdits DEF RowsTyped
  <2>4. CASE w.kind = "fade"
    <3>1. program' = [program EXCEPT !.fade = w.fade] BY <2>4 DEF WriteRow
    <3> QED BY <3>1, <1>1, <1>3, SceneRowEdits DEF RowsTyped
  <2>5. CASE w.kind = "add"
    <3>1. program' = [program EXCEPT !.scenes = @ \cup {w.scene}] BY <2>5 DEF WriteRow
    <3>2. program.scenes \cup {w.scene} \in SUBSET Scenes BY <2>5, <1>1 DEF ProgramRow, Remembers
    <3> QED BY <3>1, <3>2, <1>1, <1>3, SceneRowEdits DEF RowsTyped
  <2>6. CASE w.kind = "remove"
    <3>1. program' = [program EXCEPT !.scenes = @ \ {w.scene}] BY <2>6 DEF WriteRow
    <3>2. program.scenes \ {w.scene} \in SUBSET Scenes BY <1>1 DEF ProgramRow
    <3> QED BY <3>1, <3>2, <1>1, <1>3, SceneRowEdits DEF RowsTyped
  <2> QED BY <1>2, <2>1, <2>2, <2>3, <2>4, <2>5, <2>6 DEF RowChanges
<1>5. ChangesTyped'
  <2>1. PICK step \in {"announce", "decide", "read"} :
           /\ ChangeGoes(o, step)
           /\ step = "announce" => w.kind = "stage"
           /\ step = "decide" => w.kind = "remove"
    BY DEF WriteRow
  <2>2. step \in ChangeSteps BY DEF ChangeSteps
  <2>3. Remembers([w EXCEPT !.step = step]) BY <1>1, <2>1, <2>2, StillRemembers
  <2> QED BY <2>1, <2>2, <2>3, ChangeMoves DEF TypeInv
<1> QED BY <1>4, <1>5, RestTyped DEF WriteRow, TypeInv

LEMMA ClearReferencesKeeps == ASSUME TypeInv, NEW o \in Mutators, ClearReferences(o) PROVE TypeInv'
<1> DEFINE w == changes[o]
<1>1. w \in Change /\ Remembers(w) /\ program \in ProgramRow BY DEF TypeInv, ChangesTyped, RowsTyped
<1>2. RowsTyped'
  <2>1. program.active \in SceneOrNothing /\ program.staged \in SceneOrNothing /\ Nothing \in SceneOrNothing
    BY <1>1 DEF ProgramRow, SceneOrNothing
  <2>2. PICK s \in SceneOrNothing, t \in SceneOrNothing : program' = [program EXCEPT !.active = s, !.staged = t]
    BY <2>1 DEF ClearReferences
  <2> QED BY <1>1, <2>2, SceneRowEdits DEF RowsTyped
<1>3. ChangesTyped'
  <2>1. ChangeGoes(o, "read") /\ "read" \in ChangeSteps BY DEF ClearReferences, ChangeSteps
  <2>2. Remembers([w EXCEPT !.step = "read"]) BY <1>1, <2>1, StillRemembers
  <2> QED BY <2>1, <2>2, ChangeMoves DEF TypeInv
<1> QED BY <1>2, <1>3, RestTyped DEF ClearReferences, TypeInv

LEMMA ReadForBroadcastKeeps == ASSUME TypeInv, NEW o \in Mutators, ReadForBroadcast(o) PROVE TypeInv'
<1> DEFINE step == IF changes[o].kind \in {"take", "offair"} THEN "decide" ELSE "announce"
           w == [changes[o] EXCEPT !.row = program, !.step = step]
<1>1. changes[o] \in Change /\ Remembers(changes[o]) /\ program \in ProgramRow
  BY DEF TypeInv, ChangesTyped, RowsTyped
<1>2. step \in ChangeSteps BY DEF ChangeSteps
<1>3. changes' = [changes EXCEPT ![o] = w] BY DEF ReadForBroadcast
<1> HIDE DEF step
<1>4. w \in Change BY <1>1, <1>2 DEF Change, RowOrNothing
<1>5. Remembers(w) BY <1>1 DEF Remembers, Change
<1> HIDE DEF w
<1>6. ChangesTyped' BY <1>3, <1>4, <1>5, ChangeMoves DEF TypeInv
<1> QED BY <1>6, RestTyped DEF ReadForBroadcast, TypeInv

\* Where a handler goes from the background.
LEMMA OnwardSteps ==
    ASSUME NEW w
    PROVE  /\ w.kind # "remove" => Onward(w) = "announce"
           /\ w.kind = "remove" => Onward(w) \in {"clear", "read"}
           /\ w.kind = "remove" /\ Onward(w) = "read" => w.scene # w.before.active
           /\ Configured(w) => w.kind = "take"
BY DEF Onward, Configured

LEMMA DecideKeeps == ASSUME TypeInv, NEW o \in Mutators, Decide(o) PROVE TypeInv'
<1> DEFINE w == changes[o]
<1>1. w \in Change /\ Remembers(w) BY DEF TypeInv, ChangesTyped
<1>2. w.kind \in {"take", "offair", "remove"} /\ w.step = "decide" BY DEF Decide, Decides, Doing
<1>3. PICK step \in {"hush", "find", "announce", "clear", "read"} :
         ChangeGoes(o, step) /\ (step \in {"find", "announce"} => w.kind # "remove")
  BY <1>2, OnwardSteps DEF Decide, Decides
<1>4. step \in ChangeSteps BY DEF ChangeSteps
<1>5. w.kind # "remove" => w.row \in ProgramRow BY <1>1, <1>2 DEF Remembers
<1>6. Remembers([w EXCEPT !.step = step]) BY <1>1, <1>3, <1>4, <1>5, StillRemembers
<1>7. ChangesTyped' BY <1>3, <1>4, <1>6, ChangeMoves DEF TypeInv
<1> QED BY <1>7, RestTyped DEF Decide, Decides, TypeInv

\* A playback that starts or stops is announced on the streams.
LEMMA BackgroundTyped ==
    ASSUME TypeInv, NEW s \in SceneOrNothing, NEW b \in BOOLEAN, NEW h \in BOOLEAN,
           Background(s, b, h), views' = views
    PROVE  SoundTyped' /\ VersionsTyped' /\ StreamsTyped' /\ PagesShow'
<1> DEFINE m == [Message("instant") EXCEPT !.sound = IF b THEN s ELSE Nothing]
<1>1. m \in Sent
  <2>1. (IF b THEN s ELSE Nothing) \in SceneOrNothing BY DEF SceneOrNothing
  <2>2. "instant" \in PayloadKinds BY DEF PayloadKinds
  <2> QED BY <2>1, <2>2, MessagesTyped
<1>2. Broadcast(m) BY DEF Background
<1> HIDE DEF m
<1>3. SoundTyped' BY DEF Background, SoundTyped
<1> QED BY <1>1, <1>2, <1>3, BroadcastTyped

LEMMA HushKeeps == ASSUME TypeInv, NEW o \in Mutators, Hush(o) PROVE TypeInv'
<1> DEFINE w == changes[o]
           b == FALSE
<1>1. w \in Change /\ Remembers(w) /\ b \in BOOLEAN BY DEF TypeInv, ChangesTyped
<1>2. w.kind \in {"take", "offair", "remove", "stop"} /\ w.step = "hush" BY DEF Hush, Doing
<1>3. ChangesTyped'
  <2>1. CASE w.kind = "stop" BY <2>1, ChangeMoves DEF Hush, TypeInv
  <2>2. CASE w.kind # "stop"
    <3>1. PICK step \in {"wait", "announce", "clear", "read"} :
             ChangeGoes(o, step) /\ (step \in {"wait", "announce"} => w.kind # "remove")
      BY <2>2, OnwardSteps DEF Hush
    <3>2. step \in ChangeSteps BY DEF ChangeSteps
    <3>3. step \in {"wait", "announce"} => w.row \in ProgramRow BY <1>1, <1>2, <2>2, <3>1 DEF Remembers
    <3>4. Remembers([w EXCEPT !.step = step]) BY <1>1, <3>1, <3>2, <3>3, StillRemembers
    <3> QED BY <3>1, <3>2, <3>4, ChangeMoves DEF TypeInv
  <2> QED BY <2>1, <2>2
<1>4. background.scene \in SceneOrNothing BY DEF TypeInv, SoundTyped
<1>5. Background(background.scene, b, b) BY DEF Hush
<1> HIDE DEF b
<1>6. UNCHANGED <<program, polls, views, realtimeBudget>> BY DEF Hush
<1>7. SoundTyped' /\ VersionsTyped' /\ StreamsTyped' /\ PagesShow'
  BY <1>1, <1>4, <1>5, <1>6, BackgroundTyped
<1> QED BY <1>3, <1>6, <1>7, RestTyped DEF TypeInv

LEMMA FadeElapsesKeeps == ASSUME TypeInv, NEW o \in Mutators, FadeElapses(o) PROVE TypeInv'
<1> DEFINE w == changes[o]
<1>1. w \in Change /\ Remembers(w) BY DEF TypeInv, ChangesTyped
<1>2. w.row \in ProgramRow BY <1>1 DEF FadeElapses, Doing, Remembers
<1>3. ChangeGoes(o, "find") /\ "find" \in ChangeSteps BY DEF FadeElapses, ChangeSteps
<1>4. Remembers([w EXCEPT !.step = "find"]) BY <1>1, <1>2, <1>3, StillRemembers
<1>5. ChangesTyped' BY <1>3, <1>4, ChangeMoves DEF TypeInv
<1> QED BY <1>5, RestTyped DEF FadeElapses, TypeInv

LEMMA FindBackgroundKeeps == ASSUME TypeInv, NEW o \in Mutators, FindBackground(o) PROVE TypeInv'
<1> DEFINE w == changes[o]
<1>1. w \in Change /\ Remembers(w) BY DEF TypeInv, ChangesTyped
<1>2. w.row \in ProgramRow BY <1>1 DEF FindBackground, Doing, Remembers
<1>3. PICK step \in {"start", "announce"} : ChangeGoes(o, step) BY DEF FindBackground
<1>4. step \in ChangeSteps BY DEF ChangeSteps
<1>5. Remembers([w EXCEPT !.step = step]) BY <1>1, <1>2, <1>4, StillRemembers
<1>6. ChangesTyped' BY <1>3, <1>4, <1>5, ChangeMoves DEF TypeInv
<1> QED BY <1>6, RestTyped DEF FindBackground, TypeInv

\* The take of an operator ends, the one inside a change of scene lets it go on.
LEMMA AudioDoneTyped ==
    ASSUME TypeInv, NEW o \in Mutators, Doing(o, {"take", "play"}, "start"), AudioDone(o)
    PROVE  ChangesTyped'
<1> DEFINE w == changes[o]
<1>1. w \in Change /\ Remembers(w) BY DEF TypeInv, ChangesTyped
<1>2. CASE w.kind = "play" BY <1>2, ChangeMoves DEF AudioDone, TypeInv
<1>3. CASE w.kind = "take"
  <2>1. w.row \in ProgramRow BY <1>1, <1>3 DEF Doing, Remembers
  <2>2. ChangeGoes(o, "announce") /\ "announce" \in ChangeSteps BY <1>3 DEF AudioDone, ChangeSteps
  <2>3. Remembers([w EXCEPT !.step = "announce"]) BY <1>1, <2>1, <2>2, StillRemembers
  <2> QED BY <2>2, <2>3, ChangeMoves DEF TypeInv
<1> QED BY <1>2, <1>3 DEF Doing

LEMMA StartBackgroundKeeps == ASSUME TypeInv, NEW o \in Mutators, StartBackground(o) PROVE TypeInv'
<1> DEFINE s == changes[o].scene
           b == TRUE
           h == changes[o].kind = "play"
<1>1. s \in SceneOrNothing /\ b \in BOOLEAN /\ h \in BOOLEAN BY DEF TypeInv, ChangesTyped, Change
<1>2. ChangesTyped' BY AudioDoneTyped DEF StartBackground
<1>3. Background(s, b, h) /\ UNCHANGED <<program, polls, views, realtimeBudget>> BY DEF StartBackground
<1> HIDE DEF s, b, h
<1>4. SoundTyped' /\ VersionsTyped' /\ StreamsTyped' /\ PagesShow' BY <1>1, <1>3, BackgroundTyped
<1> QED BY <1>2, <1>3, <1>4, RestTyped DEF TypeInv

LEMMA BackgroundFailsKeeps == ASSUME TypeInv, NEW o \in Mutators, BackgroundFails(o) PROVE TypeInv'
<1>1. ChangesTyped' BY AudioDoneTyped DEF BackgroundFails
<1>2. BudgetTyped'
  <2>1. "fail" \in RealtimeKinds BY DEF RealtimeKinds
  <2> QED BY <2>1, SpendingKeeps DEF BackgroundFails, TypeInv
<1> QED BY <1>1, <1>2, RestTyped DEF BackgroundFails, TypeInv

\* What a change announces.
LEMMA AnnouncementTyped ==
    ASSUME NEW w \in Change, Remembers(w), w.kind # "none", w.step = "announce"
    PROVE  Announcement(w) \in Sent /\ Announcement(w).kind # "instant"
<1>1. w.scene \in SceneOrNothing /\ w.kind \in ChangeKinds /\ (w.kind # "stage" => w.row \in ProgramRow)
  BY DEF Change, Remembers
<1>2. {"change", "staged", "scenes", "fade"} \subseteq PayloadKinds BY DEF PayloadKinds
<1>3. CASE w.kind = "stage"
  <2>1. Announcement(w) = [Message("staged") EXCEPT !.staged = w.scene] BY <1>3 DEF Announcement
  <2>2. Announcement(w).kind = "staged" BY <2>1 DEF Message
  <2> QED BY <1>1, <1>2, <2>1, <2>2, MessagesTyped
<1>4. CASE w.kind # "stage"
  <2>1. PICK kind \in {"change", "scenes", "fade"} : Announcement(w) = [Message(kind) EXCEPT !.row = w.row]
    BY <1>4 DEF Announcement
  <2>2. Announcement(w).kind = kind BY <2>1 DEF Message
  <2> QED BY <1>1, <1>2, <1>4, <2>1, <2>2, MessagesTyped
<1> QED BY <1>3, <1>4

LEMMA AnnounceKeeps == ASSUME TypeInv, NEW o \in Mutators, Announce(o) PROVE TypeInv'
<1> DEFINE w == changes[o]
<1>1. w \in Change /\ Remembers(w) /\ w.kind # "none" /\ w.step = "announce"
  BY DEF TypeInv, ChangesTyped, Announce, Doing, RowChanges
<1>2. Announcement(w) \in Sent BY <1>1, AnnouncementTyped
<1>3. VersionsTyped' /\ StreamsTyped' /\ PagesShow' BY <1>2, BroadcastTyped DEF Announce
<1>4. ChangesTyped' BY ChangeMoves DEF Announce, TypeInv
<1>5. BudgetTyped'
  <2>1. "slow" \in RealtimeKinds BY DEF RealtimeKinds
  <2>2. Allowed("slow") \/ realtimeBudget' = realtimeBudget BY DEF Announce, ReadsInOrder
  <2> QED BY <2>1, <2>2, SpendingKeeps, RestTyped DEF Announce, TypeInv
<1> QED BY <1>3, <1>4, <1>5, RestTyped DEF Announce, TypeInv

LEMMA RestartKeeps == ASSUME TypeInv, RestartBackend PROVE TypeInv'
<1>1. SoundTyped' /\ VersionsTyped'
  BY DEF RestartBackend, Silence, SoundTyped, VersionsTyped, SceneOrNothing
<1>2. NoChange \in Change /\ Remembers(NoChange)
  BY DEF NoChange, Change, ChangeKinds, RowChanges, ChangeSteps, SceneOrNothing, RowOrNothing, Remembers
<1>3. ChangesTyped' BY <1>2 DEF RestartBackend, ChangesTyped
<1>4. Down \in Stream /\ Down.phase = "down" BY DEF Down, Stream, RowOrNothing
<1>5. streams' = [c \in Clients |-> Down] BY DEF RestartBackend
<1>6. StreamsTyped' /\ PagesShow'
  BY <1>4, <1>5 DEF StreamsTyped, Opening, PagesShow, SnapshotFirst
<1>7. BudgetTyped'
  <2>1. "restart" \in RealtimeKinds BY DEF RealtimeKinds
  <2> QED BY <2>1, SpendingKeeps DEF RestartBackend, TypeInv
<1> QED BY <1>1, <1>3, <1>6, <1>7 DEF RestartBackend, TypeInv, RowsTyped, PagesTyped

\* A stream that changes in one client.
LEMMA StreamMoves ==
    ASSUME TypeInv, NEW c \in Clients, NEW s \in Stream, streams' = [streams EXCEPT ![c] = s],
           s.phase = "opening" => s.read \in ProgramRow,
           s.phase = "open" =>
               \/ views[c].row \in ProgramRow
               \/ s.queue # <<>> /\ s.queue[1].kind = "snapshot" /\ s.queue[1].version \in Nat,
           views' = views
    PROVE  StreamsTyped' /\ PagesShow'
<1>1. \A d \in Clients : streams'[d] = IF d = c THEN s ELSE streams[d] BY DEF TypeInv, StreamsTyped
<1>2. streams' \in [Clients -> Stream] BY DEF TypeInv, StreamsTyped
<1>3. ASSUME NEW d \in Clients PROVE Opening(d)' /\ SnapshotFirst(d)'
  <2>1. Opening(d) /\ SnapshotFirst(d) BY DEF TypeInv, StreamsTyped, PagesShow
  <2>2. CASE d = c BY <2>2, <1>1 DEF Opening, SnapshotFirst
  <2>3. CASE d # c BY <2>1, <2>3, <1>1 DEF Opening, SnapshotFirst
  <2> QED BY <2>2, <2>3
<1> QED BY <1>2, <1>3 DEF StreamsTyped, PagesShow

LEMMA ConnectKeeps == ASSUME TypeInv, NEW c \in Clients, Connect(c) PROVE TypeInv'
<1> DEFINE s == [phase |-> "opening", read |-> program, queue |-> <<>>]
<1>1. s \in Stream /\ s.phase = "opening" /\ s.read \in ProgramRow
  BY DEF TypeInv, RowsTyped, Stream, RowOrNothing
<1>2. streams' = [streams EXCEPT ![c] = s] /\ views' = views BY DEF Connect
<1> HIDE DEF s
<1>3. StreamsTyped' /\ PagesShow' BY <1>1, <1>2, StreamMoves
<1>4. BudgetTyped'
  <2>1. {"console", "renderer"} \subseteq RealtimeKinds BY DEF RealtimeKinds
  <2> QED BY <2>1, SpendingKeeps DEF Connect, TypeInv
<1> QED BY <1>3, <1>4, RestTyped DEF Connect, TypeInv

LEMMA DropStreamKeeps == ASSUME TypeInv, NEW c \in Clients, DropStream(c) PROVE TypeInv'
<1>1. Down \in Stream /\ Down.phase = "down" BY DEF Down, Stream, RowOrNothing
<1>2. StreamsTyped' /\ PagesShow' BY <1>1, StreamMoves DEF DropStream
<1>3. BudgetTyped'
  <2>1. "drop" \in RealtimeKinds BY DEF RealtimeKinds
  <2> QED BY <2>1, SpendingKeeps DEF DropStream, TypeInv
<1> QED BY <1>2, <1>3, RestTyped DEF DropStream, TypeInv

\* The snapshot a stream or a poll carries.
LEMMA SnapshotTyped ==
    ASSUME NEW row \in ProgramRow, NEW n \in Int
    PROVE  [Message("snapshot") EXCEPT !.row = row, !.version = n] \in Sent
BY DEF Message, Sent, Payload, PayloadKinds, RowOrNothing, SceneOrNothing

LEMMA SendSnapshotKeeps == ASSUME TypeInv, NEW c \in Clients, SendSnapshot(c) PROVE TypeInv'
<1> DEFINE row == streams[c].read
           n == versions.state
           m == [Message("snapshot") EXCEPT !.row = row, !.version = n]
           old == streams[c].queue
           q == <<m>> \o old
           s == [phase |-> "open", read |-> Nothing, queue |-> q]
<1>1. row \in ProgramRow /\ old \in Seq(Sent) /\ n \in Nat /\ n \in Int
  BY DEF TypeInv, StreamsTyped, Stream, Opening, SendSnapshot, VersionsTyped
<1>4. streams' = [streams EXCEPT ![c] = s] /\ views' = views BY DEF SendSnapshot
<1> HIDE DEF row, n, old
<1>2. m \in Sent BY <1>1, SnapshotTyped
<1>3. m.kind = "snapshot" /\ m.version \in Nat BY <1>1 DEF Message
<1> HIDE DEF m
<1>5. q \in Seq(Sent) /\ q # <<>> /\ q[1] = m BY <1>1, <1>2, PrefixKeeps
<1> HIDE DEF q
<1>6. s \in Stream /\ s.phase = "open" /\ s.queue = q BY <1>5 DEF Stream, RowOrNothing
<1> HIDE DEF s
<1>7. StreamsTyped' /\ PagesShow' BY <1>3, <1>4, <1>5, <1>6, StreamMoves
<1> QED BY <1>7, RestTyped DEF SendSnapshot, TypeInv

\* What a page shows after a payload.
LEMMA ShowsTyped ==
    ASSUME TypeInv, NEW c \in Clients, NEW m \in Sent, NEW v \in Shows(c, m),
           \/ views[c].row \in ProgramRow
           \/ m.kind = "snapshot" /\ m.version \in Nat
           \/ m.kind \in {"snapshot", "instant"} /\ c \in Renderers
    PROVE  /\ v \in View
           /\ views[c].row \in ProgramRow => v.row \in ProgramRow
           /\ m.kind = "snapshot" /\ m.version \in Nat => v.row \in ProgramRow
<1> DEFINE u == views[c]
           w == Marked(u, m)
<1>1. u \in View BY DEF TypeInv, PagesTyped
<1>2. /\ m.version \in Int /\ m.sound \in SceneOrNothing /\ m.staged \in SceneOrNothing
      /\ m.row \in RowOrNothing /\ m.kind \in PayloadKinds
      /\ m.kind \notin {"staged", "instant"} => m.row \in ProgramRow
  BY DEF Sent, Payload
<1>3. /\ u.row \in RowOrNothing /\ u.seen \in Int /\ u.sound \in SceneOrNothing /\ u.heard \in Int
      /\ u.cut \in RowOrNothing /\ (u.seen >= 0 => u.row \in ProgramRow)
  BY <1>1 DEF View
<1>4. CASE ~Fresh(u, m)
  <2>1. v = u BY <1>4 DEF Shows
  <2>2. m.kind = "snapshot" /\ m.version \in Nat => u.seen >= 0 BY <1>2, <1>3, <1>4 DEF Fresh
  <2> QED BY <2>1, <2>2, <1>1, <1>3
<1>5. CASE Fresh(u, m)
  <2>1. /\ w \in [row : RowOrNothing, seen : Int, sound : SceneOrNothing, heard : Int, cut : RowOrNothing]
        /\ w.row = u.row /\ w.cut = u.cut
        /\ m.kind = "instant" => w.seen = u.seen
    BY <1>1, <1>2 DEF Marked, View
  <2> HIDE DEF w
  <2>2. ConsoleShows(w, m) \in View /\ (u.row \in ProgramRow => ConsoleShows(w, m).row \in ProgramRow)
        /\ (m.kind = "snapshot" => ConsoleShows(w, m).row \in ProgramRow)
    <3>1. CASE m.kind = "staged"
      <4>1. u.row \in ProgramRow BY <3>1
      <4>2. w.row # Nothing BY <4>1, <2>1, NothingAssumption
      <4>3. ConsoleShows(w, m) = [w EXCEPT !.row.staged = m.staged] BY <3>1, <4>2 DEF ConsoleShows
      <4>4. [w.row EXCEPT !.staged = m.staged] \in ProgramRow BY <4>1, <2>1, <1>2, SceneRowEdits
      <4> QED BY <3>1, <4>3, <4>4, <2>1 DEF View, RowOrNothing
    <3>2. CASE m.kind = "instant"
      <4>1. ConsoleShows(w, m) = [w EXCEPT !.sound = m.sound] BY <3>2 DEF ConsoleShows
      <4> QED BY <3>2, <4>1, <2>1, <1>2, <1>3 DEF View
    <3>3. CASE m.kind \notin {"staged", "instant"}
      <4>1. ConsoleShows(w, m) = [w EXCEPT !.row = m.row] BY <3>3 DEF ConsoleShows
      <4> QED BY <3>3, <4>1, <2>1, <1>2 DEF View, RowOrNothing
    <3> QED BY <3>1, <3>2, <3>3
  <2>3. CASE c \in ControlPages
    <3>1. v = ConsoleShows(w, m) BY <1>5, <2>3 DEF Shows, w
    <3> QED BY <3>1, <2>2
  <2>4. CASE c \notin ControlPages
    <3>1. v \in RendererShows(w, m) BY <1>5, <2>4 DEF Shows, w
    <3>2. CASE m.kind = "scenes"
      <4>1. v = w BY <3>1, <3>2 DEF RendererShows
      <4>2. u.row \in ProgramRow BY <3>2
      <4> QED BY <3>2, <4>1, <4>2, <2>1 DEF View
    <3>3. CASE m.kind = "change"
      <4>1. u.row \in ProgramRow BY <3>3
      <4>2. v = [w EXCEPT !.row = m.row, !.cut = Nothing] \/ v = [w EXCEPT !.cut = m.row]
        BY <3>1, <3>3 DEF RendererShows
      <4>3. CASE v = [w EXCEPT !.row = m.row, !.cut = Nothing]
        BY <3>3, <4>3, <2>1, <1>2 DEF View, RowOrNothing
      <4>4. CASE v = [w EXCEPT !.cut = m.row]
        BY <3>3, <4>1, <4>4, <2>1, <1>2 DEF View
      <4> QED BY <4>2, <4>3, <4>4
    <3>4. CASE m.kind \notin {"scenes", "change"}
      <4>1. v = ConsoleShows(w, m) BY <3>1, <3>4 DEF RendererShows
      <4> QED BY <4>1, <2>2
    <3> QED BY <3>2, <3>3, <3>4
  <2> QED BY <2>3, <2>4
<1> QED BY <1>4, <1>5

\* A view that changes in one client and loses no row.
LEMMA ViewMoves ==
    ASSUME TypeInv, NEW c \in Clients, NEW v \in View, views' = [views EXCEPT ![c] = v],
           views[c].row \in ProgramRow => v.row \in ProgramRow
    PROVE  /\ polls' \subseteq polls => PagesTyped'
           /\ streams' = streams => StreamsTyped' /\ PagesShow'
           /\ \A d \in Clients : d # c => views'[d] = views[d]
           /\ views'[c] = v
<1>1. \A d \in Clients : views'[d] = IF d = c THEN v ELSE views[d] BY DEF TypeInv, PagesTyped
<1>2. views' \in [Clients -> View] BY DEF TypeInv, PagesTyped
<1>3. polls' \subseteq polls => PagesTyped' BY <1>2 DEF TypeInv, PagesTyped
<1>4. ASSUME streams' = streams PROVE StreamsTyped' /\ PagesShow'
  <2>1. StreamsTyped' BY <1>4 DEF TypeInv, StreamsTyped, Opening
  <2>2. ASSUME NEW d \in Clients PROVE SnapshotFirst(d)'
    <3>1. SnapshotFirst(d) BY DEF TypeInv, PagesShow
    <3> QED BY <3>1, <1>1, <1>4 DEF SnapshotFirst
  <2> QED BY <2>1, <2>2 DEF PagesShow
<1> QED BY <1>1, <1>3, <1>4

LEMMA DeliverEventKeeps == ASSUME TypeInv, NEW c \in Clients, DeliverEvent(c) PROVE TypeInv'
<1> DEFINE q == streams[c].queue
           m == Head(q)
           t == Tail(q)
           s == [streams[c] EXCEPT !.queue = t]
<1>1. PICK v \in Shows(c, m) : views' = [views EXCEPT ![c] = v] BY DEF DeliverEvent
<1>2. streams[c] \in Stream /\ q \in Seq(Sent) /\ q # <<>> /\ SnapshotFirst(c) /\ streams[c].phase = "open"
  BY DEF TypeInv, StreamsTyped, Stream, PagesShow, DeliverEvent
<1>3. streams' = [streams EXCEPT ![c] = s] BY DEF DeliverEvent
<1>a. views[c].row \in ProgramRow \/ (q[1].kind = "snapshot" /\ q[1].version \in Nat)
  BY <1>2 DEF SnapshotFirst
<1> HIDE DEF q
<1>4. t \in Seq(Sent) /\ m \in Sent /\ m = q[1] BY <1>2, TailKeeps
<1>5. views[c].row \in ProgramRow \/ (m.kind = "snapshot" /\ m.version \in Nat)
  BY <1>a, <1>4
<1> HIDE DEF m, t
<1>6. v \in View /\ v.row \in ProgramRow BY <1>1, <1>4, <1>5, ShowsTyped
<1>7. s \in Stream /\ s.phase = "open" BY <1>2, <1>4 DEF Stream
<1> HIDE DEF s
<1>8. PagesTyped' /\ views'[c] = v /\ \A d \in Clients : d # c => views'[d] = views[d]
  BY <1>1, <1>6, ViewMoves DEF DeliverEvent
<1>9. \A d \in Clients : streams'[d] = IF d = c THEN s ELSE streams[d] BY <1>3 DEF TypeInv, StreamsTyped
<1>10. StreamsTyped' BY <1>3, <1>7, <1>9 DEF TypeInv, StreamsTyped, Opening
<1>11. ASSUME NEW d \in Clients PROVE SnapshotFirst(d)'
  <2>1. SnapshotFirst(d) BY DEF TypeInv, PagesShow
  <2> QED BY <2>1, <1>6, <1>8, <1>9 DEF SnapshotFirst
<1>12. UNCHANGED <<program, background, versions, changes, polls, realtimeBudget>> BY DEF DeliverEvent
<1> QED BY <1>8, <1>10, <1>11, <1>12 DEF TypeInv, PagesShow, RowsTyped, SoundTyped, VersionsTyped,
           ChangesTyped, BudgetTyped

\* What the types ask of the rest while a page shows something.
LEMMA PageStepTyped ==
    ASSUME TypeInv, UNCHANGED <<program, background, versions, changes, streams, realtimeBudget>>,
           PagesTyped', PagesShow', StreamsTyped'
    PROVE  TypeInv'
BY DEF TypeInv, RowsTyped, SoundTyped, VersionsTyped, ChangesTyped, BudgetTyped

LEMMA DeliverPollKeeps == ASSUME TypeInv, NEW p \in polls, DeliverPoll(p) PROVE TypeInv'
<1>1. p \in Poll /\ p.from \in Renderers /\ p.payload \in Sent /\ p.payload.kind \in {"snapshot", "instant"}
  BY DEF TypeInv, PagesTyped, Poll
<1>2. p.from \in Clients BY <1>1, RenderersAreClients
<1>3. PICK v \in Shows(p.from, p.payload) : views' = [views EXCEPT ![p.from] = v] BY DEF DeliverPoll
<1>4. v \in View /\ (views[p.from].row \in ProgramRow => v.row \in ProgramRow)
  BY <1>1, <1>2, <1>3, ShowsTyped
<1>5. UNCHANGED <<program, background, versions, changes, streams, realtimeBudget>> /\ polls' \subseteq polls
  BY DEF DeliverPoll
<1>6. PagesTyped' /\ StreamsTyped' /\ PagesShow' BY <1>2, <1>3, <1>4, <1>5, ViewMoves
<1> QED BY <1>5, <1>6, PageStepTyped

LEMMA MakeCutKeeps == ASSUME TypeInv, NEW c \in Renderers, MakeCut(c) PROVE TypeInv'
<1> DEFINE v == [views[c] EXCEPT !.row = views[c].cut, !.cut = Nothing]
<1>1. c \in Clients BY RenderersAreClients
<1>2. views[c] \in View /\ views[c].cut \in ProgramRow
  BY <1>1 DEF TypeInv, PagesTyped, View, MakeCut, RowOrNothing
<1>3. v \in View /\ v.row \in ProgramRow BY <1>2 DEF View, RowOrNothing
<1>4. views' = [views EXCEPT ![c] = v] BY DEF MakeCut
<1> HIDE DEF v
<1>5. UNCHANGED <<program, background, versions, changes, streams, realtimeBudget>> /\ polls' \subseteq polls
  BY DEF MakeCut
<1>6. PagesTyped' /\ StreamsTyped' /\ PagesShow' BY <1>1, <1>3, <1>4, <1>5, ViewMoves
<1> QED BY <1>5, <1>6, PageStepTyped

\* The polls of a renderer keep the types.
LEMMA PollsKeep ==
    ASSUME TypeInv, NEW c \in Renderers, PollState(c) \/ PollInstant(c)
    PROVE  TypeInv'
<1>1. UNCHANGED <<program, background, versions, changes, streams, views>> /\ Allowed("poll")
  BY DEF PollState, PollInstant
<1>2. BudgetTyped'
  <2>1. "poll" \in RealtimeKinds BY DEF RealtimeKinds
  <2> QED BY <2>1, <1>1, SpendingKeeps DEF TypeInv
<1>3. polls' \subseteq Poll
  <2>1. CASE PollState(c)
    <3> DEFINE m == [Message("snapshot") EXCEPT !.row = program]
               p == [from |-> c, step |-> "read", payload |-> m]
    <3>1. m \in Sent /\ m.kind = "snapshot"
      <4>1. program \in ProgramRow /\ "snapshot" \in PayloadKinds BY DEF TypeInv, RowsTyped, PayloadKinds
      <4> QED BY <4>1, MessagesTyped DEF Message
    <3>2. polls' = polls \cup {p} BY <2>1 DEF PollState
    <3> HIDE DEF m
    <3>3. p \in Poll BY <3>1 DEF Poll
    <3> QED BY <3>2, <3>3 DEF TypeInv, PagesTyped
  <2>2. CASE PollInstant(c)
    <3> DEFINE sound == IF background.playing THEN background.scene ELSE Nothing
               m == [Message("instant") EXCEPT !.sound = sound, !.version = versions.instant]
               p == [from |-> c, step |-> "answer", payload |-> m]
    <3>1. sound \in SceneOrNothing BY DEF TypeInv, SoundTyped, SceneOrNothing
    <3>2. versions.instant \in Int BY DEF TypeInv, VersionsTyped
    <3>3. polls' = polls \cup {p} BY <2>2 DEF PollInstant
    <3> HIDE DEF sound
    <3>4. m \in Sent /\ m.kind = "instant"
      <4> DEFINE b == [Message("instant") EXCEPT !.sound = sound]
      <4>1. "instant" \in PayloadKinds BY DEF PayloadKinds
      <4>2. b \in Sent BY <3>1, <4>1, MessagesTyped
      <4>3. m = [b EXCEPT !.version = versions.instant] /\ b.kind = "instant" BY DEF Message
      <4>4. m \in Sent BY <3>2, <4>2, <4>3, StampTyped
      <4> QED BY <4>4 DEF Message
    <3> HIDE DEF m
    <3>5. p \in Poll BY <3>4 DEF Poll
    <3> QED BY <3>3, <3>5 DEF TypeInv, PagesTyped
  <2> QED BY <2>1, <2>2
<1>4. PagesTyped' BY <1>1, <1>3 DEF TypeInv, PagesTyped
<1> QED BY <1>1, <1>2, <1>4 DEF TypeInv, RowsTyped, SoundTyped, VersionsTyped, ChangesTyped,
           StreamsTyped, Opening, PagesShow, SnapshotFirst

LEMMA PollAnsweredKeeps == ASSUME TypeInv, NEW p \in polls, PollAnswered(p) PROVE TypeInv'
<1> DEFINE m == [p.payload EXCEPT !.version = versions.state]
           a == [p EXCEPT !.step = "answer", !.payload = m]
<1>1. p \in Poll /\ p.payload \in Sent /\ p.payload.kind \in {"snapshot", "instant"} /\ versions.state \in Int
  BY DEF TypeInv, PagesTyped, Poll, VersionsTyped
<1>2. m \in Sent BY <1>1, StampTyped
<1>3. m.kind = p.payload.kind BY <1>1 DEF Sent, Payload
<1>4. polls' = (polls \ {p}) \cup {a} BY DEF PollAnswered
<1> HIDE DEF m
<1>5. a \in Poll BY <1>1, <1>2, <1>3 DEF Poll
<1>6. PagesTyped' BY <1>4, <1>5 DEF TypeInv, PagesTyped, PollAnswered
<1>7. UNCHANGED <<program, background, versions, changes, streams, views, realtimeBudget>> BY DEF PollAnswered
<1>8. StreamsTyped' /\ PagesShow' BY <1>7 DEF TypeInv, StreamsTyped, Opening, PagesShow, SnapshotFirst
<1> QED BY <1>6, <1>7, <1>8, PageStepTyped

\* A step keeps the types.
LEMMA NextKeepsTypes == TypeInv /\ [RealtimeNext]_realtimeVars => TypeInv'
<1> SUFFICES ASSUME TypeInv, [RealtimeNext]_realtimeVars PROVE TypeInv' OBVIOUS
<1>1. ASSUME NEW o \in Mutators, MutatorStep(o) PROVE TypeInv'
  BY <1>1, RequestsKeep, WriteRowKeeps, ClearReferencesKeeps, ReadForBroadcastKeeps, DecideKeeps,
     HushKeeps, FadeElapsesKeeps, FindBackgroundKeeps, StartBackgroundKeeps, BackgroundFailsKeeps, AnnounceKeeps
     DEF MutatorStep
<1>2. ASSUME NEW c \in Clients, Connect(c) \/ SendSnapshot(c) \/ DropStream(c) \/ DeliverEvent(c)
      PROVE  TypeInv'
  BY <1>2, ConnectKeeps, SendSnapshotKeeps, DropStreamKeeps, DeliverEventKeeps
<1>3. ASSUME NEW c \in Renderers, PollState(c) \/ PollInstant(c) \/ MakeCut(c) PROVE TypeInv'
  BY <1>3, PollsKeep, MakeCutKeeps
<1>4. ASSUME NEW p \in polls, PollAnswered(p) \/ DeliverPoll(p) PROVE TypeInv'
  BY <1>4, PollAnsweredKeeps, DeliverPollKeeps
<1>5. CASE UNCHANGED realtimeVars
  BY <1>5, RestTyped DEF realtimeVars, TypeInv
<1> QED BY <1>1, <1>2, <1>3, <1>4, <1>5, RestartKeeps DEF RealtimeNext

\* The types hold in every reachable state.
THEOREM RealtimeTyped == RealtimeSpec => []TypeInv
BY InitIsTyped, NextKeepsTypes, PTL DEF RealtimeSpec

\* Every variable of the realtime delivery keeps its type: whatever is broadcast while a
\* snapshot is read, a page that has seen a version shows a row.
THEOREM RealtimeTypeCorrect == RealtimeSpec => []RealtimeTypeOK
<1>1. TypeInv => RealtimeTypeOK
  <2> SUFFICES ASSUME TypeInv PROVE RealtimeTypeOK OBVIOUS
  <2>1. ASSUME NEW c \in Clients
        PROVE  /\ streams[c].phase \in {"down", "opening", "open"}
               /\ streams[c].read \in RowOrNothing
               /\ \A n \in DOMAIN streams[c].queue : streams[c].queue[n] \in Payload
               /\ views[c].seen >= 0 => views[c].row # Nothing
               /\ views[c] \in [row : RowOrNothing, seen : Int, sound : SceneOrNothing, heard : Int,
                                cut : RowOrNothing]
    <3>1. streams[c] \in Stream /\ streams[c].queue \in Seq(Sent) BY DEF TypeInv, StreamsTyped, Stream
    <3>2. \A n \in DOMAIN streams[c].queue : streams[c].queue[n] \in Payload BY <3>1 DEF Sent
    <3>3. views[c] \in View BY DEF TypeInv, PagesTyped
    <3>4. views[c].seen >= 0 => views[c].row # Nothing BY <3>3, NothingAssumption DEF View
    <3> QED BY <3>1, <3>2, <3>3, <3>4 DEF Stream, View
  <2>2. \A p \in polls : p.from \in Renderers /\ p.payload \in Payload
    BY DEF TypeInv, PagesTyped, Poll, Sent
  <2> QED BY <2>1, <2>2 DEF TypeInv, RealtimeTypeOK, RowsTyped, SoundTyped, VersionsTyped, ChangesTyped,
             Change, BudgetTyped
<1> QED BY <1>1, RealtimeTyped, PTL

----------------------------------------------------------------------------
(* The background audio of the scene on air. *)

\* One operator's change under way: where a background that no operator started may play under
\* another scene than the one on air, what has become of the one it found, and what the change
\* still knows of the row.
Handles(w) ==
    /\ w.kind = "take" /\ w.step # "write" => program.active = w.scene
    /\ w.kind = "remove" /\ w.step \in {"write", "decide", "hush", "clear"} => w.before.active = program.active
    /\ w.kind = "remove" /\ w.step \in {"clear", "read", "announce"} /\ background.playing
        => background.scene # w.scene
    /\ w.kind \in {"take", "offair"} /\ w.step \in {"wait", "find", "start", "announce"} /\ background.playing
        => background.scene = w.scene
    /\ \/ ~background.playing
       \/ background.scene = program.active
       \/ background.byHand
       \/ w.kind \in {"take", "offair"} /\ w.step \in {"read", "decide", "hush"}

BackgroundInv ==
    /\ \A o \in Mutators : Handles(changes[o])
    /\ Mutators = {} => ~background.playing

\* Operators who take turns.
OneMutator == \A o, p \in Mutators : o = p

\* What the handlers do to the change they serve.
LEMMA OwnChange ==
    ASSUME TypeInv, NEW o \in Mutators
    PROVE  /\ \A step : ChangeGoes(o, step) => changes'[o] = [changes[o] EXCEPT !.step = step]
           /\ ChangeEnds(o) => changes'[o] = NoChange
           /\ \A w : Start(o, w) => changes'[o] = [w EXCEPT !.before = program]
           /\ changes[o] \in Change /\ program \in ProgramRow
BY DEF TypeInv, ChangesTyped, RowsTyped, ChangeGoes, ChangeEnds, Start

\* A change that begins finds the background under the scene on air.
LEMMA StartsFollow ==
    ASSUME NEW o \in Mutators, Handles(changes[o]), Free(o), UNCHANGED <<program, background>>,
           changes'[o].before = program,
           changes'[o].step = "write" \/ changes'[o].kind \in {"fade", "add", "play", "stop"}
    PROVE  Handles(changes[o])'
BY DEF Handles, Free

\* The operator's requests.
LEMMA RequestsFollow ==
    ASSUME TypeInv, NEW o \in Mutators, Handles(changes[o]),
           \/ \E s \in Scenes : ActivateScene(o, s) \/ AddScene(o, s) \/ RemoveScene(o, s)
           \/ \E s \in SceneOrNothing : StageScene(o, s)
           \/ \E b \in BOOLEAN : SetFadeToBlack(o, b)
           \/ \E s \in Scenes : TakeSceneInstant(o, s)
           \/ TakeProgramOffAir(o) \/ StopSceneInstant(o)
    PROVE  Handles(changes[o])'
<1> USE DEF ChangeKinds, RowChanges, ChangeSteps, SceneOrNothing, RowOrNothing
<1>1. ASSUME NEW w \in Change, Start(o, w), w.step = "write" \/ w.kind \in {"fade", "add", "play", "stop"}
      PROVE  Handles(changes[o])'
  <2>1. changes'[o] = [w EXCEPT !.before = program] BY <1>1, OwnChange
  <2>2. changes'[o].before = program /\ changes'[o].step = w.step /\ changes'[o].kind = w.kind
    BY <2>1 DEF Change
  <2> QED BY <1>1, <2>2, StartsFollow DEF Start
<1>2. ASSUME NEW s \in Scenes, ActivateScene(o, s) PROVE Handles(changes[o])'
  <2> DEFINE w == [NoChange EXCEPT !.kind = "take", !.scene = s]
  <2>1. w \in Change /\ (w.step = "write" \/ w.kind \in {"fade", "add", "play", "stop"}) BY DEF NoChange, Change
  <2>2. Start(o, w) BY <1>2 DEF ActivateScene
  <2> HIDE DEF w
  <2> QED BY <1>1, <2>1, <2>2
<1>3. ASSUME NEW s \in Scenes, AddScene(o, s) PROVE Handles(changes[o])'
  <2> DEFINE w == [NoChange EXCEPT !.kind = "add", !.scene = s,
                                   !.step = IF s \in program.scenes THEN "read" ELSE "write"]
  <2>1. w \in Change /\ (w.step = "write" \/ w.kind \in {"fade", "add", "play", "stop"}) BY DEF NoChange, Change
  <2>2. Start(o, w) BY <1>3 DEF AddScene
  <2> HIDE DEF w
  <2> QED BY <1>1, <2>1, <2>2
<1>4. ASSUME NEW s \in Scenes, RemoveScene(o, s) PROVE Handles(changes[o])'
  <2> DEFINE w == [NoChange EXCEPT !.kind = "remove", !.scene = s]
  <2>1. w \in Change /\ (w.step = "write" \/ w.kind \in {"fade", "add", "play", "stop"}) BY DEF NoChange, Change
  <2>2. Start(o, w) BY <1>4 DEF RemoveScene
  <2> HIDE DEF w
  <2> QED BY <1>1, <2>1, <2>2
<1>5. ASSUME NEW s \in SceneOrNothing, StageScene(o, s) PROVE Handles(changes[o])'
  <2> DEFINE w == [NoChange EXCEPT !.kind = "stage", !.scene = s]
  <2>1. w \in Change /\ (w.step = "write" \/ w.kind \in {"fade", "add", "play", "stop"}) BY DEF NoChange, Change
  <2>2. Start(o, w) BY <1>5 DEF StageScene
  <2> HIDE DEF w
  <2> QED BY <1>1, <2>1, <2>2
<1>6. ASSUME NEW b \in BOOLEAN, SetFadeToBlack(o, b) PROVE Handles(changes[o])'
  <2> DEFINE w == [NoChange EXCEPT !.kind = "fade", !.fade = b,
                                   !.step = IF program.fade = b THEN "read" ELSE "write"]
  <2>1. w \in Change /\ (w.step = "write" \/ w.kind \in {"fade", "add", "play", "stop"}) BY DEF NoChange, Change
  <2>2. Start(o, w) BY <1>6 DEF SetFadeToBlack
  <2> HIDE DEF w
  <2> QED BY <1>1, <2>1, <2>2
<1>7. ASSUME TakeProgramOffAir(o) PROVE Handles(changes[o])'
  <2> DEFINE w == [NoChange EXCEPT !.kind = "offair"]
  <2>1. w \in Change /\ (w.step = "write" \/ w.kind \in {"fade", "add", "play", "stop"}) BY DEF NoChange, Change
  <2>2. Start(o, w) BY <1>7 DEF TakeProgramOffAir
  <2> HIDE DEF w
  <2> QED BY <1>1, <2>1, <2>2
<1>8. ASSUME NEW s \in Scenes, TakeSceneInstant(o, s) PROVE Handles(changes[o])'
  <2> DEFINE w == [NoChange EXCEPT !.kind = "play", !.scene = s, !.step = "start"]
  <2>1. w \in Change /\ w.kind = "play" BY DEF NoChange, Change
  <2>2. Start(o, w) BY <1>8 DEF TakeSceneInstant
  <2> HIDE DEF w
  <2> QED BY <1>1, <2>1, <2>2
<1>9. ASSUME StopSceneInstant(o) PROVE Handles(changes[o])'
  <2> DEFINE w == [NoChange EXCEPT !.kind = "stop", !.step = "hush"]
  <2>1. w \in Change /\ w.kind = "stop" BY DEF NoChange, Change
  <2>2. Start(o, w) BY <1>9 DEF StopSceneInstant
  <2> HIDE DEF w
  <2> QED BY <1>1, <2>1, <2>2
<1> QED BY <1>2, <1>3, <1>4, <1>5, <1>6, <1>7, <1>8, <1>9

\* The change as it stands after a step of its handler.
LEMMA ChangeNow ==
    ASSUME TypeInv, NEW o \in Mutators, NEW step, ChangeGoes(o, step)
    PROVE  /\ changes'[o].step = step /\ changes'[o].kind = changes[o].kind
           /\ changes'[o].scene = changes[o].scene /\ changes'[o].before = changes[o].before
           /\ changes'[o].row = changes[o].row
<1>1. changes'[o] = [changes[o] EXCEPT !.step = step] /\ changes[o] \in Change BY OwnChange
<1> QED BY <1>1 DEF Change

\* The row it writes.
LEMMA WritesFollow ==
    ASSUME TypeInv, NEW o \in Mutators, Handles(changes[o]), WriteRow(o)
    PROVE  Handles(changes[o])'
<1> DEFINE w == changes[o]
<1>1. w \in Change /\ program \in ProgramRow /\ w.step = "write" /\ background' = background
  BY OwnChange DEF WriteRow, Doing
<1>2. w.kind \in {"take", "offair", "stage", "fade", "add", "remove"} BY DEF WriteRow, Doing, RowChanges
<1>3. PICK step : /\ ChangeGoes(o, step)
                  /\ w.kind = "stage" => step = "announce"
                  /\ w.kind = "remove" => step = "decide"
                  /\ w.kind \notin {"stage", "remove"} => step = "read"
  BY DEF WriteRow
<1>4. /\ w.kind = "take" => program'.active = w.scene
      /\ w.kind \notin {"take", "offair"} => program'.active = program.active
  <2>1. w.kind = "take" => program' = [program EXCEPT !.active = w.scene, !.staged = w.before.active]
    BY DEF WriteRow
  <2>2. w.kind = "stage" => program' = [program EXCEPT !.staged = w.scene] BY DEF WriteRow
  <2>3. w.kind = "fade" => program' = [program EXCEPT !.fade = w.fade] BY DEF WriteRow
  <2>4. w.kind = "add" => program' = [program EXCEPT !.scenes = @ \cup {w.scene}] BY DEF WriteRow
  <2>5. w.kind = "remove" => program' = [program EXCEPT !.scenes = @ \ {w.scene}] BY DEF WriteRow
  <2> QED BY <1>1, <1>2, <2>1, <2>2, <2>3, <2>4, <2>5 DEF ProgramRow
<1> QED BY <1>1, <1>2, <1>3, <1>4, ChangeNow DEF Handles

\* The rest of the operator's handlers.
LEMMA HandlersFollow ==
    ASSUME TypeInv, NEW o \in Mutators, Handles(changes[o]),
           \/ ClearReferences(o) \/ ReadForBroadcast(o) \/ Decide(o) \/ Hush(o)
           \/ FadeElapses(o) \/ FindBackground(o) \/ StartBackground(o) \/ BackgroundFails(o) \/ Announce(o)
    PROVE  Handles(changes[o])'
<1> DEFINE w == changes[o]
<1>1. w \in Change /\ program \in ProgramRow BY OwnChange
<1>2. CASE ClearReferences(o)
  <2>1. ChangeGoes(o, "read") /\ w.kind = "remove" /\ w.step = "clear" /\ background' = background
    BY <1>2 DEF ClearReferences, Doing
  <2>2. program'.active = IF w.before.active = w.scene THEN Nothing ELSE program.active
    BY <1>1, <1>2 DEF ClearReferences, ProgramRow
  <2> QED BY <2>1, <2>2, ChangeNow DEF Handles
<1>3. CASE ReadForBroadcast(o)
  <2> DEFINE step == IF w.kind \in {"take", "offair"} THEN "decide" ELSE "announce"
  <2>1. changes' = [changes EXCEPT ![o] = [w EXCEPT !.row = program, !.step = step]]
        /\ UNCHANGED <<program, background>> /\ w.step = "read"
    BY <1>3 DEF ReadForBroadcast, Doing
  <2> HIDE DEF step
  <2>2. changes'[o] = [w EXCEPT !.row = program, !.step = step] BY <2>1 DEF TypeInv, ChangesTyped
  <2>3. changes'[o].kind = w.kind /\ changes'[o].scene = w.scene /\ changes'[o].step = step
    BY <1>1, <2>2 DEF Change
  <2> QED BY <2>1, <2>3 DEF Handles, step
<1>4. CASE Decide(o)
  <2>1. w.kind \in {"take", "offair", "remove"} /\ w.step = "decide" /\ UNCHANGED <<program, background>>
    BY <1>4 DEF Decide, Decides, Doing
  <2>2. PICK step : /\ ChangeGoes(o, step)
                    /\ w.kind \in {"take", "offair"} => step \in {"hush", "find", "announce"}
                    /\ w.kind = "remove" => step \in {"hush", "clear", "read"}
                    /\ step # "hush" /\ background.playing
                         => \/ w.kind = "take" /\ background.scene = w.scene
                            \/ w.kind = "remove" /\ background.scene # w.scene
    BY <1>4, <2>1, OnwardSteps DEF Decide, Decides
  <2> QED BY <2>1, <2>2, ChangeNow DEF Handles
<1>5. CASE Hush(o)
  <2>1. w.kind \in {"take", "offair", "remove", "stop"} /\ w.step = "hush" /\ program' = program
    BY <1>5 DEF Hush, Doing
  <2>2. background' = [scene |-> background.scene, playing |-> FALSE, byHand |-> FALSE]
    BY <1>5 DEF Hush, Background
  <2>3. ~background'.playing BY <2>2
  <2>4. CASE w.kind = "stop"
    <3>1. changes'[o] = NoChange BY <1>5, <2>4, OwnChange DEF Hush
    <3> QED BY <2>3, <3>1 DEF Handles, NoChange
  <2>5. CASE w.kind # "stop"
    <3>1. PICK step : /\ ChangeGoes(o, step)
                      /\ w.kind \in {"take", "offair"} => step \in {"wait", "announce"}
                      /\ w.kind = "remove" => step \in {"clear", "read"}
      BY <1>5, <2>1, <2>5, OnwardSteps DEF Hush
    <3> QED BY <2>1, <2>3, <2>5, <3>1, ChangeNow DEF Handles
  <2> QED BY <2>4, <2>5
<1>6. CASE FadeElapses(o) \/ FindBackground(o) \/ (BackgroundFails(o) /\ w.kind = "take")
  <2>1. PICK step \in {"find", "start", "announce"} : ChangeGoes(o, step)
    BY <1>6 DEF FadeElapses, FindBackground, BackgroundFails, AudioDone
  <2>2. w.kind = "take" /\ w.step \in {"wait", "find", "start"} /\ UNCHANGED <<program, background>>
    BY <1>6 DEF FadeElapses, FindBackground, BackgroundFails, Doing
  <2> QED BY <2>1, <2>2, ChangeNow DEF Handles
<1>7. CASE StartBackground(o) \/ (BackgroundFails(o) /\ w.kind = "play")
  <2>1. w.kind \in {"take", "play"} /\ w.step = "start" /\ program' = program
    BY <1>7 DEF StartBackground, BackgroundFails, Doing
  <2>2. \/ background' = background /\ w.kind = "play"
        \/ background' = [scene |-> w.scene, playing |-> TRUE, byHand |-> (w.kind = "play")]
    BY <1>7 DEF StartBackground, BackgroundFails, Background
  <2>3. CASE w.kind = "play"
    <3>1. changes'[o] = NoChange
      BY <1>7, <2>3, OwnChange DEF StartBackground, BackgroundFails, AudioDone
    <3>2. background' = background \/ background'.byHand
      <4> DEFINE h == w.kind = "play"
      <4>1. background' = background \/ background' = [scene |-> w.scene, playing |-> TRUE, byHand |-> h] BY <2>2
      <4>2. h \in BOOLEAN /\ h BY <2>3
      <4>3. \A b \in BOOLEAN : b => b = TRUE OBVIOUS
      <4> HIDE DEF h
      <4>4. h = TRUE BY <4>2, <4>3, Zenon
      <4>5. background' = background \/ background' = [scene |-> w.scene, playing |-> TRUE, byHand |-> TRUE]
        BY <4>1, <4>4, Zenon
      <4> QED BY <4>5
    <3> QED BY <2>1, <3>1, <3>2 DEF Handles, NoChange
  <2>4. CASE w.kind = "take"
    <3>1. ChangeGoes(o, "announce") BY <1>7, <2>4 DEF StartBackground, BackgroundFails, AudioDone
    <3>2. background'.scene = w.scene BY <2>2, <2>4
    <3> QED BY <2>1, <2>4, <3>1, <3>2, ChangeNow DEF Handles
  <2> QED BY <2>1, <2>3, <2>4
<1>8. CASE Announce(o)
  <2>1. changes'[o] = NoChange /\ w.step = "announce" /\ UNCHANGED <<program, background>>
    BY <1>8, OwnChange DEF Announce, Doing
  <2> QED BY <2>1 DEF Handles, NoChange
<1>9. BackgroundFails(o) => w.kind \in {"take", "play"} BY DEF BackgroundFails, Doing
<1> QED BY <1>2, <1>3, <1>4, <1>5, <1>6, <1>7, <1>8, <1>9

\* Only handlers and a restart touch the row and the background.
LEMMA BackgroundStep ==
    ASSUME OneMutator, TypeInv, BackgroundInv, [RealtimeNext]_realtimeVars
    PROVE  BackgroundInv'
<1>1. ASSUME NEW o \in Mutators, MutatorStep(o) PROVE BackgroundInv'
  <2>1. Handles(changes[o]) BY DEF BackgroundInv
  <2>2. Handles(changes[o])' BY <1>1, <2>1, RequestsFollow, WritesFollow, HandlersFollow DEF MutatorStep
  <2> QED BY <2>2 DEF BackgroundInv, OneMutator
<1>2. ASSUME UNCHANGED <<program, background, changes>> PROVE BackgroundInv'
  BY <1>2 DEF BackgroundInv, Handles
<1>3. ASSUME NEW c \in Clients, Connect(c) \/ SendSnapshot(c) \/ DropStream(c) \/ DeliverEvent(c)
      PROVE  BackgroundInv'
  BY <1>2, <1>3 DEF Connect, SendSnapshot, DropStream, DeliverEvent
<1>4. ASSUME NEW c \in Renderers, PollState(c) \/ PollInstant(c) \/ MakeCut(c) PROVE BackgroundInv'
  BY <1>2, <1>4 DEF PollState, PollInstant, MakeCut
<1>5. ASSUME NEW p \in polls, PollAnswered(p) \/ DeliverPoll(p) PROVE BackgroundInv'
  BY <1>2, <1>5 DEF PollAnswered, DeliverPoll
<1>6. CASE RestartBackend BY <1>6 DEF RestartBackend, BackgroundInv, Handles, NoChange, Silence
<1>7. CASE UNCHANGED realtimeVars BY <1>2, <1>7 DEF realtimeVars
<1> QED BY <1>1, <1>3, <1>4, <1>5, <1>6, <1>7 DEF RealtimeNext

\* When operators take turns, the background audio parts from the scene on air by their own
\* takes of it alone, and every change of scene, and every removal, is announced after it has
\* been seen to, although every handler is cut at its awaits, the fade of the old one takes
\* time, the new one may fail to start or its scene be removed, and the process may restart at
\* any point.
THEOREM BackgroundFollows == ASSUME OneMutator PROVE RealtimeSpec => []BackgroundFollowsScene
<1>1. RealtimeInit => BackgroundInv BY DEF RealtimeInit, BackgroundInv, Handles, NoChange, Silence
<1>2. TypeInv /\ BackgroundInv /\ [RealtimeNext]_realtimeVars => BackgroundInv' BY BackgroundStep
<1>3. RealtimeSpec => []BackgroundInv BY <1>1, <1>2, RealtimeTyped, PTL DEF RealtimeSpec
<1>4. BackgroundInv => BackgroundFollowsScene
  BY DEF BackgroundInv, BackgroundFollowsScene, Handles, NothingChanges, Free, Doing
<1> QED BY <1>3, <1>4, PTL

----------------------------------------------------------------------------
(* The watermark of the scene audio. *)

Sounding == IF background.playing THEN background.scene ELSE Nothing

\* A payload about the audio is a past one, or says what plays.
Tracks(m) ==
    m.kind = "instant" =>
        /\ m.version \in Nat /\ m.version <= versions.instant
        /\ m.version = versions.instant => m.sound = Sounding

Heard(v) == v.heard <= versions.instant /\ (v.heard = versions.instant => v.sound = Sounding)

AudioInv ==
    /\ \A c \in Clients : (\A m \in On(streams[c].queue) : Tracks(m)) /\ Heard(views[c])
    /\ \A p \in polls : Tracks(p.payload) /\ (p.step = "read" => p.payload.kind # "instant")

\* While the playback is not touched, payloads and pages keep saying what they said.
LEMMA SoundKeeps ==
    ASSUME UNCHANGED background, versions'.instant = versions.instant
    PROVE  /\ \A m : Tracks(m) => Tracks(m)'
           /\ \A v : Heard(v) => Heard(v)'
BY DEF Tracks, Heard, Sounding

\* An announcement about the state leaves the audio's version alone.
LEMMA StateBroadcasts ==
    ASSUME TypeInv, AudioInv, NEW m \in Sent, m.kind # "instant", Broadcast(m),
           UNCHANGED <<background, polls, views>>
    PROVE  AudioInv'
<1>1. versions'.instant = versions.instant
  <2>1. m.kind \in PayloadKinds BY DEF Sent, Payload
  <2>2. TopicOf(m.kind) \in {"none", "state"} BY <2>1 DEF TopicOf
  <2> QED BY <2>2 DEF TypeInv, VersionsTyped, Broadcast, Bumped
<1>2. Stamped(m).kind = m.kind BY StampsTyped DEF TypeInv
<1>3. \A c \in Clients : On(streams'[c].queue) \subseteq On(streams[c].queue) \cup {Stamped(m)}
  BY BroadcastTyped
<1>4. ASSUME NEW c \in Clients, NEW n \in On(streams'[c].queue) PROVE Tracks(n)'
  <2>1. n \in On(streams[c].queue) \/ n = Stamped(m) BY <1>3, <1>4
  <2>2. Tracks(n) BY <2>1, <1>2 DEF AudioInv, Tracks
  <2> QED BY <2>2, <1>1, SoundKeeps
<1>5. \A c \in Clients : Heard(views[c])' BY <1>1, SoundKeeps DEF AudioInv
<1>6. \A p \in polls' : Tracks(p.payload)' /\ (p.step = "read" => p.payload.kind # "instant")
  BY <1>1, SoundKeeps DEF AudioInv
<1> QED BY <1>4, <1>5, <1>6 DEF AudioInv

\* A playback that starts or stops: everything said before is past.
LEMMA SoundBroadcasts ==
    ASSUME TypeInv, AudioInv, NEW s \in SceneOrNothing, NEW b \in BOOLEAN, NEW h \in BOOLEAN,
           Background(s, b, h), UNCHANGED <<polls, views>>
    PROVE  AudioInv'
<1> DEFINE sound == IF b THEN s ELSE Nothing
           m == [Message("instant") EXCEPT !.sound = sound]
           v == versions.instant + 1
<1>1. sound \in SceneOrNothing /\ versions.instant \in Nat BY DEF SceneOrNothing, TypeInv, VersionsTyped
<1>2. Broadcast(m) /\ Sounding' = sound BY DEF Background, Sounding
<1>3. m.kind = "instant" /\ m.sound = sound BY DEF Message
<1>4. m \in Sent
  <2>1. "instant" \in PayloadKinds BY DEF PayloadKinds
  <2> QED BY <2>1, <1>1, MessagesTyped
<1> HIDE DEF sound, m
<1>5. TopicOf(m.kind) = "instant" BY <1>3 DEF TopicOf
<1>6. Bumped(m.kind) = [versions EXCEPT !.instant = v] BY <1>5 DEF Bumped
<1>7. versions' = Bumped(m.kind) /\ Bumped(m.kind).instant = v
  BY <1>2, <1>6 DEF Broadcast, TypeInv, VersionsTyped
<1>8. Stamped(m) = [m EXCEPT !.version = Bumped(m.kind)["instant"]] BY <1>5 DEF Stamped
<1>9. Stamped(m).version = v /\ Stamped(m).sound = sound
  BY <1>3, <1>4, <1>7, <1>8 DEF Sent, Payload
<1>10. v \in Nat /\ v > versions.instant /\ versions'.instant = v BY <1>1, <1>7
<1> HIDE DEF v
<1>11. ASSUME NEW c \in Clients, NEW n \in On(streams'[c].queue) PROVE Tracks(n)'
  <2>1. On(streams'[c].queue) \subseteq On(streams[c].queue) \cup {Stamped(m)} BY <1>2, <1>4, BroadcastTyped
  <2>2. CASE n \in On(streams[c].queue)
    <3>1. Tracks(n) BY <2>2 DEF AudioInv
    <3> QED BY <3>1, <1>1, <1>10 DEF Tracks
  <2>3. CASE n = Stamped(m) BY <2>3, <1>2, <1>9, <1>10 DEF Tracks
  <2> QED BY <2>1, <2>2, <2>3, <1>11
<1>12. ASSUME NEW c \in Clients PROVE Heard(views[c])'
  <2>1. views[c].heard \in Int /\ Heard(views[c]) BY DEF TypeInv, PagesTyped, View, AudioInv
  <2> QED BY <2>1, <1>1, <1>10 DEF Heard
<1>13. ASSUME NEW p \in polls' PROVE Tracks(p.payload)' /\ (p.step = "read" => p.payload.kind # "instant")
  <2>1. Tracks(p.payload) /\ (p.step = "read" => p.payload.kind # "instant") BY <1>13 DEF AudioInv
  <2> QED BY <2>1, <1>1, <1>10 DEF Tracks
<1> QED BY <1>11, <1>12, <1>13 DEF AudioInv

\* The steps that leave playback and announcements alone.
LEMMA QuietSteps ==
    ASSUME AudioInv, UNCHANGED <<background, versions>>,
           \A c \in Clients : (\A m \in On(streams'[c].queue) : Tracks(m)) /\ Heard(views'[c]),
           \A p \in polls' : Tracks(p.payload) /\ (p.step = "read" => p.payload.kind # "instant")
    PROVE  AudioInv'
BY SoundKeeps DEF AudioInv

\* The handlers of the operators.
LEMMA MutatorAudio ==
    ASSUME TypeInv, AudioInv, NEW o \in Mutators, MutatorStep(o)
    PROVE  AudioInv'
<1>1. CASE UNCHANGED <<background, versions, streams, polls, views>>
  BY <1>1, QuietSteps DEF AudioInv
<1>2. CASE Hush(o)
  <2> DEFINE b == FALSE
  <2>1. Background(background.scene, b, b) /\ UNCHANGED <<polls, views>> BY <1>2 DEF Hush
  <2>2. background.scene \in SceneOrNothing /\ b \in BOOLEAN BY DEF TypeInv, SoundTyped
  <2> HIDE DEF b
  <2> QED BY <2>1, <2>2, SoundBroadcasts
<1>3. CASE StartBackground(o)
  <2> DEFINE b == TRUE
             s == changes[o].scene
             h == changes[o].kind = "play"
  <2>1. Background(s, b, h) /\ UNCHANGED <<polls, views>> BY <1>3 DEF StartBackground
  <2>2. s \in SceneOrNothing /\ b \in BOOLEAN /\ h \in BOOLEAN BY DEF TypeInv, ChangesTyped, Change
  <2> HIDE DEF b, s, h
  <2> QED BY <2>1, <2>2, SoundBroadcasts
<1>4. CASE Announce(o)
  <2> DEFINE m == Announcement(changes[o])
  <2>1. changes[o] \in Change /\ Remembers(changes[o]) /\ changes[o].kind # "none" /\ changes[o].step = "announce"
    BY <1>4 DEF TypeInv, ChangesTyped, Announce, Doing, RowChanges
  <2>2. m \in Sent /\ m.kind # "instant" BY <2>1, AnnouncementTyped
  <2>3. Broadcast(m) /\ UNCHANGED <<background, polls, views>> BY <1>4 DEF Announce
  <2> HIDE DEF m
  <2> QED BY <2>2, <2>3, StateBroadcasts
<1>5. CASE \/ \E s \in Scenes : ActivateScene(o, s) \/ AddScene(o, s) \/ RemoveScene(o, s)
           \/ \E s \in SceneOrNothing : StageScene(o, s)
           \/ \E b \in BOOLEAN : SetFadeToBlack(o, b)
           \/ \E s \in Scenes : TakeSceneInstant(o, s)
           \/ TakeProgramOffAir(o) \/ StopSceneInstant(o)
  BY <1>1, <1>5 DEF ActivateScene, AddScene, RemoveScene, StageScene, SetFadeToBlack, TakeProgramOffAir,
               TakeSceneInstant, StopSceneInstant, Start
<1>6. CASE \/ WriteRow(o) \/ ClearReferences(o) \/ ReadForBroadcast(o) \/ Decide(o)
           \/ FadeElapses(o) \/ FindBackground(o) \/ BackgroundFails(o)
  BY <1>1, <1>6 DEF WriteRow, ClearReferences, ReadForBroadcast, Decide, Decides, FadeElapses, FindBackground,
           BackgroundFails
<1> QED BY <1>2, <1>3, <1>4, <1>5, <1>6 DEF MutatorStep

\* A page that shows a payload has heard what it says, and nothing newer.
LEMMA ShowsHeard ==
    ASSUME TypeInv, NEW c \in Clients, NEW m \in Sent, Tracks(m), Heard(views[c]), NEW v \in Shows(c, m)
    PROVE  Heard(v)
<1> DEFINE u == views[c]
           w == Marked(u, m)
<1>1. /\ u.heard \in Int /\ m.version \in Int /\ versions.instant \in Nat
      /\ u \in [row : RowOrNothing, seen : Int, sound : SceneOrNothing, heard : Int, cut : RowOrNothing]
  BY DEF TypeInv, PagesTyped, View, Sent, Payload, VersionsTyped
<1>2. CASE ~Fresh(u, m) BY <1>2 DEF Shows
<1>3. CASE Fresh(u, m) /\ m.kind = "instant"
  <2>1. m.version \in Nat /\ m.version <= versions.instant /\ (m.version = versions.instant => m.sound = Sounding)
    BY <1>3 DEF Tracks
  <2>2. w = [u EXCEPT !.heard = m.version] BY <1>3, <2>1 DEF Marked
  <2>3. v = [w EXCEPT !.sound = m.sound] BY <1>3 DEF Shows, ConsoleShows, RendererShows
  <2>4. v.heard = m.version /\ v.sound = m.sound BY <1>1, <2>2, <2>3
  <2> QED BY <2>1, <2>4 DEF Heard
<1>4. CASE Fresh(u, m) /\ m.kind # "instant"
  <2>1. w = u \/ w = [u EXCEPT !.seen = m.version] BY <1>4 DEF Marked
  <2>2. w.heard = u.heard /\ w.sound = u.sound
        /\ w \in [row : RowOrNothing, seen : Int, sound : SceneOrNothing, heard : Int, cut : RowOrNothing]
    BY <2>1, <1>1
  <2> HIDE DEF w
  <2>3. v \in {ConsoleShows(w, m)} \cup RendererShows(w, m) BY <1>4 DEF Shows, w
  <2>4. \/ v = w \/ v = [w EXCEPT !.row.staged = m.staged] \/ v = [w EXCEPT !.row = m.row]
        \/ v = [w EXCEPT !.row = m.row, !.cut = Nothing] \/ v = [w EXCEPT !.cut = m.row]
    BY <1>4, <2>3 DEF ConsoleShows, RendererShows
  <2>5. v.heard = u.heard /\ v.sound = u.sound BY <2>2, <2>4
  <2> QED BY <2>5 DEF Heard
<1> QED BY <1>2, <1>3, <1>4

\* What the pages and their connections do.
LEMMA ClientAudio ==
    ASSUME TypeInv, AudioInv, NEW c \in Clients,
           Connect(c) \/ SendSnapshot(c) \/ DropStream(c) \/ DeliverEvent(c)
    PROVE  AudioInv'
<1>1. UNCHANGED <<background, versions, polls>> BY DEF Connect, SendSnapshot, DropStream, DeliverEvent
<1>2. streams[c] \in Stream /\ streams[c].queue \in Seq(Sent) BY DEF TypeInv, StreamsTyped, Stream
<1>3. PICK s : /\ streams' = [streams EXCEPT ![c] = s]
               /\ \A m \in On(s.queue) : Tracks(m)
  <2>1. CASE Connect(c)
    <3>1. On([phase |-> "opening", read |-> program, queue |-> <<>>].queue) = {} BY DEF On
    <3> QED BY <2>1, <3>1 DEF Connect
  <2>2. CASE DropStream(c)
    <3>1. On(Down.queue) = {} BY DEF On, Down
    <3> QED BY <2>2, <3>1 DEF DropStream
  <2>3. CASE SendSnapshot(c)
    <3> DEFINE row == streams[c].read
               n == versions.state
               m == [Message("snapshot") EXCEPT !.row = row, !.version = n]
               old == streams[c].queue
               q == <<m>> \o old
               s == [phase |-> "open", read |-> Nothing, queue |-> q]
    <3>1. row \in ProgramRow /\ n \in Int BY <2>3 DEF SendSnapshot, TypeInv, StreamsTyped, Opening, VersionsTyped
    <3>2. streams' = [streams EXCEPT ![c] = s] BY <2>3 DEF SendSnapshot
    <3>3. s.queue = q OBVIOUS
    <3>4. old \in Seq(Sent) /\ \A k \in On(old) : Tracks(k) BY <1>2 DEF AudioInv
    <3> HIDE DEF row, n, old
    <3>5. m \in Sent BY <3>1, SnapshotTyped
    <3>6. Tracks(m) BY DEF Tracks, Message
    <3> HIDE DEF m
    <3>7. On(q) \subseteq On(old) \cup {m} BY <3>4, <3>5, PrefixKeeps
    <3> HIDE DEF q, s
    <3> QED BY <3>2, <3>3, <3>4, <3>6, <3>7
  <2>4. CASE DeliverEvent(c)
    <3> DEFINE old == streams[c].queue
               t == Tail(old)
               s == [streams[c] EXCEPT !.queue = t]
    <3>1. streams' = [streams EXCEPT ![c] = s] /\ old # <<>> BY <2>4 DEF DeliverEvent
    <3>2. old \in Seq(Sent) /\ \A k \in On(old) : Tracks(k) BY <1>2 DEF AudioInv
    <3>3. s.queue = t BY <1>2 DEF Stream
    <3> HIDE DEF old
    <3>4. On(t) \subseteq On(old) BY <3>1, <3>2, TailKeeps
    <3> HIDE DEF t, s
    <3> QED BY <3>1, <3>2, <3>3, <3>4
  <2> QED BY <2>1, <2>2, <2>3, <2>4
<1>4. \A d \in Clients : streams'[d] = IF d = c THEN s ELSE streams[d]
  BY <1>3 DEF TypeInv, StreamsTyped
<1>5. \A d \in Clients : \A m \in On(streams'[d].queue) : Tracks(m) BY <1>3, <1>4 DEF AudioInv
<1>6. \A d \in Clients : Heard(views'[d])
  <2>1. CASE views' = views BY <2>1 DEF AudioInv
  <2>2. CASE DeliverEvent(c)
    <3> DEFINE old == streams[c].queue
               m == Head(old)
    <3>1. PICK v \in Shows(c, m) : views' = [views EXCEPT ![c] = v] BY <2>2 DEF DeliverEvent
    <3>2. old # <<>> /\ old \in Seq(Sent) /\ \A k \in On(old) : Tracks(k) BY <1>2, <2>2 DEF AudioInv, DeliverEvent
    <3> HIDE DEF old
    <3>3. m \in Sent /\ Tracks(m) BY <3>2, TailKeeps
    <3> HIDE DEF m
    <3>4. Heard(v) BY <3>1, <3>3, ShowsHeard DEF AudioInv
    <3>5. \A d \in Clients : views'[d] = IF d = c THEN v ELSE views[d] BY <3>1 DEF TypeInv, PagesTyped
    <3> QED BY <3>4, <3>5 DEF AudioInv
  <2> QED BY <2>1, <2>2 DEF Connect, SendSnapshot, DropStream
<1>7. \A p \in polls' : Tracks(p.payload) /\ (p.step = "read" => p.payload.kind # "instant")
  BY <1>1 DEF AudioInv
<1> QED BY <1>1, <1>5, <1>6, <1>7, QuietSteps

LEMMA PollAudio ==
    ASSUME TypeInv, AudioInv,
           \/ \E c \in Renderers : PollState(c) \/ PollInstant(c) \/ MakeCut(c)
           \/ \E p \in polls : PollAnswered(p) \/ DeliverPoll(p)
    PROVE  AudioInv'
<1> DEFINE Told(p) == Tracks(p.payload) /\ (p.step = "read" => p.payload.kind # "instant")
<1>1. UNCHANGED <<background, versions, streams>>
  BY DEF PollState, PollInstant, MakeCut, PollAnswered, DeliverPoll
<1>2. \A p \in polls' : Told(p)
  <2>1. ASSUME NEW c \in Renderers, PollState(c) PROVE \A p \in polls' : Told(p)
    <3> DEFINE m == [Message("snapshot") EXCEPT !.row = program]
               p == [from |-> c, step |-> "read", payload |-> m]
    <3>1. polls' = polls \cup {p} BY <2>1 DEF PollState
    <3>2. m.kind = "snapshot" BY DEF Message
    <3> HIDE DEF m
    <3>3. Told(p) BY <3>2 DEF Tracks
    <3> QED BY <3>1, <3>3 DEF AudioInv
  <2>2. ASSUME NEW c \in Renderers, PollInstant(c) PROVE \A p \in polls' : Told(p)
    <3> DEFINE m == [Message("instant") EXCEPT !.sound = Sounding, !.version = versions.instant]
               p == [from |-> c, step |-> "answer", payload |-> m]
    <3>1. polls' = polls \cup {p} BY <2>2 DEF PollInstant, Sounding
    <3>2. m.version = versions.instant /\ m.sound = Sounding BY DEF Message
    <3>3. versions.instant \in Nat BY DEF TypeInv, VersionsTyped
    <3> HIDE DEF m
    <3>4. Told(p) BY <3>2, <3>3 DEF Tracks
    <3> QED BY <3>1, <3>4 DEF AudioInv
  <2>3. ASSUME NEW c \in Renderers, MakeCut(c) PROVE \A p \in polls' : Told(p)
    BY <2>3 DEF MakeCut, AudioInv
  <2>4. ASSUME NEW p \in polls, PollAnswered(p) PROVE \A a \in polls' : Told(a)
    <3> DEFINE m == [p.payload EXCEPT !.version = versions.state]
               a == [p EXCEPT !.step = "answer", !.payload = m]
    <3>1. p \in Poll /\ p.payload \in Sent /\ p.payload.kind # "instant"
      BY <2>4 DEF TypeInv, PagesTyped, Poll, AudioInv, PollAnswered
    <3>2. polls' = (polls \ {p}) \cup {a} BY <2>4 DEF PollAnswered
    <3>3. m.kind = p.payload.kind BY <3>1 DEF Sent, Payload
    <3> HIDE DEF m
    <3>4. a.payload = m /\ a.step = "answer" BY <3>1 DEF Poll
    <3>5. Told(a) BY <3>1, <3>3, <3>4 DEF Tracks
    <3> QED BY <3>2, <3>5 DEF AudioInv
  <2>5. ASSUME NEW p \in polls, DeliverPoll(p) PROVE \A a \in polls' : Told(a)
    BY <2>5 DEF DeliverPoll, AudioInv
  <2> QED BY <2>1, <2>2, <2>3, <2>4, <2>5
<1>3. \A c \in Clients : Heard(views'[c])
  <2>1. CASE views' = views BY <2>1 DEF AudioInv
  <2>2. ASSUME NEW c \in Renderers, MakeCut(c) PROVE \A d \in Clients : Heard(views'[d])
    <3> DEFINE v == [views[c] EXCEPT !.row = views[c].cut, !.cut = Nothing]
    <3>1. c \in Clients /\ views[c] \in View BY RenderersAreClients DEF TypeInv, PagesTyped
    <3>2. v.heard = views[c].heard /\ v.sound = views[c].sound BY <3>1 DEF View
    <3>3. views' = [views EXCEPT ![c] = v] BY <2>2 DEF MakeCut
    <3> HIDE DEF v
    <3>4. \A d \in Clients : views'[d] = IF d = c THEN v ELSE views[d] BY <3>3 DEF TypeInv, PagesTyped
    <3> QED BY <3>1, <3>2, <3>4 DEF AudioInv, Heard
  <2>3. ASSUME NEW p \in polls, DeliverPoll(p) PROVE \A d \in Clients : Heard(views'[d])
    <3>1. p.from \in Clients /\ p.payload \in Sent
      BY RenderersAreClients DEF TypeInv, PagesTyped, Poll
    <3>2. PICK v \in Shows(p.from, p.payload) : views' = [views EXCEPT ![p.from] = v] BY <2>3 DEF DeliverPoll
    <3>3. Heard(v) BY <3>1, <3>2, ShowsHeard DEF AudioInv
    <3>4. \A d \in Clients : views'[d] = IF d = p.from THEN v ELSE views[d] BY <3>2 DEF TypeInv, PagesTyped
    <3> QED BY <3>3, <3>4 DEF AudioInv
  <2> QED BY <2>1, <2>2, <2>3 DEF PollState, PollInstant, PollAnswered
<1> QED BY <1>1, <1>2, <1>3, QuietSteps DEF AudioInv

\* A step other than a restart.
LEMMA AudioStep ==
    ASSUME TypeInv, AudioInv, [RealtimeNext]_realtimeVars, [~RestartBackend]_realtimeVars
    PROVE  AudioInv'
<1>1. CASE UNCHANGED realtimeVars BY <1>1, QuietSteps DEF realtimeVars, AudioInv
<1>2. CASE RealtimeNext /\ ~RestartBackend
  BY <1>2, MutatorAudio, ClientAudio, PollAudio DEF RealtimeNext
<1> QED BY <1>1, <1>2

\* As long as the process does not restart, a page that has reached the service's version of the
\* scene audio plays what the service believes is on air, in whatever order the stream, its
\* snapshots and the polls brought it, and however many operators change scenes at once.
THEOREM AudioStaysCurrent ==
    RealtimeSpec /\ [][~RestartBackend]_realtimeVars => []AudioIsCurrent
<1>1. RealtimeInit => AudioInv
  <2> SUFFICES ASSUME RealtimeInit PROVE AudioInv OBVIOUS
  <2>1. \A c \in Clients : On(streams[c].queue) = {} BY DEF RealtimeInit, Down, On
  <2> QED BY <2>1 DEF RealtimeInit, AudioInv, Heard
<1>2. TypeInv /\ AudioInv /\ [RealtimeNext]_realtimeVars /\ [~RestartBackend]_realtimeVars => AudioInv'
  BY AudioStep
<1>3. AudioInv => AudioIsCurrent BY DEF AudioInv, AudioIsCurrent, Heard, Sounding
<1> QED BY <1>1, <1>2, <1>3, RealtimeTyped, PTL DEF RealtimeSpec

----------------------------------------------------------------------------
(* The row a console shows.  Whatever its stream still carries, the rows it will show on the *)
(* way form a chain that ends at the service's version; only a row shown at that version,    *)
(* with no fade still to come, has to be the program's.                                      *)

\* What a page shows of the program, and the version it has seen.
Show == [row : RowOrNothing, seen : Int]
Showing(v) == [row |-> v.row, seen |-> v.seen]

\* What a console shows after a payload.
After(r, m) ==
    IF m.kind = "instant" THEN r
    ELSE IF m.kind = "fade" THEN [r EXCEPT !.row = m.row]
    ELSE IF m.version <= r.seen THEN r
    ELSE [row |-> IF m.kind # "staged" THEN m.row
                  ELSE IF r.row = Nothing THEN Nothing ELSE [r.row EXCEPT !.staged = m.staged],
          seen |-> m.version]

\* A change whose row may be written and whose announcement is still to come.
Written(w) == w.kind \notin {"none", "play", "stop"} /\ w.step # "write"

\* The rows a page may show at the service's version: the program, or what the next
\* announcement repairs.  The staged scene's repairs nothing else.
Lagging ==
    {row \in ProgramRow :
        \/ row = program
        \/ \E o \in Mutators :
            /\ Written(changes[o])
            /\ changes[o].kind = "stage" => [row EXCEPT !.staged = program.staged] = program}

\* A page that has seen version n shows one of the rows R.
Current(r, n, R) == r.seen <= n /\ (r.seen = n => r.row \in R)

NoFadeFrom(q, k) == \A j \in k .. Len(q) : q[j].kind # "fade"

\* The rows V that a console showing r goes through as it receives q.
Chain(V, q, r, n, R) ==
    /\ V \in [1 .. Len(q) + 1 -> Show]
    /\ V[1] = r
    /\ \A k \in 1 .. Len(q) : V[k + 1] = After(V[k], q[k])
    /\ V[Len(q) + 1].seen = n
    /\ \A k \in 1 .. Len(q) + 1 : V[k].seen <= n /\ (NoFadeFrom(q, k) => Current(V[k], n, R))

\* What a change in flight knows of the row it will announce.
KnowsRow(w) ==
    /\ w.kind = "stage" => w.step \in {"write", "announce"}
    /\ w.kind = "stage" /\ w.step = "announce" => w.scene = program.staged
    /\ w.kind \in {"take", "offair"} /\ w.step \in {"decide", "hush", "wait", "find", "start", "announce"}
        => w.row = program
    /\ w.kind \in {"fade", "add", "remove"} /\ w.step = "announce" => w.row = program

\* The version of a payload on a stream: a fade has none.
Numbered(m, n) ==
    /\ m.kind = "fade" => m.version = -1
    /\ m.kind \notin {"fade", "instant"} => m.version \in Nat /\ m.version <= n

\* A stream that is down, about to open or open, and the console behind it.
WhenDown(s, r, n, R) == s.phase = "down" => Current(r, n, R)
WhenOpening(s, r, n, R) ==
    s.phase = "opening" =>
        /\ s.read \in R
        /\ \A m \in On(s.queue) : m.kind = "fade" => m.row = s.read
        /\ (\A m \in On(s.queue) : m.kind # "fade") => Current(r, n, R)
WhenOpen(s, r, n, R) == s.phase = "open" => \E V : Chain(V, s.queue, r, n, R)
Linked(s, r, n, R) ==
    /\ r.seen <= n
    /\ \A m \in On(s.queue) : Numbered(m, n)
    /\ WhenDown(s, r, n, R) /\ WhenOpening(s, r, n, R) /\ WhenOpen(s, r, n, R)

ConsoleInv ==
    /\ \A o \in Mutators : KnowsRow(changes[o])
    /\ \A c \in ControlPages : Linked(streams[c], Showing(views[c]), versions.state, Lagging)

----------------------------------------------------------------------------
(* Chains. *)

\* Rows that may be shown for more reasons.
LEMMA LinkedWidens ==
    ASSUME NEW s, NEW r, NEW n, NEW R, NEW S, R \subseteq S, Linked(s, r, n, R)
    PROVE  Linked(s, r, n, S)
<1>1. WhenDown(s, r, n, S) BY DEF Linked, WhenDown, Current
<1>2. WhenOpening(s, r, n, S) BY DEF Linked, WhenOpening, Current
<1>3. WhenOpen(s, r, n, S)
  <2> SUFFICES ASSUME s.phase = "open" PROVE \E V : Chain(V, s.queue, r, n, S) BY DEF WhenOpen
  <2>1. PICK V : Chain(V, s.queue, r, n, R) BY DEF Linked, WhenOpen
  <2>2. \A k : Current(V[k], n, R) => Current(V[k], n, S) BY DEF Current
  <2>3. Chain(V, s.queue, r, n, S) BY <2>1, <2>2 DEF Chain
  <2> QED BY <2>3
<1> QED BY <1>1, <1>2, <1>3 DEF Linked

\* A payload behind the others: what was current may fall behind, the last row is current.
LEMMA ChainGrows ==
    ASSUME NEW q \in Seq(Sent), NEW m \in Sent, NEW r, NEW n \in Nat, NEW R, NEW V, Chain(V, q, r, n, R),
           NEW p \in Nat, n <= p, NEW S,
           After(V[Len(q) + 1], m) \in Show, After(V[Len(q) + 1], m).seen = p, After(V[Len(q) + 1], m).row \in S,
           m.kind = "fade" \/ n < p \/ R \subseteq S
    PROVE  \E W : Chain(W, Append(q, m), r, p, S)
<1> DEFINE l == Len(q) + 1
           u == After(V[l], m)
           W == [k \in 1 .. l + 1 |-> IF k <= l THEN V[k] ELSE u]
           a == Append(q, m)
<1>1. l \in Nat /\ l >= 1 /\ Len(q) = l - 1 OBVIOUS
<1>2. Len(a) = l /\ (\A k \in 1 .. l : a[k] = IF k < l THEN q[k] ELSE m)
  BY <1>1
<1>3. u \in Show /\ u.seen = p /\ u.row \in S OBVIOUS
<1>4. V \in [1 .. l -> Show] /\ V[1] = r BY DEF Chain
<1>5. \A k \in 1 .. l - 1 : V[k + 1] = After(V[k], q[k]) BY <1>1 DEF Chain
<1>6. \A k \in 1 .. l : V[k].seen <= n /\ (NoFadeFrom(q, k) => Current(V[k], n, R)) BY DEF Chain
<1>7. u = After(V[l], m) OBVIOUS
<1> HIDE DEF l, u, a
<1>8. W \in [1 .. l + 1 -> Show] /\ W[1] = r BY <1>1, <1>3, <1>4
<1>9. \A k \in 1 .. l : W[k] = V[k] BY <1>1
<1>10. W[l + 1] = u BY <1>1
<1> HIDE DEF W
<1>11. \A k \in 1 .. l : W[k + 1] = After(W[k], a[k])
  <2> SUFFICES ASSUME NEW k \in 1 .. l PROVE W[k + 1] = After(W[k], a[k]) OBVIOUS
  <2>1. CASE k = l BY <2>1, <1>1, <1>2, <1>7, <1>9, <1>10
  <2>2. CASE k < l
    <3>1. k \in 1 .. l - 1 /\ k + 1 \in 1 .. l BY <2>2, <1>1
    <3> QED BY <3>1, <2>2, <1>2, <1>5, <1>9
  <2> QED BY <2>1, <2>2, <1>1
<1>12. ASSUME NEW k \in 1 .. l + 1
       PROVE  W[k].seen <= p /\ (NoFadeFrom(a, k) => Current(W[k], p, S))
  <2>1. CASE k = l + 1 BY <2>1, <1>3, <1>10 DEF Current
  <2>2. CASE k \in 1 .. l
    <3>1. W[k] = V[k] /\ V[k].seen <= n /\ V[k].seen \in Int BY <2>2, <1>4, <1>6, <1>9 DEF Show
    <3>2. W[k].seen <= p BY <3>1
    <3>3. ASSUME NoFadeFrom(a, k) PROVE Current(W[k], p, S)
      <4>1. a[l].kind # "fade" BY <3>3, <2>2, <1>1, <1>2 DEF NoFadeFrom
      <4>2. m.kind # "fade" BY <4>1, <1>1, <1>2
      <4>3. CASE n < p BY <4>3, <3>1 DEF Current
      <4>4. CASE R \subseteq S /\ n = p
        <5>1. NoFadeFrom(q, k)
          <6> SUFFICES ASSUME NEW j \in k .. Len(q) PROVE q[j].kind # "fade" BY DEF NoFadeFrom
          <6>1. j \in k .. l /\ j \in 1 .. l /\ j < l BY <1>1, <2>2
          <6>2. a[j] = q[j] BY <6>1, <1>2
          <6> QED BY <6>1, <6>2, <3>3, <1>2 DEF NoFadeFrom
        <5>2. Current(V[k], n, R) BY <5>1, <2>2, <1>6
        <5> QED BY <5>2, <4>4, <3>1 DEF Current
      <4> QED BY <4>2, <4>3, <4>4
    <3> QED BY <3>2, <3>3
  <2> QED BY <2>1, <2>2, <1>1
<1>13. Chain(W, a, r, p, S) BY <1>2, <1>3, <1>8, <1>10, <1>11, <1>12 DEF Chain
<1> QED BY <1>13 DEF a

\* The first payload is received.
LEMMA ChainAdvances ==
    ASSUME NEW q \in Seq(Sent), q # <<>>, NEW r, NEW n \in Nat, NEW R, NEW V, Chain(V, q, r, n, R)
    PROVE  \E W : Chain(W, Tail(q), After(r, Head(q)), n, R)
<1> DEFINE l == Len(q)
           t == Tail(q)
           W == [k \in 1 .. l |-> V[k + 1]]
<1>1. l \in Nat /\ l >= 1 /\ Len(t) = l - 1 /\ Head(q) = q[1] OBVIOUS
<1>2. \A k \in 1 .. l - 1 : t[k] = q[k + 1] OBVIOUS
<1>3. V \in [1 .. l + 1 -> Show] /\ V[1] = r BY DEF Chain
<1>4. (\A k \in 1 .. l : V[k + 1] = After(V[k], q[k])) /\ V[l + 1].seen = n BY DEF Chain
<1>5. \A k \in 1 .. l + 1 : V[k].seen <= n /\ (NoFadeFrom(q, k) => Current(V[k], n, R)) BY DEF Chain
<1>6. \A k : NoFadeFrom(q, k) <=> \A j \in k .. l : q[j].kind # "fade" BY DEF NoFadeFrom
<1>7. \A k : NoFadeFrom(t, k) <=> \A j \in k .. Len(t) : t[j].kind # "fade" BY DEF NoFadeFrom
<1> HIDE DEF l, t
<1>8. W \in [1 .. l -> Show] /\ \A k \in 1 .. l : W[k] = V[k + 1] BY <1>1, <1>3
<1> HIDE DEF W
<1>9. W[1] = After(r, Head(q)) BY <1>1, <1>3, <1>4, <1>8
<1>10. ASSUME NEW k \in 1 .. l - 1 PROVE W[k + 1] = After(W[k], t[k])
  <2>1. k \in 1 .. l /\ k + 1 \in 1 .. l BY <1>1
  <2> QED BY <2>1, <1>2, <1>4, <1>8
<1>11. ASSUME NEW k \in 1 .. l PROVE W[k].seen <= n /\ (NoFadeFrom(t, k) => Current(W[k], n, R))
  <2>1. k + 1 \in 1 .. l + 1 /\ W[k] = V[k + 1] BY <1>1, <1>8
  <2>2. ASSUME NoFadeFrom(t, k) PROVE NoFadeFrom(q, k + 1)
    <3> SUFFICES ASSUME NEW j \in k + 1 .. l PROVE q[j].kind # "fade" BY <1>6
    <3> DEFINE i == j - 1
    <3>1. i \in k .. l - 1 /\ i \in 1 .. l - 1 /\ i + 1 = j BY <1>1
    <3> HIDE DEF i
    <3>2. t[i].kind # "fade" BY <3>1, <2>2, <1>1, <1>7
    <3> QED BY <3>1, <3>2, <1>2
  <2> QED BY <2>1, <2>2, <1>5
<1>12. W[l].seen = n BY <1>1, <1>4, <1>8
<1>13. l - 1 + 1 = l BY <1>1
<1>14. Chain(W, t, After(r, Head(q)), n, R) BY <1>1, <1>8, <1>9, <1>10, <1>11, <1>12, <1>13 DEF Chain
<1> QED BY <1>14 DEF t

\* A snapshot in front of what the stream kept while it was read.
LEMMA ChainStarts ==
    ASSUME NEW q \in Seq(Sent), NEW n \in Nat, NEW R \in SUBSET ProgramRow, NEW row \in R, NEW r \in Show, r.seen <= n,
           \A k \in On(q) : Numbered(k, n) /\ (k.kind = "fade" => k.row = row),
           (\A k \in On(q) : k.kind # "fade") => Current(r, n, R),
           NEW m, m.kind = "snapshot", m.row = row, m.version = n
    PROVE  \E V : Chain(V, <<m>> \o q, r, n, R)
<1> DEFINE l == Len(q)
           a == <<m>> \o q
           first == IF r.seen < n THEN row ELSE r.row
           Faded(k) == \E j \in 1 .. l : j < k /\ q[j].kind = "fade"
           at == [k \in 1 .. l + 1 |-> [row |-> IF Faded(k) THEN row ELSE first, seen |-> n]]
           V == [k \in 1 .. l + 2 |-> IF k = 1 THEN r ELSE at[k - 1]]
<1>1. l \in Nat /\ Len(a) = l + 1 /\ a[1] = m /\ \A k \in 2 .. l + 1 : a[k] = q[k - 1] OBVIOUS
<1>2. \A k \in 1 .. l : q[k] \in Sent /\ q[k] \in On(q) BY DEF On
<1>3. \A k \in 1 .. l : Numbered(q[k], n) /\ (q[k].kind = "fade" => q[k].row = row) BY <1>2
<1>4. row \in RowOrNothing /\ first \in RowOrNothing /\ r.seen \in Int BY DEF Show, RowOrNothing
<1>5. (\A k \in 1 .. l : q[k].kind # "fade") => Current(r, n, R) BY DEF On
<1>f. first = IF r.seen < n THEN row ELSE r.row OBVIOUS
<1>a. a = <<m>> \o q OBVIOUS
<1> HIDE DEF l, a, first
<1>6. \A k \in 1 .. l + 1 : at[k].row = IF Faded(k) THEN row ELSE first BY <1>1
<1>7. \A k \in 1 .. l + 1 : at[k] \in Show /\ at[k].seen = n BY <1>1, <1>4 DEF Show
<1>8. ~Faded(1) BY <1>1
<1>9. ASSUME NEW k \in 1 .. l PROVE Faded(k + 1) <=> Faded(k) \/ q[k].kind = "fade"
  <2>1. \A j \in 1 .. l : j < k + 1 <=> j < k \/ j = k BY <1>1
  <2> QED BY <2>1
<1>10. \A k : Faded(k) => \E j \in 1 .. l : j < k /\ q[j].kind = "fade" OBVIOUS
<1> HIDE DEF at, Faded
<1>11. \A k \in 1 .. l : at[k + 1] = After(at[k], q[k])
  <2> SUFFICES ASSUME NEW k \in 1 .. l PROVE at[k + 1] = After(at[k], q[k]) OBVIOUS
  <2> DEFINE x == at[k]
             y == at[k + 1]
             e == q[k]
  <2>1. k + 1 \in 1 .. l + 1 /\ k \in 1 .. l + 1 BY <1>1
  <2>2. x \in Show /\ y \in Show /\ x.seen = n /\ y.seen = n BY <2>1, <1>7
  <2>3. e \in Sent /\ Numbered(e, n) /\ (e.kind = "fade" => e.row = row) BY <1>2, <1>3
  <2>4. /\ e.kind = "fade" => y.row = row
        /\ e.kind # "fade" => y.row = x.row
    BY <2>1, <1>6, <1>9
  <2> HIDE DEF x, y, e
  <2>5. CASE e.kind = "fade"
    <3>1. y = [x EXCEPT !.row = e.row] BY <2>2, <2>3, <2>4, <2>5 DEF Show
    <3> QED BY <3>1, <2>5 DEF After, x, y, e
  <2>6. CASE e.kind # "fade"
    <3>1. y = x BY <2>2, <2>4, <2>6 DEF Show
    <3>2. e.kind = "instant" \/ e.version <= x.seen BY <2>2, <2>3, <2>6 DEF Numbered
    <3>3. After(x, e) = x BY <3>2, <2>6 DEF After
    <3> QED BY <3>1, <3>3 DEF x, y, e
  <2> QED BY <2>5, <2>6
<1>12. at[1] = After(r, m)
  <2>1. at[1].row = first /\ at[1].seen = n /\ at[1] \in Show BY <1>1, <1>6, <1>7, <1>8
  <2>2. CASE r.seen < n
    <3>1. ~(m.version <= r.seen) BY <2>2, <1>4
    <3>2. After(r, m) = [row |-> m.row, seen |-> m.version] BY <3>1 DEF After
    <3> QED BY <3>2, <2>1, <2>2, <1>f DEF Show
  <2>3. CASE r.seen = n
    <3>1. After(r, m) = r BY <2>3 DEF After
    <3> QED BY <3>1, <2>1, <2>3, <1>f, <1>4 DEF Show
  <2> QED BY <2>2, <2>3, <1>4
<1>13. V \in [1 .. l + 2 -> Show] /\ V[1] = r BY <1>1, <1>7
<1>14. \A k \in 1 .. l + 1 : V[k + 1] = at[k] BY <1>1
<1> HIDE DEF V
<1>15. \A k \in 1 .. l + 1 : V[k + 1] = After(V[k], a[k])
  <2> SUFFICES ASSUME NEW k \in 1 .. l + 1 PROVE V[k + 1] = After(V[k], a[k]) OBVIOUS
  <2>1. CASE k = 1 BY <2>1, <1>1, <1>12, <1>13, <1>14
  <2>2. CASE k # 1
    <3> DEFINE i == k - 1
    <3>1. i \in 1 .. l /\ i + 1 = k /\ k \in 2 .. l + 1 BY <2>2, <1>1
    <3> HIDE DEF i
    <3>2. a[k] = q[i] BY <3>1, <1>1
    <3>3. V[k] = at[i] /\ V[k + 1] = at[k] BY <3>1, <1>14, <1>1
    <3> QED BY <3>1, <3>2, <3>3, <1>11
  <2> QED BY <2>1, <2>2
<1>16. V[l + 2].seen = n
  <2>1. l + 1 \in 1 .. l + 1 /\ l + 1 + 1 = l + 2 BY <1>1
  <2> QED BY <2>1, <1>7, <1>14
<1>17. \A k \in 1 .. l + 2 : NoFadeFrom(a, k) => \A j \in 1 .. l : j + 1 >= k => q[j].kind # "fade"
  <2> SUFFICES ASSUME NEW k \in 1 .. l + 2, NoFadeFrom(a, k), NEW j \in 1 .. l, j + 1 >= k
               PROVE  q[j].kind # "fade"
    OBVIOUS
  <2>1. j + 1 \in k .. l + 1 /\ j + 1 \in 2 .. l + 1 /\ j + 1 - 1 = j BY <1>1
  <2>2. a[j + 1] = q[j] BY <2>1, <1>1
  <2>3. a[j + 1].kind # "fade" BY <2>1, <1>1 DEF NoFadeFrom
  <2> QED BY <2>2, <2>3
<1>18. ASSUME NEW k \in 1 .. l + 2 PROVE V[k].seen <= n /\ (NoFadeFrom(a, k) => Current(V[k], n, R))
  <2>1. CASE k = 1
    <3>1. V[k] = r BY <2>1, <1>13
    <3>2. NoFadeFrom(a, k) => \A j \in 1 .. l : q[j].kind # "fade" BY <2>1, <1>1, <1>17
    <3> QED BY <3>1, <3>2, <1>5
  <2>2. CASE k # 1
    <3> DEFINE i == k - 1
    <3>1. i \in 1 .. l + 1 /\ i + 1 = k BY <2>2, <1>1
    <3> HIDE DEF i
    <3>2. V[k] = at[i] /\ at[i].seen = n BY <3>1, <1>7, <1>14
    <3>3. ASSUME NoFadeFrom(a, k) PROVE at[i].row \in R
      <4>1. CASE Faded(i) BY <4>1, <3>1, <1>6
      <4>2. CASE ~Faded(i)
        <5>1. at[i].row = first BY <4>2, <3>1, <1>6
        <5>2. CASE r.seen < n BY <5>1, <5>2, <1>f
        <5>3. CASE r.seen = n
          <6>1. \A j \in 1 .. l : q[j].kind # "fade"
            <7> SUFFICES ASSUME NEW j \in 1 .. l, q[j].kind = "fade" PROVE FALSE OBVIOUS
            <7>1. CASE j < i BY <7>1, <4>2 DEF Faded
            <7>2. CASE j >= i
              <8>1. j + 1 >= k BY <7>2, <3>1, <1>1
              <8> QED BY <8>1, <3>3, <1>17
            <7> QED BY <7>1, <7>2, <3>1
          <6>2. Current(r, n, R) BY <6>1, <1>5
          <6> QED BY <6>2, <5>1, <5>3, <1>f, <1>4 DEF Current
        <5> QED BY <5>2, <5>3, <1>4
      <4> QED BY <4>1, <4>2
    <3> QED BY <3>2, <3>3 DEF Current
  <2> QED BY <2>1, <2>2
<1>19. l + 1 + 1 = l + 2 BY <1>1
<1>20. Chain(V, a, r, n, R) BY <1>1, <1>13, <1>15, <1>16, <1>18, <1>19 DEF Chain
<1> QED BY <1>20, <1>a


\* A payload joins a stream that is not down.
LEMMA LinkedGrows ==
    ASSUME NEW s \in Stream, NEW r \in Show, NEW n \in Nat, NEW R, Linked(s, r, n, R),
           NEW m \in Sent, NEW p \in Nat, n <= p, NEW S, Numbered(m, p),
           (m.kind = "fade" /\ s.phase # "down") \/ n < p \/ R \subseteq S,
           s.phase = "opening" => s.read \in S /\ (m.kind = "fade" => m.row = s.read),
           \A u \in Show : u.seen = n /\ u.row \in R
               => After(u, m) \in Show /\ After(u, m).seen = p /\ After(u, m).row \in S
    PROVE  Linked(IF s.phase = "down" THEN s ELSE [s EXCEPT !.queue = Append(@, m)], r, p, S)
<1>1. s.queue \in Seq(Sent) /\ r.seen \in Int /\ r.seen <= n BY DEF Stream, Show, Linked
<1>2. \A k \in On(s.queue) : Numbered(k, n) BY DEF Linked
<1>3. \A k \in On(s.queue) : Numbered(k, p)
  <2>1. \A k \in On(s.queue) : k \in Sent BY <1>1 DEF On
  <2> QED BY <2>1, <1>2 DEF Numbered
<1>4. r.seen <= p BY <1>1
<1>5. CASE s.phase = "down"
  <2>1. Current(r, n, R) BY <1>5 DEF Linked, WhenDown
  <2>2. Current(r, p, S) BY <2>1, <1>1, <1>5 DEF Current
  <2> QED BY <2>2, <1>3, <1>4, <1>5 DEF Linked, WhenDown, WhenOpening, WhenOpen
<1>6. CASE s.phase # "down"
  <2> DEFINE q == s.queue
             a == Append(q, m)
             t == [s EXCEPT !.queue = Append(@, m)]
  <2>1. t.phase = s.phase /\ t.read = s.read /\ t.queue = a BY DEF Stream
  <2>2. t = IF s.phase = "down" THEN s ELSE [s EXCEPT !.queue = Append(@, m)] BY <1>6
  <2> HIDE DEF t
  <2>3. On(a) \subseteq On(q) \cup {m} BY <1>1, AppendKeeps
  <2>4. On(q) \subseteq On(a) /\ m \in On(a)
    <3>1. Len(a) = Len(q) + 1 /\ (\A j \in 1 .. Len(q) : a[j] = q[j]) /\ a[Len(q) + 1] = m BY <1>1
    <3>2. \A j \in DOMAIN q : j \in DOMAIN a /\ a[j] = q[j] BY <3>1, <1>1
    <3>3. Len(q) + 1 \in DOMAIN a BY <3>1, <1>1
    <3> QED BY <3>1, <3>2, <3>3 DEF On
  <2>5. ASSUME NEW k \in On(a) PROVE Numbered(k, p) BY <2>3, <1>3
  <2>6. WhenDown(t, r, p, S) BY <2>1, <1>6 DEF WhenDown
  <2>7. WhenOpening(t, r, p, S)
    <3> SUFFICES ASSUME s.phase = "opening"
                 PROVE  /\ s.read \in S
                        /\ \A k \in On(a) : k.kind = "fade" => k.row = s.read
                        /\ (\A k \in On(a) : k.kind # "fade") => Current(r, p, S)
      BY <2>1 DEF WhenOpening
    <3>1. /\ \A k \in On(q) : k.kind = "fade" => k.row = s.read
          /\ (\A k \in On(q) : k.kind # "fade") => Current(r, n, R)
      BY DEF Linked, WhenOpening
    <3>2. ASSUME \A k \in On(a) : k.kind # "fade" PROVE Current(r, p, S)
      <4>1. m.kind # "fade" /\ Current(r, n, R) BY <3>1, <3>2, <2>4
      <4> QED BY <4>1, <1>1 DEF Current
    <3> QED BY <3>1, <3>2, <2>3
  <2>8. WhenOpen(t, r, p, S)
    <3> SUFFICES ASSUME s.phase = "open" PROVE \E W : Chain(W, a, r, p, S) BY <2>1 DEF WhenOpen
    <3>1. PICK V : Chain(V, q, r, n, R) BY DEF Linked, WhenOpen
    <3> DEFINE u == V[Len(q) + 1]
    <3>2. Len(q) + 1 \in 1 .. Len(q) + 1 /\ NoFadeFrom(q, Len(q) + 1) BY <1>1 DEF NoFadeFrom
    <3>3. u \in Show /\ u.seen = n /\ Current(u, n, R) BY <3>1, <3>2 DEF Chain
    <3>4. u.row \in R BY <3>3 DEF Current
    <3>5. After(u, m) \in Show /\ After(u, m).seen = p /\ After(u, m).row \in S BY <3>3, <3>4
    <3>6. m.kind = "fade" \/ n < p \/ R \subseteq S OBVIOUS
    <3> QED BY <3>1, <3>5, <3>6, <1>1, ChainGrows
  <2> QED BY <2>1, <2>2, <2>5, <2>6, <2>7, <2>8, <1>4 DEF Linked
<1> QED BY <1>5, <1>6

\* A stream that breaks with no fade on it leaves its console with what it shows.
LEMMA LinkedBreaks ==
    ASSUME NEW s \in Stream, NEW r, NEW n \in Nat, NEW R, Linked(s, r, n, R),
           \A m \in On(s.queue) : m.kind # "fade", s.phase \in {"opening", "open"}
    PROVE  Linked(Down, r, n, R)
<1>1. Current(r, n, R)
  <2>1. CASE s.phase = "opening" BY <2>1 DEF Linked, WhenOpening
  <2>2. CASE s.phase = "open"
    <3>1. PICK V : Chain(V, s.queue, r, n, R) BY <2>2 DEF Linked, WhenOpen
    <3>2. s.queue \in Seq(Sent) BY DEF Stream
    <3>3. NoFadeFrom(s.queue, 1) BY <3>2 DEF NoFadeFrom, On
    <3>4. 1 \in 1 .. Len(s.queue) + 1 BY <3>2
    <3> QED BY <3>1, <3>3, <3>4 DEF Chain
  <2> QED BY <2>1, <2>2
<1>2. On(Down.queue) = {} /\ Down.phase = "down" BY DEF On, Down
<1> QED BY <1>1, <1>2 DEF Linked, WhenDown, WhenOpening, WhenOpen

\* A console connects.
LEMMA LinkedOpens ==
    ASSUME NEW s, s.phase = "down", NEW r, NEW n \in Nat, NEW R, Linked(s, r, n, R), NEW row \in R
    PROVE  Linked([phase |-> "opening", read |-> row, queue |-> <<>>], r, n, R)
<1> DEFINE t == [phase |-> "opening", read |-> row, queue |-> <<>>]
<1>1. Current(r, n, R) BY DEF Linked, WhenDown
<1>2. On(t.queue) = {} /\ t.phase = "opening" /\ t.read = row BY DEF On
<1> HIDE DEF t
<1>3. Linked(t, r, n, R) BY <1>1, <1>2 DEF Linked, WhenDown, WhenOpening, WhenOpen
<1> QED BY <1>3 DEF t

\* Its snapshot is sent.
LEMMA LinkedStarts ==
    ASSUME NEW s \in Stream, s.phase = "opening", NEW r \in Show, NEW n \in Nat, NEW R \in SUBSET ProgramRow,
           Linked(s, r, n, R),
           NEW m \in Sent, m.kind = "snapshot", m.row = s.read, m.version = n
    PROVE  Linked([phase |-> "open", read |-> Nothing, queue |-> <<m>> \o s.queue], r, n, R)
<1> DEFINE q == <<m>> \o s.queue
           t == [phase |-> "open", read |-> Nothing, queue |-> q]
           row == s.read
<1>1. s.queue \in Seq(Sent) BY DEF Stream
<1>2. row \in R /\ r.seen <= n BY DEF Linked, WhenOpening
<1>3. \A k \in On(s.queue) : Numbered(k, n) /\ (k.kind = "fade" => k.row = row)
  BY DEF Linked, WhenOpening
<1>4. (\A k \in On(s.queue) : k.kind # "fade") => Current(r, n, R) BY DEF Linked, WhenOpening
<1>5. m.row = row OBVIOUS
<1> HIDE DEF row
<1>6. \E V : Chain(V, q, r, n, R) BY <1>1, <1>2, <1>3, <1>4, <1>5, ChainStarts
<1>7. On(q) \subseteq On(s.queue) \cup {m} BY <1>1, PrefixKeeps
<1>8. Numbered(m, n) BY DEF Numbered
<1> HIDE DEF q
<1>9. t.phase = "open" /\ t.queue = q OBVIOUS
<1> HIDE DEF t
<1>10. \A k \in On(t.queue) : Numbered(k, n) BY <1>3, <1>7, <1>8, <1>9
<1>11. Linked(t, r, n, R) BY <1>2, <1>6, <1>9, <1>10 DEF Linked, WhenDown, WhenOpening, WhenOpen
<1> QED BY <1>11 DEF t, q

\* An open stream delivers.
LEMMA LinkedDelivers ==
    ASSUME NEW s \in Stream, s.phase = "open", s.queue # <<>>, NEW r, NEW n \in Nat, NEW R, Linked(s, r, n, R)
    PROVE  Linked([s EXCEPT !.queue = Tail(@)], After(r, Head(s.queue)), n, R)
<1> DEFINE q == Tail(s.queue)
           t == [s EXCEPT !.queue = Tail(@)]
           u == After(r, Head(s.queue))
<1>1. s.queue \in Seq(Sent) BY DEF Stream
<1>2. PICK V : Chain(V, s.queue, r, n, R) BY DEF Linked, WhenOpen
<1>3. \E W : Chain(W, q, u, n, R) BY <1>1, <1>2, ChainAdvances
<1>4. t.phase = "open" /\ t.queue = q BY DEF Stream
<1>5. On(q) \subseteq On(s.queue) /\ q \in Seq(Sent) BY <1>1, TailKeeps
<1> HIDE DEF q, t, u
<1>6. u.seen <= n
  <2>1. PICK W : Chain(W, q, u, n, R) BY <1>3
  <2>2. 1 \in 1 .. Len(q) + 1 BY <1>5
  <2> QED BY <2>1, <2>2 DEF Chain
<1>7. \A k \in On(t.queue) : Numbered(k, n) BY <1>4, <1>5 DEF Linked
<1>8. Linked(t, u, n, R) BY <1>3, <1>4, <1>6, <1>7 DEF Linked, WhenDown, WhenOpening, WhenOpen
<1> QED BY <1>8 DEF t, u

\* A drained console shows one of the rows.
LEMMA LinkedDrained ==
    ASSUME NEW s, s.phase = "open", s.queue = <<>>, NEW r, NEW n, NEW R, Linked(s, r, n, R)
    PROVE  r.row \in R
<1>1. PICK V : Chain(V, s.queue, r, n, R) BY DEF Linked, WhenOpen
<1>2. Len(s.queue) + 1 = 1 /\ NoFadeFrom(s.queue, 1) BY DEF NoFadeFrom
<1>3. V[1].seen = n /\ Current(V[1], n, R) /\ V[1] = r BY <1>1, <1>2 DEF Chain
<1> QED BY <1>3 DEF Current


----------------------------------------------------------------------------
(* What the handlers do to the rows that may be shown. *)

\* A fade is announced while no console's stream is down, and no stream breaks that carries one.
FadesArrive ==
    \A c \in ControlPages :
        /\ streams[c].phase = "down" => ~\E o \in Mutators : changes[o].kind = "fade" /\ Announce(o)
        /\ DropStream(c) => \A m \in On(streams[c].queue) : m.kind # "fade"

\* A change is announced once the consoles' reads that it would overtake are answered.
ReadsAnswered ==
    \A o \in Mutators : Announce(o) =>
        \A c \in ControlPages : streams[c].phase = "opening" => streams[c].read = program

\* The console's stream and its view are what they were, and no row is ruled out.
LEMMA ConsolesWait ==
    ASSUME ConsoleInv, versions'.state = versions.state, Lagging \subseteq Lagging',
           \A o \in Mutators : KnowsRow(changes[o])',
           \A c \in ControlPages : streams'[c] = streams[c] /\ Showing(views'[c]) = Showing(views[c])
    PROVE  ConsoleInv'
<1> SUFFICES ASSUME NEW c \in ControlPages
             PROVE  Linked(streams'[c], Showing(views'[c]), versions'.state, Lagging')
  BY DEF ConsoleInv
<1> DEFINE s == streams[c]
           r == Showing(views[c])
           n == versions.state
           R == Lagging
           S == Lagging'
<1>1. Linked(s, r, n, R) /\ R \subseteq S BY DEF ConsoleInv
<1>2. streams'[c] = s /\ Showing(views'[c]) = r /\ versions'.state = n OBVIOUS
<1> HIDE DEF s, r, n, R, S
<1>3. Linked(s, r, n, S) BY <1>1, LinkedWidens
<1> QED BY <1>2, <1>3 DEF S

\* Nothing is written but by the one operator.
LEMMA SettledRow ==
    ASSUME OneMutator, TypeInv, NEW o \in Mutators, ~Written(changes[o])
    PROVE  Lagging = {program}
BY DEF OneMutator, Lagging, TypeInv, RowsTyped

\* A handler that leaves the row alone rules none out before it announces it.
LEMMA RowsStay ==
    ASSUME OneMutator, TypeInv, NEW o \in Mutators, program' = program,
           Written(changes[o]) => Written(changes'[o]) /\ changes'[o].kind = changes[o].kind
    PROVE  Lagging \subseteq Lagging'
<1> SUFFICES ASSUME NEW row \in Lagging PROVE row \in Lagging' OBVIOUS
<1>1. row \in ProgramRow BY DEF Lagging
<1>2. CASE row = program BY <1>1, <1>2 DEF Lagging
<1>3. CASE row # program
  <2>1. Written(changes[o]) /\ (changes[o].kind = "stage" => [row EXCEPT !.staged = program.staged] = program)
    BY <1>3 DEF Lagging, OneMutator
  <2>2. Written(changes'[o]) /\ (changes'[o].kind = "stage" => [row EXCEPT !.staged = program'.staged] = program')
    BY <2>1
  <2> QED BY <1>1, <2>2 DEF Lagging
<1> QED BY <1>2, <1>3

\* Every row may be shown while a change other than a staging is to be announced.
LEMMA RowsOpen ==
    ASSUME NEW o \in Mutators, Written(changes'[o]), changes'[o].kind # "stage"
    PROVE  Lagging \subseteq Lagging'
BY DEF Lagging

\* The steps of a handler up to its announcement.
LEMMA HandlersInform ==
    ASSUME OneMutator, TypeInv, ConsoleInv, NEW o \in Mutators, MutatorStep(o), ~Announce(o)
    PROVE  Lagging \subseteq Lagging' /\ \A p \in Mutators : KnowsRow(changes[p])'
<1> DEFINE w == changes[o]
           x == changes'[o]
<1>1. w \in Change /\ KnowsRow(w) /\ program \in ProgramRow
  BY DEF ConsoleInv, TypeInv, ChangesTyped, RowsTyped
<1>2. \A p \in Mutators : p = o BY DEF OneMutator
<1>3. SUFFICES Lagging \subseteq Lagging' /\ KnowsRow(changes[o])' BY <1>2
<1>4. ASSUME NEW v \in Change, v.step \in {"write", "read"} \/ v.kind \in {"play", "stop"},
             v.kind = "stage" => v.step = "write", Start(o, v)
      PROVE  Lagging \subseteq Lagging' /\ KnowsRow(changes[o])'
  <2>1. x = [v EXCEPT !.before = program] /\ program' = program /\ ~Written(w)
    BY <1>4, OwnChange DEF Start, Free, Written
  <2>2. x.kind = v.kind /\ x.step = v.step BY <2>1 DEF Change
  <2>3. KnowsRow(changes[o])' BY <2>2, <1>4 DEF KnowsRow
  <2> QED BY <2>1, <2>3, RowsStay
<1>5. CASE \/ \E s \in Scenes : ActivateScene(o, s) \/ AddScene(o, s) \/ RemoveScene(o, s)
           \/ \E s \in SceneOrNothing : StageScene(o, s)
           \/ \E b \in BOOLEAN : SetFadeToBlack(o, b)
           \/ \E s \in Scenes : TakeSceneInstant(o, s)
           \/ TakeProgramOffAir(o) \/ StopSceneInstant(o)
  <2>1. PICK v : /\ v \in Change /\ (v.step \in {"write", "read"} \/ v.kind \in {"play", "stop"})
                 /\ v.kind = "stage" => v.step = "write"
                 /\ Start(o, v)
    <3> USE DEF ChangeKinds, RowChanges, ChangeSteps, SceneOrNothing, RowOrNothing
    <3>1. ASSUME NEW s \in Scenes, ActivateScene(o, s)
          PROVE  \E v \in Change : v.step = "write" /\ Start(o, v)
      <4>1. [NoChange EXCEPT !.kind = "take", !.scene = s] \in Change BY DEF NoChange, Change
      <4>2. [NoChange EXCEPT !.kind = "take", !.scene = s].step = "write" BY DEF NoChange
      <4> QED BY <3>1, <4>1, <4>2 DEF ActivateScene
    <3>2. ASSUME NEW s \in Scenes, AddScene(o, s)
          PROVE  \E v \in Change : v.step \in {"write", "read"} /\ v.kind = "add" /\ Start(o, v)
      <4> DEFINE v == [NoChange EXCEPT !.kind = "add", !.scene = s,
                                       !.step = IF s \in program.scenes THEN "read" ELSE "write"]
      <4>1. v \in Change /\ v.step \in {"write", "read"} /\ v.kind = "add" BY DEF NoChange, Change
      <4>2. Start(o, v) BY <3>2 DEF AddScene
      <4> HIDE DEF v
      <4> QED BY <4>1, <4>2
    <3>3. ASSUME NEW s \in Scenes, RemoveScene(o, s)
          PROVE  \E v \in Change : v.step = "write" /\ Start(o, v)
      <4>1. [NoChange EXCEPT !.kind = "remove", !.scene = s] \in Change BY DEF NoChange, Change
      <4>2. [NoChange EXCEPT !.kind = "remove", !.scene = s].step = "write" BY DEF NoChange
      <4> QED BY <3>3, <4>1, <4>2 DEF RemoveScene
    <3>4. ASSUME NEW s \in SceneOrNothing, StageScene(o, s)
          PROVE  \E v \in Change : v.step = "write" /\ Start(o, v)
      <4>1. [NoChange EXCEPT !.kind = "stage", !.scene = s] \in Change BY DEF NoChange, Change
      <4>2. [NoChange EXCEPT !.kind = "stage", !.scene = s].step = "write" BY DEF NoChange
      <4> QED BY <3>4, <4>1, <4>2 DEF StageScene
    <3>5. ASSUME NEW b \in BOOLEAN, SetFadeToBlack(o, b)
          PROVE  \E v \in Change : v.step \in {"write", "read"} /\ v.kind = "fade" /\ Start(o, v)
      <4> DEFINE v == [NoChange EXCEPT !.kind = "fade", !.fade = b,
                                       !.step = IF program.fade = b THEN "read" ELSE "write"]
      <4>1. v \in Change /\ v.step \in {"write", "read"} /\ v.kind = "fade" BY DEF NoChange, Change
      <4>2. Start(o, v) BY <3>5 DEF SetFadeToBlack
      <4> HIDE DEF v
      <4> QED BY <4>1, <4>2
    <3>6. ASSUME TakeProgramOffAir(o)
          PROVE  \E v \in Change : v.step = "write" /\ Start(o, v)
      <4>1. [NoChange EXCEPT !.kind = "offair"] \in Change BY DEF NoChange, Change
      <4>2. [NoChange EXCEPT !.kind = "offair"].step = "write" BY DEF NoChange
      <4> QED BY <3>6, <4>1, <4>2 DEF TakeProgramOffAir
    <3>7. ASSUME NEW s \in Scenes, TakeSceneInstant(o, s)
          PROVE  \E v \in Change : v.kind = "play" /\ Start(o, v)
      <4> DEFINE v == [NoChange EXCEPT !.kind = "play", !.scene = s, !.step = "start"]
      <4>1. v \in Change /\ v.kind = "play" BY DEF NoChange, Change
      <4>2. Start(o, v) BY <3>7 DEF TakeSceneInstant
      <4> HIDE DEF v
      <4> QED BY <4>1, <4>2
    <3>8. ASSUME StopSceneInstant(o)
          PROVE  \E v \in Change : v.kind = "stop" /\ Start(o, v)
      <4> DEFINE v == [NoChange EXCEPT !.kind = "stop", !.step = "hush"]
      <4>1. v \in Change /\ v.kind = "stop" BY DEF NoChange, Change
      <4>2. Start(o, v) BY <3>8 DEF StopSceneInstant
      <4> HIDE DEF v
      <4> QED BY <4>1, <4>2
    <3> QED BY <1>5, <3>1, <3>2, <3>3, <3>4, <3>5, <3>6, <3>7, <3>8
  <2> QED BY <2>1, <1>4
<1>6. CASE WriteRow(o)
  <2>1. w.kind \in {"take", "offair", "stage", "fade", "add", "remove"} /\ w.step = "write"
    BY <1>6 DEF WriteRow, Doing, RowChanges
  <2>2. PICK step \in {"announce", "decide", "read"} :
           ChangeGoes(o, step) /\ (step = "announce" <=> w.kind = "stage") /\ (step = "decide" <=> w.kind = "remove")
    BY <1>6, <2>1 DEF WriteRow
  <2>3. x = [w EXCEPT !.step = step] BY <2>2, OwnChange
  <2>4. x.kind = w.kind /\ x.step = step /\ x.scene = w.scene BY <2>3, <1>1 DEF Change
  <2>5. CASE w.kind = "stage"
    <3>1. program' = [program EXCEPT !.staged = w.scene] BY <1>6, <2>5 DEF WriteRow
    <3>2. program'.staged = w.scene /\ program' \in ProgramRow
          /\ [program EXCEPT !.staged = program'.staged] = program'
      BY <3>1, <1>1 DEF ProgramRow, Change
    <3>3. KnowsRow(changes[o])' BY <2>2, <2>4, <2>5, <3>2 DEF KnowsRow
    <3>4. Lagging = {program} BY <2>1, SettledRow DEF Written
    <3>5. Written(x) BY <2>1, <2>2, <2>4, <2>5 DEF Written
    <3>6. program \in Lagging' BY <3>2, <3>5, <2>4, <1>1 DEF Lagging
    <3> QED BY <3>3, <3>4, <3>6
  <2>6. CASE w.kind # "stage"
    <3>1. KnowsRow(changes[o])' BY <2>1, <2>2, <2>4, <2>6 DEF KnowsRow
    <3>2. Written(x) BY <2>1, <2>2, <2>4 DEF Written
    <3> QED BY <3>1, <3>2, <2>4, <2>6, RowsOpen
  <2> QED BY <2>5, <2>6
<1>7. CASE ClearReferences(o)
  <2>1. w.kind = "remove" /\ x = [w EXCEPT !.step = "read"]
    BY <1>7, OwnChange DEF ClearReferences, Doing
  <2>2. x.kind = "remove" /\ x.step = "read" BY <2>1, <1>1 DEF Change
  <2>3. Written(x) BY <2>2 DEF Written
  <2>4. KnowsRow(changes[o])' BY <2>2 DEF KnowsRow
  <2> QED BY <2>2, <2>3, <2>4, RowsOpen
<1>8. CASE ReadForBroadcast(o)
  <2> DEFINE step == IF w.kind \in {"take", "offair"} THEN "decide" ELSE "announce"
  <2>1. w.kind \in RowChanges /\ w.step = "read" /\ program' = program BY <1>8 DEF ReadForBroadcast, Doing
  <2>2. changes' = [changes EXCEPT ![o].row = program, ![o].step = step] BY <1>8 DEF ReadForBroadcast
  <2>3. step \in {"decide", "announce"} /\ (step = "decide" <=> w.kind \in {"take", "offair"}) OBVIOUS
  <2> HIDE DEF step
  <2>4. x = [w EXCEPT !.row = program, !.step = step] BY <2>2 DEF TypeInv, ChangesTyped
  <2>5. x.kind = w.kind /\ x.step = step /\ x.row = program BY <2>4, <1>1 DEF Change
  <2>6. w.kind # "stage" BY <2>1, <1>1 DEF KnowsRow
  <2>7. Written(x) BY <2>1, <2>3, <2>5 DEF Written, RowChanges
  <2>8. KnowsRow(changes[o])' BY <2>1, <2>3, <2>5, <2>6 DEF KnowsRow, RowChanges
  <2> QED BY <2>1, <2>5, <2>7, <2>8, RowsStay
<1>9. CASE /\ Decide(o) \/ Hush(o) \/ FadeElapses(o) \/ FindBackground(o) \/ StartBackground(o) \/ BackgroundFails(o)
           /\ w.kind \in {"take", "offair", "remove"}
  <2> USE DEF Decide, Decides, Hush, FadeElapses, FindBackground, StartBackground, BackgroundFails
  <2>1. program' = program /\ w.step \in {"decide", "hush", "wait", "find", "start"}
    BY <1>9 DEF Doing
  <2>2. PICK step : /\ ChangeGoes(o, step)
                    /\ step \in {"hush", "find", "start", "announce", "wait", "clear", "read"}
                    /\ w.kind = "remove" => step \in {"hush", "clear", "read"}
    BY <1>9, OnwardSteps DEF AudioDone, Doing
  <2>3. x = [w EXCEPT !.step = step] BY <2>2, OwnChange
  <2>4. x.kind = w.kind /\ x.step = step /\ x.row = w.row BY <2>3, <1>1 DEF Change
  <2>5. w.kind \in {"take", "offair"} => w.row = program BY <2>1, <1>1 DEF KnowsRow
  <2>6. KnowsRow(changes[o])' BY <1>9, <2>1, <2>2, <2>4, <2>5 DEF KnowsRow
  <2>7. Written(x) BY <1>9, <2>2, <2>4 DEF Written
  <2> QED BY <2>1, <2>4, <2>6, <2>7, RowsStay
<1>10. CASE /\ Decide(o) \/ Hush(o) \/ FadeElapses(o) \/ FindBackground(o) \/ StartBackground(o) \/ BackgroundFails(o)
            /\ w.kind \notin {"take", "offair", "remove"}
  <2>1. program' = program /\ w.kind \in {"play", "stop"} /\ changes'[o] = NoChange
    BY <1>10, OwnChange DEF Decide, Decides, Hush, FadeElapses, FindBackground, StartBackground, BackgroundFails,
       AudioDone, Doing
  <2>2. KnowsRow(changes[o])' BY <2>1 DEF KnowsRow, NoChange
  <2>3. ~Written(w) BY <2>1 DEF Written
  <2> QED BY <2>1, <2>2, <2>3, RowsStay
<1> QED BY <1>5, <1>6, <1>7, <1>8, <1>9, <1>10 DEF MutatorStep

\* A broadcast reaches the console's stream.
LEMMA BroadcastReaches ==
    ASSUME TypeInv, NEW m \in Sent, Broadcast(m), NEW c \in Clients
    PROVE  /\ streams'[c] = IF streams[c].phase = "down" THEN streams[c]
                            ELSE [streams[c] EXCEPT !.queue = Append(@, Stamped(m))]
           /\ streams[c] \in Stream /\ Showing(views[c]) \in Show
           /\ Stamped(m) \in Sent /\ Stamped(m).kind = m.kind
           /\ versions.state \in Nat /\ versions'.state \in Nat
<1>1. streams[c] \in Stream /\ views[c] \in View BY DEF TypeInv, StreamsTyped, PagesTyped
<1>2. Showing(views[c]) \in Show BY <1>1 DEF View, Show, Showing
<1>3. versions.state \in Nat BY DEF TypeInv, VersionsTyped
<1>4. Bumped(m.kind) \in [state : Nat, instant : Nat] /\ Stamped(m) \in Sent /\ Stamped(m).kind = m.kind
  BY StampsTyped DEF TypeInv
<1>5. versions'.state \in Nat BY <1>4 DEF Broadcast
<1> QED BY <1>1, <1>2, <1>3, <1>4, <1>5 DEF Broadcast

\* The playback of the background says nothing of the row.
LEMMA SoundLinks ==
    ASSUME TypeInv, ConsoleInv, NEW m \in Sent, m.kind = "instant", Broadcast(m), views' = views,
           Lagging \subseteq Lagging', \A p \in Mutators : KnowsRow(changes[p])'
    PROVE  ConsoleInv'
<1> SUFFICES ASSUME NEW c \in ControlPages
             PROVE  Linked(streams'[c], Showing(views'[c]), versions'.state, Lagging')
  BY DEF ConsoleInv
<1> DEFINE s == streams[c]
           r == Showing(views[c])
           n == versions.state
           R == Lagging
           S == Lagging'
           k == Stamped(m)
<1>1. c \in Clients BY DEF Clients
<1>2. /\ streams'[c] = IF s.phase = "down" THEN s ELSE [s EXCEPT !.queue = Append(@, k)]
      /\ s \in Stream /\ r \in Show /\ k \in Sent /\ k.kind = "instant" /\ n \in Nat
  BY <1>1, BroadcastReaches
<1>3. versions'.state = n
  <2>1. TopicOf(m.kind) = "instant" BY DEF TopicOf
  <2> QED BY <2>1 DEF Broadcast, Bumped, TypeInv, VersionsTyped
<1>4. Linked(s, r, n, R) /\ R \subseteq S BY DEF ConsoleInv
<1>5. Showing(views'[c]) = r OBVIOUS
<1> HIDE DEF s, r, n, R, S, k
<1>6. n <= n /\ Numbered(k, n) /\ \A u \in Show : After(u, k) = u BY <1>2 DEF Numbered, After
<1>7. s.phase = "opening" => s.read \in S /\ (k.kind = "fade" => k.row = s.read)
  BY <1>2, <1>4 DEF Linked, WhenOpening
<1>8. \A u \in Show : u.seen = n /\ u.row \in R
         => After(u, k) \in Show /\ After(u, k).seen = n /\ After(u, k).row \in S
  BY <1>4, <1>6
<1>9. Linked(IF s.phase = "down" THEN s ELSE [s EXCEPT !.queue = Append(@, k)], r, n, S)
  BY <1>2, <1>4, <1>6, <1>7, <1>8, LinkedGrows
<1>10. Linked(streams'[c], Showing(views'[c]), versions'.state, S) BY <1>2, <1>3, <1>5, <1>9
<1> QED BY <1>10 DEF S

\* What an announcement leaves: the row it carries is the program.
LEMMA AnnouncementLinks ==
    ASSUME OneMutator, TypeInv, ConsoleInv, FadesArrive, ReadsAnswered, NEW o \in Mutators, Announce(o)
    PROVE  ConsoleInv'
<1> DEFINE w == changes[o]
           m == Announcement(w)
           S == Lagging'
           p == versions'.state
           n == versions.state
           R == Lagging
           k == Stamped(m)
<1>1. w \in Change /\ Remembers(w) /\ KnowsRow(w) /\ program \in ProgramRow /\ w.kind \in RowChanges /\ w.step = "announce"
  BY DEF ConsoleInv, TypeInv, ChangesTyped, RowsTyped, Announce, Doing
<1>2. m \in Sent /\ m.kind # "instant" BY <1>1, AnnouncementTyped DEF RowChanges
<1>3. Broadcast(m) /\ UNCHANGED <<program, views>> /\ ChangeEnds(o) BY DEF Announce
<1>4. changes'[o] = NoChange BY <1>3, OwnChange
<1>5. S = {program}
  <2>1. ~Written(changes'[o]) BY <1>4 DEF Written, NoChange
  <2> QED BY <2>1, <1>1, <1>3 DEF OneMutator, Lagging
<1>6. \A q \in Mutators : KnowsRow(changes[q])'
  <2>1. KnowsRow(NoChange)' BY DEF KnowsRow, NoChange
  <2> QED BY <2>1, <1>4 DEF OneMutator
<1>7. /\ w.kind # "stage" => w.row = program
      /\ w.kind = "stage" => w.scene = program.staged
  BY <1>1 DEF KnowsRow, RowChanges
<1>8. \A row \in R : row \in ProgramRow /\ (w.kind = "stage" => [row EXCEPT !.staged = w.scene] = program)
  <2> SUFFICES ASSUME NEW row \in R PROVE row \in ProgramRow /\ (w.kind = "stage" => [row EXCEPT !.staged = w.scene] = program)
    OBVIOUS
  <2>1. row \in ProgramRow BY DEF Lagging
  <2>2. CASE row = program BY <2>2, <2>1, <1>7 DEF ProgramRow
  <2>3. CASE row # program BY <2>1, <2>3, <1>7 DEF Lagging, OneMutator
  <2> QED BY <2>1, <2>2, <2>3
<1>9. /\ m.kind \in {"change", "staged", "scenes", "fade"}
      /\ m.kind = "staged" <=> w.kind = "stage"
      /\ m.kind = "fade" <=> w.kind = "fade"
      /\ m.kind = "staged" => m.staged = w.scene
      /\ m.kind # "staged" => m.row = w.row
      /\ m.version = -1
  <2>1. CASE w.kind = "stage"
    <3>1. m = [Message("staged") EXCEPT !.staged = w.scene] BY <2>1 DEF Announcement
    <3> QED BY <2>1, <3>1 DEF Message
  <2>2. CASE w.kind = "fade"
    <3>1. m = [Message("fade") EXCEPT !.row = w.row] BY <2>2 DEF Announcement
    <3> QED BY <2>2, <3>1 DEF Message
  <2>3. CASE w.kind \in {"add", "remove"}
    <3>1. m = [Message("scenes") EXCEPT !.row = w.row] BY <2>3 DEF Announcement
    <3> QED BY <2>3, <3>1 DEF Message
  <2>4. CASE w.kind \notin {"stage", "fade", "add", "remove"}
    <3>1. m = [Message("change") EXCEPT !.row = w.row] BY <2>4 DEF Announcement
    <3> QED BY <2>4, <3>1 DEF Message
  <2> QED BY <2>1, <2>2, <2>3, <2>4
<1>10. n \in Nat /\ p \in Nat /\ k \in Sent /\ k.kind = m.kind
  <2>1. n \in Nat BY DEF TypeInv, VersionsTyped
  <2> QED BY <2>1, <1>2, <1>3, StampsTyped DEF Broadcast, TypeInv
<1>11. /\ k.kind = "fade" => p = n /\ k.version = -1
       /\ k.kind # "fade" => p = n + 1 /\ k.version = p
       /\ k.row = m.row /\ k.staged = m.staged
  <2>1. CASE m.kind = "fade"
    <3>1. TopicOf(m.kind) = "none" BY <2>1 DEF TopicOf
    <3> QED BY <2>1, <3>1, <1>3, <1>9 DEF Stamped, Broadcast, Bumped
  <2>2. CASE m.kind # "fade"
    <3>1. TopicOf(m.kind) = "state" BY <2>2, <1>2 DEF TopicOf
    <3>2. Bumped(m.kind) = [versions EXCEPT !.state = @ + 1] BY <3>1 DEF Bumped
    <3>3. p = Bumped(m.kind).state /\ p = n + 1 BY <3>2, <1>3 DEF Broadcast, TypeInv, VersionsTyped
    <3>4. k = [m EXCEPT !.version = p] BY <3>1, <3>3 DEF Stamped
    <3>5. k.version = p /\ k.row = m.row /\ k.staged = m.staged BY <3>4, <1>2 DEF Sent, Payload
    <3> QED BY <3>3, <3>5, <2>2, <1>10
  <2> QED BY <2>1, <2>2
<1>12. ASSUME NEW c \in ControlPages PROVE Linked(streams'[c], Showing(views'[c]), p, S)
  <2> DEFINE s == streams[c]
             r == Showing(views[c])
  <2>1. c \in Clients BY DEF Clients
  <2>2. /\ streams'[c] = IF s.phase = "down" THEN s ELSE [s EXCEPT !.queue = Append(@, k)]
        /\ s \in Stream /\ r \in Show
    BY <2>1, <1>2, <1>3, BroadcastReaches
  <2>3. Linked(s, r, n, R) BY DEF ConsoleInv
  <2>4. Showing(views'[c]) = r BY <1>3
  <2>5. s.phase = "down" => m.kind # "fade" BY <1>9 DEF FadesArrive
  <2>6. s.phase = "opening" => s.read = program BY DEF ReadsAnswered
  <2> HIDE DEF w, m, S, p, n, R, k, s, r
  <2>7. Numbered(k, p) BY <1>10, <1>11 DEF Numbered
  <2>8. (k.kind = "fade" /\ s.phase # "down") \/ n < p BY <2>5, <1>10, <1>11
  <2>9. s.phase = "opening" => s.read \in S /\ (k.kind = "fade" => k.row = s.read)
    BY <2>6, <1>5, <1>7, <1>9, <1>10, <1>11
  <2>10. ASSUME NEW u \in Show, u.seen = n, u.row \in R
         PROVE  After(u, k) \in Show /\ After(u, k).seen = p /\ After(u, k).row \in S
    <3>1. program \in RowOrNothing /\ u.row # Nothing BY <2>10, <1>1, <1>8, NothingAssumption DEF RowOrNothing
    <3>2. CASE k.kind = "fade"
      <4>1. After(u, k) = [u EXCEPT !.row = program] BY <3>2, <1>7, <1>9, <1>10, <1>11 DEF After
      <4> QED BY <4>1, <3>1, <3>2, <2>10, <1>5, <1>11 DEF Show
    <3>3. CASE k.kind # "fade"
      <4>1. ~(k.version <= u.seen) /\ k.kind # "instant" BY <3>3, <2>10, <1>2, <1>10, <1>11
      <4>2. After(u, k) = [row |-> program, seen |-> p]
        <5>1. CASE k.kind = "staged"
          <6>1. After(u, k) = [row |-> [u.row EXCEPT !.staged = k.staged], seen |-> k.version]
            BY <5>1, <4>1, <3>1 DEF After
          <6>2. [u.row EXCEPT !.staged = k.staged] = program BY <5>1, <2>10, <1>8, <1>9, <1>10, <1>11
          <6> QED BY <6>1, <6>2, <3>3, <1>11
        <5>2. CASE k.kind # "staged"
          <6>1. After(u, k) = [row |-> k.row, seen |-> k.version] BY <5>2, <4>1, <3>3 DEF After
          <6>2. k.row = program BY <5>2, <1>7, <1>9, <1>10, <1>11
          <6> QED BY <6>1, <6>2, <3>3, <1>11
        <5> QED BY <5>1, <5>2
      <4> QED BY <4>2, <3>1, <1>5, <1>10 DEF Show
    <3> QED BY <3>2, <3>3
  <2>11. n <= p BY <1>10, <1>11
  <2>12. Linked(IF s.phase = "down" THEN s ELSE [s EXCEPT !.queue = Append(@, k)], r, p, S)
    BY <2>2, <2>3, <2>7, <2>8, <2>9, <2>10, <2>11, <1>10, LinkedGrows
  <2> QED BY <2>2, <2>4, <2>12
<1> QED BY <1>6, <1>12 DEF ConsoleInv


----------------------------------------------------------------------------
(* What the streams do. *)

\* A console's link changes, and no other.
LEMMA OneConsoleMoves ==
    ASSUME ConsoleInv, NEW c, UNCHANGED <<program, versions, changes>>,
           \A d \in ControlPages : d # c => streams'[d] = streams[d] /\ views'[d] = views[d],
           c \in ControlPages => Linked(streams'[c], Showing(views'[c]), versions.state, Lagging)
    PROVE  ConsoleInv'
<1> DEFINE n == versions.state
           R == Lagging
<1>1. Lagging' = R /\ versions'.state = n BY DEF Lagging
<1>2. \A o \in Mutators : KnowsRow(changes[o])' BY DEF ConsoleInv, KnowsRow
<1>3. \A d \in ControlPages : Linked(streams[d], Showing(views[d]), n, R) BY DEF ConsoleInv
<1> HIDE DEF n, R
<1>4. ASSUME NEW d \in ControlPages PROVE Linked(streams'[d], Showing(views'[d]), n, R)
  <2>1. CASE d = c BY <2>1 DEF n, R
  <2>2. CASE d # c
    <3>1. streams'[d] = streams[d] /\ views'[d] = views[d] BY <2>2
    <3>2. Showing(views'[d]) = Showing(views[d]) BY <3>1
    <3> QED BY <3>1, <3>2, <1>3
  <2> QED BY <2>1, <2>2
<1> QED BY <1>1, <1>2, <1>4 DEF ConsoleInv

\* What a console shows of the program after a payload.
LEMMA ShowsAfter ==
    ASSUME TypeInv, NEW c \in ControlPages, NEW m \in Sent, NEW n, Numbered(m, n), NEW v \in Shows(c, m)
    PROVE  Showing(v) = After(Showing(views[c]), m)
<1> DEFINE u == views[c]
           w == Marked(u, m)
           T == [row : RowOrNothing, seen : Int, sound : SceneOrNothing, heard : Int, cut : RowOrNothing]
<1>1. u \in T BY DEF TypeInv, PagesTyped, View, Clients
<1>2. m.version \in Int BY DEF Sent, Payload
<1>3. Showing(u).row = u.row /\ Showing(u).seen = u.seen BY DEF Showing
<1>4. v = IF Fresh(u, m) THEN ConsoleShows(w, m) ELSE u BY DEF Shows
<1> HIDE DEF u
<1>5. CASE m.kind = "instant"
  <2>1. w \in [row : RowOrNothing, seen : Int, sound : SceneOrNothing, heard : Int, cut : RowOrNothing]
        /\ w.row = u.row /\ w.seen = u.seen
    BY <1>1, <1>2, <1>5 DEF Marked
  <2> HIDE DEF w
  <2>2. ConsoleShows(w, m) = [w EXCEPT !.sound = m.sound] BY <1>5 DEF ConsoleShows
  <2>3. v.row = u.row /\ v.seen = u.seen BY <2>1, <2>2, <1>4
  <2> QED BY <2>3, <1>5 DEF After, Showing, u
<1>6. CASE m.kind = "fade"
  <2>1. m.version = -1 /\ Fresh(u, m) /\ w = u BY <1>6 DEF Numbered, Fresh, Marked
  <2>2. v = [u EXCEPT !.row = m.row] BY <2>1, <1>4, <1>6 DEF ConsoleShows
  <2>3. v.row = m.row /\ v.seen = u.seen BY <2>2, <1>1
  <2>4. After(Showing(u), m) = [Showing(u) EXCEPT !.row = m.row] BY <1>6 DEF After
  <2>5. [Showing(u) EXCEPT !.row = m.row] = [row |-> m.row, seen |-> u.seen] BY DEF Showing
  <2> QED BY <2>3, <2>4, <2>5 DEF Showing, u
<1>7. CASE m.kind \notin {"instant", "fade"}
  <2>1. m.version \in Nat BY <1>7 DEF Numbered
  <2>2. Fresh(u, m) <=> ~(m.version <= u.seen) BY <2>1, <1>1, <1>7 DEF Fresh
  <2>3. CASE m.version <= u.seen
    <3>1. v = u BY <2>2, <2>3, <1>4
    <3>2. After(Showing(u), m) = Showing(u) BY <2>3, <1>3, <1>7 DEF After
    <3> QED BY <3>1, <3>2 DEF u
  <2>4. CASE ~(m.version <= u.seen)
    <3>1. v = ConsoleShows(w, m) BY <2>2, <2>4, <1>4
    <3>2. w = [u EXCEPT !.seen = m.version] BY <2>1, <1>7 DEF Marked
    <3>3. w.row = u.row /\ w.seen = m.version BY <3>2, <1>1
    <3>4. w \in T BY <3>2, <1>1, <1>2
    <3> HIDE DEF w
    <3>5. CASE m.kind = "staged"
      <4>1. v.seen = m.version
            /\ v.row = IF u.row = Nothing THEN Nothing ELSE [u.row EXCEPT !.staged = m.staged]
        BY <3>1, <3>3, <3>4, <3>5 DEF ConsoleShows
      <4>2. After(Showing(u), m) = [row |-> v.row, seen |-> v.seen] BY <4>1, <3>5, <2>4, <1>3 DEF After
      <4> QED BY <4>2 DEF Showing, u
    <3>6. CASE m.kind # "staged"
      <4>1. v = [w EXCEPT !.row = m.row] BY <3>1, <3>6, <1>7 DEF ConsoleShows
      <4>2. v.row = m.row /\ v.seen = m.version BY <4>1, <3>3, <3>4
      <4>3. After(Showing(u), m) = [row |-> v.row, seen |-> v.seen] BY <4>2, <3>6, <2>4, <1>3, <1>7 DEF After
      <4> QED BY <4>3 DEF Showing, u
    <3> QED BY <3>5, <3>6
  <2> QED BY <2>3, <2>4
<1> QED BY <1>5, <1>6, <1>7

\* A client's connection.
LEMMA ClientLinks ==
    ASSUME TypeInv, ConsoleInv, FadesArrive, NEW c \in Clients,
           Connect(c) \/ SendSnapshot(c) \/ DropStream(c) \/ DeliverEvent(c)
    PROVE  ConsoleInv'
<1> DEFINE s == streams[c]
           r == Showing(views[c])
           n == versions.state
           R == Lagging
<1>1. UNCHANGED <<program, versions, changes>>
  BY DEF Connect, SendSnapshot, DropStream, DeliverEvent
<1>2. \A d \in ControlPages : d # c => streams'[d] = streams[d] /\ views'[d] = views[d]
  <2>1. ControlPages \subseteq Clients BY DEF Clients
  <2> QED BY <2>1 DEF TypeInv, StreamsTyped, PagesTyped, Connect, SendSnapshot, DropStream, DeliverEvent
<1>3. /\ s \in Stream /\ r \in Show /\ n \in Nat /\ R \in SUBSET ProgramRow
      /\ s.phase = "opening" => s.read \in ProgramRow
  BY DEF TypeInv, StreamsTyped, Opening, PagesTyped, View, Show, Showing, VersionsTyped, Lagging
<1>4. SUFFICES ASSUME c \in ControlPages PROVE Linked(streams'[c], Showing(views'[c]), n, R)
  BY <1>1, <1>2, OneConsoleMoves
<1>5. Linked(s, r, n, R) BY <1>4 DEF ConsoleInv
<1>6. CASE Connect(c)
  <2> DEFINE t == [phase |-> "opening", read |-> program, queue |-> <<>>]
  <2>1. streams'[c] = t /\ Showing(views'[c]) = r /\ s.phase = "down"
    BY <1>6 DEF Connect, TypeInv, StreamsTyped
  <2>2. program \in R BY DEF TypeInv, RowsTyped, Lagging
  <2> HIDE DEF r, n, R, s
  <2>3. Linked(t, r, n, R) BY <1>3, <1>5, <2>1, <2>2, LinkedOpens
  <2> QED BY <2>1, <2>3
<1>7. CASE SendSnapshot(c)
  <2> DEFINE m == [Message("snapshot") EXCEPT !.row = s.read, !.version = n]
             t == [phase |-> "open", read |-> Nothing, queue |-> <<m>> \o s.queue]
  <2>1. streams'[c] = t /\ Showing(views'[c]) = r /\ s.phase = "opening"
    BY <1>7 DEF SendSnapshot, TypeInv, StreamsTyped
  <2>2. m.kind = "snapshot" /\ m.row = s.read /\ m.version = n BY DEF Message
  <2>3. m \in Sent
    <3>1. s.read \in ProgramRow /\ n \in Int BY <2>1, <1>3
    <3> HIDE DEF s, n
    <3> QED BY <3>1, SnapshotTyped
  <2> HIDE DEF r, n, R, s, m
  <2>4. Linked(t, r, n, R) BY <1>3, <1>5, <2>1, <2>2, <2>3, LinkedStarts
  <2> QED BY <2>1, <2>4
<1>8. CASE DropStream(c)
  <2>1. streams'[c] = Down /\ Showing(views'[c]) = r /\ s.phase # "down"
    BY <1>8 DEF DropStream, TypeInv, StreamsTyped
  <2>2. s.phase \in {"opening", "open"} BY <2>1, <1>3 DEF Stream
  <2>3. \A m \in On(s.queue) : m.kind # "fade" BY <1>4, <1>8 DEF FadesArrive
  <2> HIDE DEF r, n, R, s
  <2>4. Linked(Down, r, n, R) BY <1>3, <1>5, <2>2, <2>3, LinkedBreaks
  <2> QED BY <2>1, <2>4
<1>9. CASE DeliverEvent(c)
  <2> DEFINE m == Head(s.queue)
             t == [s EXCEPT !.queue = Tail(@)]
  <2>1. streams'[c] = t /\ s.phase = "open" /\ s.queue # <<>>
    BY <1>9 DEF DeliverEvent, TypeInv, StreamsTyped
  <2>2. PICK v \in Shows(c, m) : views' = [views EXCEPT ![c] = v] BY <1>9 DEF DeliverEvent
  <2>3. views'[c] = v BY <2>2 DEF TypeInv, PagesTyped
  <2>4. m \in Sent /\ m \in On(s.queue)
    <3>1. s.queue \in Seq(Sent) BY <1>3 DEF Stream
    <3> QED BY <3>1, <2>1, TailKeeps
  <2>5. Numbered(m, n) BY <1>5, <2>4 DEF Linked
  <2>6. Showing(v) = After(r, m) BY <1>4, <2>2, <2>4, <2>5, ShowsAfter
  <2> HIDE DEF r, n, R, s
  <2>7. Linked(t, After(r, m), n, R) BY <1>3, <1>5, <2>1, LinkedDelivers
  <2> QED BY <2>1, <2>3, <2>6, <2>7
<1> QED BY <1>6, <1>7, <1>8, <1>9

\* The polls are the renderers'.
LEMMA PollLinks ==
    ASSUME TypeInv, ConsoleInv,
           \/ \E c \in Renderers : PollState(c) \/ PollInstant(c) \/ MakeCut(c)
           \/ \E p \in polls : PollAnswered(p) \/ DeliverPoll(p)
    PROVE  ConsoleInv'
<1>1. UNCHANGED <<program, versions, changes, streams>>
  BY DEF PollState, PollInstant, MakeCut, PollAnswered, DeliverPoll
<1>2. \A c \in ControlPages : c \in Clients /\ c \notin Renderers BY RealtimeAssumption DEF Clients
<1>3. ASSUME NEW c \in ControlPages PROVE views'[c] = views[c]
  <2>1. ASSUME NEW d \in Renderers, MakeCut(d) PROVE views'[c] = views[c]
    BY <2>1, <1>2 DEF MakeCut, TypeInv, PagesTyped
  <2>2. ASSUME NEW p \in polls, DeliverPoll(p) PROVE views'[c] = views[c]
    <3>1. p.from \in Renderers BY DEF TypeInv, PagesTyped, Poll
    <3> QED BY <3>1, <2>2, <1>2 DEF DeliverPoll, TypeInv, PagesTyped
  <2> QED BY <2>1, <2>2 DEF PollState, PollInstant, PollAnswered
<1>4. \A o \in Mutators : KnowsRow(changes[o])' BY <1>1 DEF ConsoleInv, KnowsRow
<1>5. Lagging' = Lagging BY <1>1 DEF Lagging
<1>6. \A c \in ControlPages : streams'[c] = streams[c] /\ Showing(views'[c]) = Showing(views[c])
  BY <1>1, <1>3
<1> QED BY <1>1, <1>4, <1>5, <1>6, ConsolesWait

\* The handlers.
LEMMA MutatorLinks ==
    ASSUME OneMutator, TypeInv, ConsoleInv, FadesArrive, ReadsAnswered, NEW o \in Mutators, MutatorStep(o)
    PROVE  ConsoleInv'
<1>1. CASE Announce(o) BY <1>1, AnnouncementLinks
<1>2. CASE ~Announce(o)
  <2>1. Lagging \subseteq Lagging' /\ \A p \in Mutators : KnowsRow(changes[p])' BY <1>2, HandlersInform
  <2>2. ASSUME UNCHANGED <<versions, streams, views>> PROVE ConsoleInv'
    BY <2>1, <2>2, ConsolesWait
  <2>3. ASSUME NEW s \in SceneOrNothing, NEW b \in BOOLEAN, NEW h \in BOOLEAN,
             Background(s, b, h), views' = views
      PROVE  ConsoleInv'
    <3> DEFINE sound == IF b THEN s ELSE Nothing
               m == [Message("instant") EXCEPT !.sound = sound]
    <3>1. sound \in SceneOrNothing /\ "instant" \in PayloadKinds BY DEF SceneOrNothing, PayloadKinds
    <3>2. Broadcast(m) BY <2>3 DEF Background
    <3> HIDE DEF sound
    <3>3. m \in Sent BY <3>1, MessagesTyped
    <3>4. m.kind = "instant" BY DEF Message
    <3> HIDE DEF m
    <3> QED BY <3>2, <3>3, <3>4, <2>1, <2>3, SoundLinks
  <2>4. CASE Hush(o)
    <3> DEFINE b == FALSE
    <3>1. Background(background.scene, b, b) /\ views' = views BY <2>4 DEF Hush
    <3>2. background.scene \in SceneOrNothing /\ b \in BOOLEAN BY DEF TypeInv, SoundTyped
    <3> HIDE DEF b
    <3> QED BY <3>1, <3>2, <2>3
  <2>5. CASE StartBackground(o)
    <3> DEFINE b == TRUE
               s == changes[o].scene
               h == changes[o].kind = "play"
    <3>1. Background(s, b, h) /\ views' = views BY <2>5 DEF StartBackground
    <3>2. s \in SceneOrNothing /\ b \in BOOLEAN /\ h \in BOOLEAN BY DEF TypeInv, ChangesTyped, Change
    <3> HIDE DEF b, s, h
    <3> QED BY <3>1, <3>2, <2>3
  <2>6. CASE \/ \E s \in Scenes : ActivateScene(o, s) \/ AddScene(o, s) \/ RemoveScene(o, s)
             \/ \E s \in SceneOrNothing : StageScene(o, s)
             \/ \E b \in BOOLEAN : SetFadeToBlack(o, b)
             \/ \E s \in Scenes : TakeSceneInstant(o, s)
             \/ TakeProgramOffAir(o) \/ StopSceneInstant(o)
    BY <2>2, <2>6 DEF ActivateScene, AddScene, RemoveScene, StageScene, SetFadeToBlack, TakeProgramOffAir,
               TakeSceneInstant, StopSceneInstant, Start
  <2>7. CASE \/ WriteRow(o) \/ ClearReferences(o) \/ ReadForBroadcast(o) \/ Decide(o)
             \/ FadeElapses(o) \/ FindBackground(o) \/ BackgroundFails(o)
    BY <2>2, <2>7 DEF WriteRow, ClearReferences, ReadForBroadcast, Decide, Decides, FadeElapses, FindBackground,
             BackgroundFails
  <2> QED BY <1>2, <2>4, <2>5, <2>6, <2>7 DEF MutatorStep
<1> QED BY <1>1, <1>2

\* A step that keeps the consoles linked.
LEMMA ConsoleStep ==
    ASSUME OneMutator, TypeInv, ConsoleInv, [RealtimeNext]_realtimeVars,
           [~RestartBackend /\ FadesArrive /\ ReadsAnswered]_realtimeVars
    PROVE  ConsoleInv'
<1>1. CASE UNCHANGED realtimeVars
  <2>1. \A o \in Mutators : KnowsRow(changes[o])' BY <1>1 DEF ConsoleInv, KnowsRow, realtimeVars
  <2>2. Lagging' = Lagging BY <1>1 DEF Lagging, realtimeVars
  <2>3. UNCHANGED <<versions, streams, views>> BY <1>1 DEF realtimeVars
  <2> QED BY <2>1, <2>2, <2>3, ConsolesWait
<1>2. CASE RealtimeNext /\ ~RestartBackend /\ FadesArrive /\ ReadsAnswered
  BY <1>2, MutatorLinks, ClientLinks, PollLinks DEF RealtimeNext
<1> QED BY <1>1, <1>2

\* Operators who take turns never leave a console behind: once the change is announced and its
\* stream has nothing left to deliver, it shows the program, for any number of consoles and
\* changes, whenever they connected, whatever events a broken stream took with it and whatever
\* was announced while a snapshot was read.  The announcements of a fade, which carry no
\* version, have to reach it; no announcement may overtake its read; and the process runs on.
THEOREM ConsolesStayCurrent ==
    ASSUME OneMutator
    PROVE  RealtimeSpec /\ [][~RestartBackend /\ FadesArrive /\ ReadsAnswered]_realtimeVars
             => []ConsoleIsCurrent
<1>1. RealtimeInit => ConsoleInv
  <2> SUFFICES ASSUME RealtimeInit PROVE ConsoleInv OBVIOUS
  <2>1. \A o \in Mutators : KnowsRow(changes[o]) BY DEF RealtimeInit, KnowsRow, NoChange
  <2>2. ASSUME NEW c \in ControlPages
        PROVE  Linked(streams[c], Showing(views[c]), versions.state, Lagging)
    <3>1. c \in Clients BY DEF Clients
    <3>2. streams[c] = Down /\ views[c].seen = -1 /\ versions.state = 0 BY <3>1 DEF RealtimeInit
    <3>3. Down.phase = "down" /\ On(Down.queue) = {} BY DEF Down, On
    <3>4. Showing(views[c]).seen = -1 BY <3>2 DEF Showing
    <3> QED BY <3>2, <3>3, <3>4 DEF Linked, WhenDown, WhenOpening, WhenOpen, Current
  <2> QED BY <2>1, <2>2 DEF ConsoleInv
<1>2. TypeInv /\ ConsoleInv /\ [RealtimeNext]_realtimeVars
      /\ [~RestartBackend /\ FadesArrive /\ ReadsAnswered]_realtimeVars => ConsoleInv'
  BY ConsoleStep
<1>3. TypeInv /\ ConsoleInv => ConsoleIsCurrent
  <2> SUFFICES ASSUME TypeInv, ConsoleInv, NothingChanges, NEW c \in ControlPages, Drained(c)
               PROVE  views[c].row = program
    BY DEF ConsoleIsCurrent
  <2> DEFINE s == streams[c]
             r == Showing(views[c])
             n == versions.state
             R == Lagging
  <2>1. Linked(s, r, n, R) BY DEF ConsoleInv
  <2>2. R = {program} BY DEF Lagging, NothingChanges, Free, Written, TypeInv, RowsTyped
  <2>3. s.phase = "open" /\ s.queue = <<>> /\ r.row = views[c].row BY DEF Drained, Showing
  <2> HIDE DEF s, r, n, R
  <2>4. r.row \in R BY <2>1, <2>3, LinkedDrained
  <2> QED BY <2>2, <2>3, <2>4
<1> QED BY <1>1, <1>2, <1>3, RealtimeTyped, PTL DEF RealtimeSpec

================================================================================
