----------------------------- MODULE ServicesProofs -----------------------------
(***************************************************************************)
(* Theorems about the services that share no state with one another: the   *)
(* guests of a program, an operator's preferences and, from                *)
(* ProgramRealtimeProofs, the realtime delivery.                           *)
(*                                                                         *)
(* GuestInvitations, for every set of invitations, slots, pages,           *)
(* operators, sessions and commands and every budget, is well typed, a     *)
(* slot belongs to one invitation, and the overlapping handlers implement  *)
(* the exclusive lease of SessionLease.                                    *)
(*                                                                         *)
(* OperatorPreferences, for any consoles, sign-in subjects and budgets, is *)
(* well typed, and a save never silently replaces a profile its console    *)
(* was not shown.                                                          *)
(*                                                                         *)
(* Side by side, as TLC explores them, each behaves as its own             *)
(* specification says, whatever the two others do, so its theorems hold of *)
(* the three together.                                                     *)
(***************************************************************************)
EXTENDS MC_Services, ProgramRealtimeProofs, FiniteSetTheorems

--------------------------------------------------------------------------------
\* Guests

\* A claim names a session.
ClaimsAreNamed == \A c \in Callers : calls[c].step = "claim" => calls[c].session \in Sessions

----------------------------------------------------------------------------
(* Type correctness. *)

\* The initial state is well typed.
LEMMA InitTypeOK == GuestInit => GuestTypeOK
BY GuestAssumption
   DEF GuestInit, GuestTypeOK, Row, Tab, Call, CommandRow, Pages, Steps, Ops, Idle, Callers, GuestKinds

\* A request that ends or moves to another step stays well typed, and so does one that begins.
LEMMA CallChanges ==
    ASSUME calls \in [Callers -> Call], NEW c \in Callers
    PROVE  /\ Done(c) => calls' \in [Callers -> Call]
           /\ \A step \in Steps : Go(c, step) => calls' \in [Callers -> Call]
           /\ \A call \in Call : Begin(c, call) => calls' \in [Callers -> Call]
<1>1. Idle \in Call BY DEF Idle, Call, Ops, Steps
<1>2. \A step \in Steps : [calls[c] EXCEPT !.step = step] \in Call BY DEF Call
<1> QED BY <1>1, <1>2 DEF Done, Go, Begin

\* Spending keeps the budget well typed.
LEMMA AffordKeeps ==
    ASSUME guestBudget \in [GuestKinds -> Nat], NEW kind \in GuestKinds, Afford(kind)
    PROVE  guestBudget' \in [GuestKinds -> Nat]
BY DEF Afford

\* A page that is thrown out of the room stays well typed.
LEMMA EjectedKeeps ==
    ASSUME tabs \in [Tabs -> Tab], NEW i
    PROVE  Ejected(i) \in [Tabs -> Tab]
<1>1. \A t \in Tabs : [tabs[t] EXCEPT !.page = "ended"] \in Tab BY DEF Tab, Pages
<1> QED BY <1>1 DEF Ejected

\* The edits of a row that the handlers make leave a row.
LEMMA RowEdits ==
    ASSUME NEW r \in Row, NEW slot \in Slots \cup {None}, NEW s \in Sessions \cup {None}
    PROVE  /\ [r EXCEPT !.made = TRUE, !.slot = slot] \in Row
           /\ [r EXCEPT !.revoked = TRUE, !.slot = None, !.session = None, !.open = FALSE] \in Row
           /\ [r EXCEPT !.session = s, !.open = TRUE] \in Row
           /\ [r EXCEPT !.session = None, !.open = FALSE] \in Row
           /\ [r EXCEPT !.open = TRUE] \in Row
           /\ [r EXCEPT !.open = FALSE] \in Row
           /\ [r EXCEPT !.expired = TRUE] \in Row
BY DEF Row

\* The edits of a page that the handlers make leave a page.
LEMMA TabEdits ==
    ASSUME NEW t \in Tab, NEW page \in Pages, NEW b \in BOOLEAN,
           NEW i \in Invitations \cup {None}, NEW s \in Sessions \cup {None}
    PROVE  /\ [t EXCEPT !.page = page] \in Tab
           /\ [t EXCEPT !.page = page, !.on = i] \in Tab
           /\ [t EXCEPT !.session = s, !.page = page] \in Tab
           /\ [t EXCEPT !.page = page, !.beating = b] \in Tab
           /\ [t EXCEPT !.beating = b, !.page = page] \in Tab
BY DEF Tab

\* The requests that begin are well-typed calls.
LEMMA Calls ==
    ASSUME NEW op \in Ops, NEW step \in Steps, NEW i \in Invitations \cup {None},
           NEW slot \in Slots \cup {None}, NEW s \in Sessions \cup {None}, NEW k \in Commands \cup {None}
    PROVE  [op |-> op, step |-> step, inv |-> i, slot |-> slot, session |-> s, command |-> k] \in Call
BY DEF Call

\* The steps of an operator's requests keep the state well typed.
LEMMA OperatorsTypeOK ==
    ASSUME GuestTypeOK, NEW o \in Operators,
           \/ \E s \in Slots \cup {None} : CreateInvitation(o, s)
           \/ \E i \in Invitations : RevokeInvitation(o, i) \/ ReplaceInvitation(o, i) \/ RemoveParticipant(o, i)
           \/ \E i \in Invitations, op \in {"message", "mute"}, k \in Commands : ControlParticipant(o, i, op, k)
           \/ OperatorStep(o)
           \/ RoomFails(o) \/ DisconnectFails(o) \/ SendFails(o)
    PROVE  GuestTypeOK'
<1> o \in Callers BY DEF Callers
<1> calls \in [Callers -> Call] /\ guestBudget \in [GuestKinds -> Nat] /\ calls[o] \in Call BY DEF GuestTypeOK
<1>1. ASSUME NEW s \in Slots \cup {None}, CreateInvitation(o, s) PROVE GuestTypeOK'
  <2>1. [Idle EXCEPT !.op = "create", !.step = "resolve", !.slot = s] \in Call BY DEF Idle, Call, Ops, Steps
  <2> QED BY <1>1, <2>1, CallChanges, AffordKeeps DEF CreateInvitation, GuestTypeOK, GuestKinds
<1>2. ASSUME NEW i \in Invitations, RevokeInvitation(o, i) PROVE GuestTypeOK'
  <2>1. Revoking(o, "revoke", i, None) \in Call BY DEF Revoking, Idle, Call, Ops, Steps
  <2> QED BY <1>2, <2>1, CallChanges, AffordKeeps DEF RevokeInvitation, GuestTypeOK, GuestKinds
<1>3. ASSUME NEW i \in Invitations, ReplaceInvitation(o, i) PROVE GuestTypeOK'
  <2>1. invitations[i].slot \in Slots \cup {None} BY DEF GuestTypeOK, Row
  <2>2. [Idle EXCEPT !.op = "replace", !.step = "reread", !.inv = i, !.slot = invitations[i].slot] \in Call
    BY <2>1 DEF Idle, Call, Ops, Steps
  <2> QED BY <1>3, <2>2, CallChanges, AffordKeeps DEF ReplaceInvitation, GuestTypeOK, GuestKinds
<1>4. ASSUME NEW i \in Invitations, RemoveParticipant(o, i) PROVE GuestTypeOK'
  <2>1. [Idle EXCEPT !.op = "remove", !.step = "disconnect", !.inv = i] \in Call BY DEF Idle, Call, Ops, Steps
  <2> QED BY <1>4, <2>1, CallChanges, AffordKeeps DEF RemoveParticipant, GuestTypeOK, GuestKinds
<1>5. ASSUME NEW i \in Invitations, NEW op \in {"message", "mute"}, NEW k \in Commands, ControlParticipant(o, i, op, k)
      PROVE  GuestTypeOK'
  <2>1. [Idle EXCEPT !.op = op, !.step = "persist", !.inv = i, !.command = k] \in Call BY DEF Idle, Call, Ops, Steps
  <2> QED BY <1>5, <2>1, CallChanges, AffordKeeps DEF ControlParticipant, GuestTypeOK, GuestKinds
<1>6. ASSUME ResolveSlot(o) PROVE GuestTypeOK'
  <2>1. \A s \in Slots : [calls EXCEPT ![o].slot = s, ![o].step = "room"] \in [Callers -> Call]
    BY DEF Call, Steps
  <2>2. calls' \in [Callers -> Call]
    <3>1. CASE Done(o) BY <3>1, CallChanges
    <3>2. CASE \E s \in Slots : calls' = [calls EXCEPT ![o].slot = s, ![o].step = "room"] BY <3>2, <2>1
    <3> QED BY <1>6, <3>1, <3>2 DEF ResolveSlot, FoundSlots, FreeSlots
  <2> QED BY <1>6, <2>2 DEF ResolveSlot, GuestTypeOK
<1>7. ASSUME Insert(o) PROVE GuestTypeOK'
  <2>1. calls[o].slot \in Slots \cup {None} BY DEF Call
  <2>2. calls' \in [Callers -> Call] BY <1>7, CallChanges DEF Insert
  <2>3. CASE SlotIsUnused(calls[o].slot)
    <3>1. PICK i : invitations' = [invitations EXCEPT ![i].made = TRUE, ![i].slot = calls[o].slot]
                   /\ UNCHANGED refusal
      BY <1>7, <2>3 DEF Insert
    <3>2. invitations' \in [Invitations -> Row] BY <3>1, <2>1, RowEdits DEF GuestTypeOK
    <3> QED BY <1>7, <2>2, <3>1, <3>2 DEF Insert, GuestTypeOK
  <2>4. CASE ~SlotIsUnused(calls[o].slot)
    BY <1>7, <2>1, <2>2, <2>4 DEF Insert, GuestTypeOK
  <2> QED BY <2>3, <2>4
<1>8. ASSUME Reread(o) PROVE GuestTypeOK'
  <2>1. Revoking(o, "replace", Inv(o), calls[o].slot) \in Call BY DEF Revoking, Idle, Inv, Call, Ops, Steps
  <2> QED BY <1>8, <2>1 DEF Reread, GuestTypeOK
<1>9. ASSUME RevokeRow(o) PROVE GuestTypeOK'
  <2>1. calls' \in [Callers -> Call] BY <1>9, CallChanges DEF RevokeRow, Steps
  <2>2. invitations' \in [Invitations -> Row] BY <1>9, RowEdits DEF RevokeRow, GuestTypeOK
  <2> QED BY <1>9, <2>1, <2>2 DEF RevokeRow, GuestTypeOK
<1>10. ASSUME Disconnect(o) PROVE GuestTypeOK'
  <2>1. calls' \in [Callers -> Call] BY <1>10, CallChanges DEF Disconnect, Steps
  <2>2. tabs' \in [Tabs -> Tab] BY <1>10, EjectedKeeps DEF Disconnect, GuestTypeOK
  <2> QED BY <1>10, <2>1, <2>2 DEF Disconnect, GuestTypeOK
<1>11. ASSUME ReleaseSession(o) PROVE GuestTypeOK'
  <2>1. calls' \in [Callers -> Call] BY <1>11, CallChanges DEF ReleaseSession
  <2>2. invitations' \in [Invitations -> Row] BY <1>11, RowEdits DEF ReleaseSession, GuestTypeOK
  <2> QED BY <1>11, <2>1, <2>2 DEF ReleaseSession, GuestTypeOK
<1>12. ASSUME PersistCommand(o) \/ SendCommand(o) \/ MarkDelivered(o) \/ SendFails(o) PROVE GuestTypeOK'
  <2>1. calls' \in [Callers -> Call]
    BY <1>12, CallChanges DEF PersistCommand, SendCommand, MarkDelivered, SendFails, Steps
  <2>2. commands' \in [Commands -> CommandRow]
    <3> DEFINE k == calls[o].command
    <3>1. \A heard \in BOOLEAN : [commands EXCEPT ![k].heard = heard] \in [Commands -> CommandRow]
      BY DEF GuestTypeOK, CommandRow
    <3>2. \A status \in {"requested", "delivered", "failed"} :
              [commands EXCEPT ![k].status = status] \in [Commands -> CommandRow]
      BY DEF GuestTypeOK, CommandRow
    <3>3. CASE SendCommand(o)
      <4>1. (room[Inv(o)] # None /\ calls[o].op = "message") \in BOOLEAN OBVIOUS
      <4>2. \/ commands' = [commands EXCEPT ![k].status = "failed"]
            \/ commands' = [commands EXCEPT ![k].heard = (room[Inv(o)] # None /\ calls[o].op = "message")]
        BY <3>3 DEF SendCommand
      <4> HIDE DEF k
      <4> QED BY <3>1, <3>2, <4>1, <4>2, Zenon
    <3>4. CASE PersistCommand(o) BY <3>2, <3>4 DEF PersistCommand
    <3>5. CASE MarkDelivered(o) BY <3>2, <3>5 DEF MarkDelivered
    <3>6. CASE SendFails(o) BY <3>2, <3>6 DEF SendFails
    <3> QED BY <1>12, <3>3, <3>4, <3>5, <3>6
  <2>3. guestBudget' \in [GuestKinds -> Nat]
    BY <1>12, AffordKeeps DEF PersistCommand, SendCommand, MarkDelivered, SendFails, GuestKinds
  <2> QED BY <1>12, <2>1, <2>2, <2>3 DEF PersistCommand, SendCommand, MarkDelivered, SendFails, GuestTypeOK
<1>13. ASSUME RoomFails(o) \/ DisconnectFails(o) PROVE GuestTypeOK'
  BY <1>13, CallChanges, AffordKeeps DEF RoomFails, DisconnectFails, GuestTypeOK, GuestKinds
<1> QED BY <1>1, <1>2, <1>3, <1>4, <1>5, <1>6, <1>7, <1>8, <1>9, <1>10, <1>11, <1>12, <1>13 DEF OperatorStep

\* The steps of a page and its requests keep the state well typed.
LEMMA GuestsTypeOK ==
    ASSUME GuestTypeOK, NEW t \in Tabs,
           \/ \E i \in Invitations : Join(t, i)
           \/ \E k \in Commands : Acknowledge(t, k)
           \/ EnterRoom(t) \/ Leave(t) \/ Heartbeat(t)
           \/ GuestStep(t)
           \/ IssueLost(t) \/ DeviceFails(t) \/ DropOut(t)
    PROVE  GuestTypeOK'
<1> t \in Callers BY DEF Callers
<1> calls \in [Callers -> Call] /\ guestBudget \in [GuestKinds -> Nat] /\ calls[t] \in Call BY DEF GuestTypeOK
<1> tabs \in [Tabs -> Tab] /\ tabs[t] \in Tab BY DEF GuestTypeOK
<1>0. /\ tabs[t].on \in Invitations \cup {None} /\ tabs[t].session \in Sessions \cup {None}
      /\ tabs[t].beating \in BOOLEAN /\ tabs[t].page \in Pages
      /\ calls[t].session \in Sessions \cup {None}
  BY DEF Tab, Call
<1>1. ASSUME NEW i \in Invitations, Join(t, i) PROVE GuestTypeOK'
  <2>1. [Idle EXCEPT !.op = "join", !.step = "verify", !.inv = i, !.session = tabs[t].session] \in Call
    BY <1>0 DEF Idle, Call, Ops, Steps
  <2>2. calls' \in [Callers -> Call] BY <1>1, <2>1, CallChanges DEF Join
  <2>3. tabs' \in [Tabs -> Tab] BY <1>1, TabEdits DEF Join, Pages
  <2> QED BY <1>1, <2>2, <2>3, AffordKeeps DEF Join, GuestTypeOK, GuestKinds
<1>2. ASSUME NEW k \in Commands, Acknowledge(t, k) PROVE GuestTypeOK'
  <2>1. [Idle EXCEPT !.op = "acknowledge", !.step = "check", !.inv = tabs[t].on, !.session = tabs[t].session,
                     !.command = k] \in Call
    BY <1>0 DEF Idle, Call, Ops, Steps
  <2>2. calls' \in [Callers -> Call] BY <1>2, <2>1, CallChanges DEF Acknowledge
  <2>3. commands' \in [Commands -> CommandRow] BY <1>2 DEF Acknowledge, GuestTypeOK, CommandRow
  <2> QED BY <1>2, <2>2, <2>3 DEF Acknowledge, GuestTypeOK
<1>3. ASSUME NEW page \in Pages, NEW beating \in BOOLEAN, Admitted(t, page, beating)
      PROVE  tabs' \in [Tabs -> Tab] /\ (room \in [Invitations -> Tabs \cup {None}]
                 => room' \in [Invitations -> Tabs \cup {None}])
  <2>1. Ejected(tabs[t].on) \in [Tabs -> Tab] BY EjectedKeeps
  <2>2. tabs' \in [Tabs -> Tab] BY <1>3, <2>1, TabEdits DEF Admitted
  <2> QED BY <1>3, <2>2 DEF Admitted
<1>4. ASSUME EnterRoom(t) PROVE GuestTypeOK'
  BY <1>3, <1>4 DEF EnterRoom, GuestTypeOK, Pages
<1>5. ASSUME DeviceFails(t) PROVE GuestTypeOK'
  BY <1>0, <1>3, <1>5, AffordKeeps DEF DeviceFails, GuestTypeOK, Pages, GuestKinds
<1>6. LeavesRoom(t) \in [Invitations -> Tabs \cup {None}] BY DEF LeavesRoom, GuestTypeOK
<1>7. ASSUME Leave(t) \/ DropOut(t) PROVE GuestTypeOK'
  <2>1. tabs' \in [Tabs -> Tab] BY <1>7, TabEdits DEF Leave, DropOut, Pages
  <2> QED BY <1>6, <1>7, <2>1, AffordKeeps DEF Leave, DropOut, GuestTypeOK, GuestKinds
<1>8. ASSUME Heartbeat(t) PROVE GuestTypeOK'
  <2>1. [Idle EXCEPT !.op = "beat", !.step = "check", !.inv = tabs[t].on, !.session = tabs[t].session] \in Call
    BY <1>0 DEF Idle, Call, Ops, Steps
  <2> QED BY <1>8, <2>1, CallChanges DEF Heartbeat, GuestTypeOK
<1>9. ASSUME Refuse(t) PROVE calls' \in [Callers -> Call] /\ tabs' \in [Tabs -> Tab]
  <2>1. (IF tabs[t].page = "joining" THEN "ready" ELSE tabs[t].page) \in Pages BY <1>0 DEF Pages
  <2>2. tabs' \in [Tabs -> Tab] BY <1>9, <2>1, TabEdits DEF Refuse
  <2> QED BY <1>9, <2>2, CallChanges DEF Refuse
<1>10. ASSUME Verify(t) PROVE GuestTypeOK'
  <2>1. CASE ~Live(Inv(t)) BY <1>9, <1>10, <2>1 DEF Verify, GuestTypeOK
  <2>2. CASE Live(Inv(t))
    <3>1. PICK s \in Sessions : calls' = [calls EXCEPT ![t].session = s, ![t].step = "claim"]
                                /\ issued' = issued \cup {s} /\ UNCHANGED tabs
      BY <1>10, <2>2 DEF Verify
    <3>2. calls' \in [Callers -> Call] BY <3>1 DEF Call, Steps
    <3> QED BY <1>10, <3>1, <3>2 DEF Verify, GuestTypeOK
  <2> QED BY <2>1, <2>2
<1>11. ASSUME Claim(t) PROVE GuestTypeOK'
  <2>1. CASE ~MayClaim(Inv(t), calls[t].session) BY <1>9, <1>11, <2>1 DEF Claim, GuestTypeOK
  <2>2. CASE MayClaim(Inv(t), calls[t].session)
    <3>1. calls' \in [Callers -> Call] BY <1>11, <2>2, CallChanges DEF Claim, Steps
    <3>2. invitations' = [invitations EXCEPT ![Inv(t)].session = calls[t].session, ![Inv(t)].open = TRUE]
      BY <1>11, <2>2 DEF Claim
    <3>3. \A r \in Row : [r EXCEPT !.session = calls[t].session, !.open = TRUE] \in Row BY <1>0 DEF Row
    <3>4. \A i \in Invitations : invitations'[i] \in Row
      <4> TAKE i \in Invitations
      <4>1. CASE i = Inv(t) BY <3>2, <3>3, <4>1 DEF GuestTypeOK
      <4>2. CASE i # Inv(t) BY <3>2, <4>2 DEF GuestTypeOK
      <4> QED BY <4>1, <4>2
    <3>5. invitations' \in [Invitations -> Row] BY <3>2, <3>4 DEF GuestTypeOK
    <3> QED BY <1>11, <2>2, <3>1, <3>5 DEF Claim, GuestTypeOK
  <2> QED BY <2>1, <2>2
<1>12. ASSUME Issue(t) PROVE GuestTypeOK'
  <2>1. tabs' \in [Tabs -> Tab] BY <1>0, <1>12, TabEdits DEF Issue, Pages
  <2> QED BY <1>12, <2>1, CallChanges DEF Issue, GuestTypeOK
<1>13. ASSUME IssueLost(t) PROVE GuestTypeOK'
  BY <1>9, <1>13, AffordKeeps DEF IssueLost, GuestTypeOK, GuestKinds
<1>14. ASSUME CheckSession(t) PROVE GuestTypeOK'
  <2>1. calls' \in [Callers -> Call] BY <1>14, CallChanges DEF CheckSession, Steps
  <2>2. tabs' \in [Tabs -> Tab]
    <3>1. (IF tabs[t].page = "live" THEN "ended" ELSE tabs[t].page) \in Pages BY <1>0 DEF Pages
    <3>2. tabs' = tabs \/ tabs' = [tabs EXCEPT ![t].beating = FALSE,
                                              ![t].page = IF @ = "live" THEN "ended" ELSE @]
      BY <1>14 DEF CheckSession
    <3>3. \A u \in Tabs : tabs'[u] \in Tab
      <4> TAKE u \in Tabs
      <4>1. CASE u = t
        <5>1. [tabs[t] EXCEPT !.beating = FALSE, !.page = IF tabs[t].page = "live" THEN "ended" ELSE tabs[t].page]
                  \in Tab
          BY <3>1 DEF Tab
        <5> QED BY <3>2, <4>1, <5>1
      <4>2. CASE u # t BY <3>2, <4>2
      <4> QED BY <4>1, <4>2
    <3> QED BY <3>2, <3>3
  <2>3. room' \in [Invitations -> Tabs \cup {None}] BY <1>6, <1>14 DEF CheckSession, GuestTypeOK
  <2> QED BY <1>14, <2>1, <2>2, <2>3 DEF CheckSession, GuestTypeOK
<1>15. ASSUME Renew(t) PROVE GuestTypeOK'
  <2>0. \A r \in Row : [r EXCEPT !.open = TRUE] \in Row BY DEF Row
  <2>2. invitations' = [invitations EXCEPT ![Inv(t)].open = TRUE] BY <1>15 DEF Renew
  <2>3. \A i \in Invitations : invitations'[i] \in Row
    <3> TAKE i \in Invitations
    <3>1. CASE i = Inv(t) BY <2>0, <2>2, <3>1 DEF GuestTypeOK
    <3>2. CASE i # Inv(t) BY <2>2, <3>2 DEF GuestTypeOK
    <3> QED BY <3>1, <3>2
  <2>1. invitations' \in [Invitations -> Row] BY <2>2, <2>3 DEF GuestTypeOK
  <2> QED BY <1>15, <2>1, CallChanges DEF Renew, GuestTypeOK
<1>16. ASSUME FindCommand(t) \/ AnswerCommand(t) PROVE GuestTypeOK'
  <2>1. calls' \in [Callers -> Call] BY <1>16, CallChanges DEF FindCommand, AnswerCommand, Steps
  <2>2. commands' \in [Commands -> CommandRow] BY <1>16 DEF FindCommand, AnswerCommand, GuestTypeOK, CommandRow
  <2> QED BY <1>16, <2>1, <2>2 DEF FindCommand, AnswerCommand, GuestTypeOK
<1> QED BY <1>1, <1>2, <1>4, <1>5, <1>7, <1>8, <1>10, <1>11, <1>12, <1>13, <1>14, <1>15, <1>16 DEF GuestStep

\* Time keeps the state well typed.
LEMMA TimeTypeOK ==
    ASSUME GuestTypeOK, NEW i \in Invitations, Lapse(i) \/ Expire(i)
    PROVE  GuestTypeOK'
<1>0. \A r \in Row : [r EXCEPT !.open = FALSE] \in Row /\ [r EXCEPT !.expired = TRUE] \in Row BY DEF Row
<1>1. invitations' \in [Invitations -> Row]
  <2>1. CASE Lapse(i) BY <1>0, <2>1 DEF Lapse, GuestTypeOK
  <2>2. CASE Expire(i) BY <1>0, <2>2 DEF Expire, GuestTypeOK
  <2> QED BY <2>1, <2>2
<1>2. guestBudget' \in [GuestKinds -> Nat] BY AffordKeeps DEF Lapse, Expire, GuestTypeOK, GuestKinds
<1> QED BY <1>1, <1>2 DEF Lapse, Expire, GuestTypeOK

\* Every step of the specification is one of the three kinds.
LEMMA StepTypeOK == GuestTypeOK /\ [GuestNext]_guestVars => GuestTypeOK'
<1> SUFFICES ASSUME GuestTypeOK, [GuestNext]_guestVars PROVE GuestTypeOK' OBVIOUS
<1>1. CASE UNCHANGED guestVars BY <1>1 DEF guestVars, GuestTypeOK
<1>2. CASE GuestNext BY <1>2, OperatorsTypeOK, GuestsTypeOK, TimeTypeOK DEF GuestNext, GuestFaults
<1> QED BY <1>1, <1>2

\* The guests' state is well typed in every reachable state.
THEOREM GuestTypeCorrect == GuestSpec => []GuestTypeOK
BY InitTypeOK, StepTypeOK, PTL DEF GuestSpec

----------------------------------------------------------------------------
(* The slots are exclusive: only an insertion gives one out, where no row holds it. *)

\* The steps that write a row, each to its own row only.
RowStep ==
    \/ \E o \in Operators : Insert(o) \/ RevokeRow(o) \/ ReleaseSession(o)
    \/ \E t \in Tabs : Claim(t) \/ Renew(t)
    \/ \E i \in Invitations : Lapse(i) \/ Expire(i)

\* No other step touches the rows.
LEMMA RowStepsOnly == [GuestNext]_guestVars => RowStep \/ UNCHANGED invitations
BY DEF GuestNext, guestVars, GuestFaults, OperatorStep, GuestStep, RowStep,
       CreateInvitation, RevokeInvitation, ReplaceInvitation, RemoveParticipant, ControlParticipant,
       ResolveSlot, Reread, Disconnect, PersistCommand, SendCommand, MarkDelivered,
       RoomFails, DisconnectFails, SendFails, Join, Acknowledge, EnterRoom, Leave, Heartbeat,
       Verify, Issue, CheckSession, FindCommand, AnswerCommand, IssueLost, DeviceFails, DropOut

\* Every step but an insertion keeps the slots or gives one up.
LEMMA SlotsChange ==
    ASSUME GuestTypeOK, RowStep, NEW i \in Invitations
    PROVE  \/ invitations'[i].slot \in {invitations[i].slot, None}
           \/ SlotIsUnused(invitations'[i].slot)
              /\ \A j \in Invitations : j # i => invitations'[j].slot = invitations[j].slot
<1>1. CASE \E o \in Operators : Insert(o)
  <2>1. PICK o \in Operators : Insert(o) BY <1>1
  <2>2. CASE SlotIsUnused(calls[o].slot)
    <3>1. PICK n : invitations' = [invitations EXCEPT ![n].made = TRUE, ![n].slot = calls[o].slot]
      BY <2>1, <2>2 DEF Insert
    <3>2. CASE n = i
      <4>1. invitations'[i].slot = calls[o].slot BY <3>1, <3>2 DEF GuestTypeOK, Row
      <4>2. \A j \in Invitations : j # i => invitations'[j].slot = invitations[j].slot
        BY <3>1, <3>2 DEF GuestTypeOK
      <4> QED BY <2>2, <4>1, <4>2
    <3>3. CASE n # i BY <3>1, <3>3 DEF GuestTypeOK
    <3> QED BY <3>2, <3>3
  <2>3. CASE ~SlotIsUnused(calls[o].slot) BY <2>1, <2>3 DEF Insert
  <2> QED BY <2>2, <2>3
<1>2. CASE \E o \in Operators : RevokeRow(o) \/ ReleaseSession(o)
  <2>1. PICK o \in Operators : RevokeRow(o) \/ ReleaseSession(o) BY <1>2
  <2>2. CASE Inv(o) = i
    <3>1. CASE RevokeRow(o) BY <2>2, <3>1 DEF RevokeRow, GuestTypeOK, Row
    <3>2. CASE ReleaseSession(o) BY <2>2, <3>2 DEF ReleaseSession, GuestTypeOK, Row
    <3> QED BY <2>1, <3>1, <3>2
  <2>3. CASE Inv(o) # i BY <2>1, <2>3 DEF RevokeRow, ReleaseSession, GuestTypeOK
  <2> QED BY <2>2, <2>3
<1>3. CASE \E t \in Tabs : Claim(t) \/ Renew(t)
  <2>1. PICK t \in Tabs : Claim(t) \/ Renew(t) BY <1>3
  <2>2. \/ UNCHANGED invitations
        \/ invitations' = [invitations EXCEPT ![Inv(t)].session = calls[t].session, ![Inv(t)].open = TRUE]
        \/ invitations' = [invitations EXCEPT ![Inv(t)].open = TRUE]
    BY <2>1 DEF Claim, Renew
  <2>3. CASE Inv(t) = i BY <2>2, <2>3 DEF GuestTypeOK, Row
  <2>4. CASE Inv(t) # i BY <2>2, <2>4 DEF GuestTypeOK
  <2> QED BY <2>3, <2>4
<1>4. CASE \E j \in Invitations : Lapse(j)
  BY <1>4 DEF Lapse, GuestTypeOK, Row
<1>5. CASE \E j \in Invitations : Expire(j)
  BY <1>5 DEF Expire, GuestTypeOK, Row
<1> QED BY <1>1, <1>2, <1>3, <1>4, <1>5 DEF RowStep

\* A step keeps the slots exclusive.
LEMMA SlotsStep == GuestTypeOK /\ SlotsAreExclusive /\ [GuestNext]_guestVars => SlotsAreExclusive'
<1> SUFFICES ASSUME GuestTypeOK, SlotsAreExclusive, [GuestNext]_guestVars,
                    NEW i \in Invitations, NEW j \in Invitations, i # j, invitations'[i].slot # None
             PROVE  invitations'[i].slot # invitations'[j].slot
  BY DEF SlotsAreExclusive
<1>1. CASE UNCHANGED invitations BY <1>1 DEF SlotsAreExclusive
<1>2. CASE RowStep BY <1>2, SlotsChange DEF SlotsAreExclusive, SlotIsUnused
<1> QED BY <1>1, <1>2, RowStepsOnly

\* SlotsAreExclusive holds in every reachable state.
THEOREM SlotsStayExclusive == GuestSpec => []SlotsAreExclusive
<1>1. GuestInit => SlotsAreExclusive BY DEF GuestInit, SlotsAreExclusive
<1> QED BY <1>1, SlotsStep, GuestTypeCorrect, PTL DEF GuestSpec

----------------------------------------------------------------------------
(* The refinement: every step is a step of the lease or leaves it alone. *)

\* The claims in flight stay named: only Verify starts one, for the session it picks.
\* What may happen to a request without it becoming a claim.
LEMMA NamedChanges ==
    ASSUME calls \in [Callers -> Call], ClaimsAreNamed, NEW c \in Callers
    PROVE  /\ UNCHANGED calls => ClaimsAreNamed'
           /\ Done(c) => ClaimsAreNamed'
           /\ \A step : step # "claim" /\ Go(c, step) => ClaimsAreNamed'
           /\ \A call : call.step # "claim" /\ Begin(c, call) => ClaimsAreNamed'
           /\ \A s \in Sessions : calls' = [calls EXCEPT ![c].session = s, ![c].step = "claim"]
                                => ClaimsAreNamed'
<1>1. UNCHANGED calls => ClaimsAreNamed' BY DEF ClaimsAreNamed
<1>2. Done(c) => ClaimsAreNamed' BY DEF Done, Idle, ClaimsAreNamed
<1>3. \A step : step # "claim" /\ Go(c, step) => ClaimsAreNamed' BY DEF Go, Call, ClaimsAreNamed
<1>4. \A call : call.step # "claim" /\ Begin(c, call) => ClaimsAreNamed' BY DEF Begin, ClaimsAreNamed
<1>5. \A s \in Sessions : calls' = [calls EXCEPT ![c].session = s, ![c].step = "claim"] => ClaimsAreNamed'
  BY DEF Call, ClaimsAreNamed
<1> QED BY <1>1, <1>2, <1>3, <1>4, <1>5

\* The operators' requests never claim, and the pages' claim what Verify picked.
LEMMA ClaimsStep == GuestTypeOK /\ ClaimsAreNamed /\ [GuestNext]_guestVars => ClaimsAreNamed'
<1> SUFFICES ASSUME GuestTypeOK, ClaimsAreNamed, [GuestNext]_guestVars PROVE ClaimsAreNamed' OBVIOUS
<1> calls \in [Callers -> Call] BY DEF GuestTypeOK
<1>1. CASE UNCHANGED calls BY <1>1 DEF ClaimsAreNamed
<1>2. ASSUME NEW o \in Operators, NEW s \in Slots \cup {None}, CreateInvitation(o, s) PROVE ClaimsAreNamed'
  BY <1>2, NamedChanges DEF CreateInvitation, Callers, Idle
<1>3. ASSUME NEW o \in Operators, NEW i \in Invitations, RevokeInvitation(o, i) PROVE ClaimsAreNamed'
  BY <1>3, NamedChanges DEF RevokeInvitation, Revoking, Callers, Idle
<1>4. ASSUME NEW o \in Operators, NEW i \in Invitations, ReplaceInvitation(o, i) PROVE ClaimsAreNamed'
  BY <1>4, NamedChanges DEF ReplaceInvitation, Callers, Idle
<1>5. ASSUME NEW o \in Operators, NEW i \in Invitations, RemoveParticipant(o, i) PROVE ClaimsAreNamed'
  BY <1>5, NamedChanges DEF RemoveParticipant, Callers, Idle
<1>6. ASSUME NEW o \in Operators, NEW i \in Invitations, NEW op \in {"message", "mute"}, NEW k \in Commands,
             ControlParticipant(o, i, op, k)
      PROVE  ClaimsAreNamed'
  BY <1>6, NamedChanges DEF ControlParticipant, Callers, Idle
<1>7. ASSUME NEW o \in Operators, ResolveSlot(o) PROVE ClaimsAreNamed'
  <2>1. CASE Done(o) BY <2>1, NamedChanges DEF Callers
  <2>2. CASE \E s : calls' = [calls EXCEPT ![o].slot = s, ![o].step = "room"]
    BY <2>2 DEF Call, ClaimsAreNamed
  <2> QED BY <1>7, <2>1, <2>2 DEF ResolveSlot
<1>8. ASSUME NEW o \in Operators, Reread(o) PROVE ClaimsAreNamed'
  BY <1>8 DEF Reread, Revoking, Idle, ClaimsAreNamed
<1>9. ASSUME NEW o \in Operators,
             \/ Insert(o) \/ RevokeRow(o) \/ Disconnect(o) \/ ReleaseSession(o)
             \/ RoomFails(o) \/ DisconnectFails(o)
      PROVE  ClaimsAreNamed'
  BY <1>9, NamedChanges
     DEF Insert, RevokeRow, Disconnect, ReleaseSession, RoomFails, DisconnectFails, Callers
<1>10. ASSUME NEW o \in Operators, PersistCommand(o) \/ SendCommand(o) \/ MarkDelivered(o) \/ SendFails(o)
       PROVE  ClaimsAreNamed'
  BY <1>10, NamedChanges DEF PersistCommand, SendCommand, MarkDelivered, SendFails, Callers
<1>11. ASSUME NEW t \in Tabs, NEW i \in Invitations, Join(t, i) PROVE ClaimsAreNamed'
  BY <1>11, NamedChanges DEF Join, Callers, Idle
<1>12. ASSUME NEW t \in Tabs, NEW k \in Commands, Acknowledge(t, k) PROVE ClaimsAreNamed'
  BY <1>12, NamedChanges DEF Acknowledge, Callers, Idle
<1>13. ASSUME NEW t \in Tabs, Heartbeat(t) PROVE ClaimsAreNamed'
  BY <1>13, NamedChanges DEF Heartbeat, Callers, Idle
<1>14. ASSUME NEW t \in Tabs, Verify(t) PROVE ClaimsAreNamed'
  BY <1>14, NamedChanges DEF Verify, Refuse, Callers
<1>15. ASSUME NEW t \in Tabs,
              \/ Claim(t) \/ Issue(t) \/ IssueLost(t) \/ CheckSession(t)
              \/ Renew(t) \/ FindCommand(t) \/ AnswerCommand(t)
       PROVE  ClaimsAreNamed'
  BY <1>15, NamedChanges
     DEF Claim, Issue, IssueLost, Refuse, CheckSession, Renew, FindCommand, AnswerCommand, Callers
<1>16. CASE \/ \E t \in Tabs : EnterRoom(t) \/ Leave(t) \/ DeviceFails(t) \/ DropOut(t)
            \/ \E i \in Invitations : Lapse(i) \/ Expire(i)
            \/ UNCHANGED guestVars
  BY <1>1, <1>16 DEF EnterRoom, Leave, DeviceFails, DropOut, Lapse, Expire, guestVars
<1> QED BY <1>2, <1>3, <1>4, <1>5, <1>6, <1>7, <1>8, <1>9, <1>10, <1>11, <1>12, <1>13, <1>14, <1>15, <1>16
        DEF GuestNext, GuestFaults, OperatorStep, GuestStep

\* What the lease sees of a row does not change.
Keeps(i) ==
    /\ invitations'[i].session = invitations[i].session
    /\ invitations'[i].open = invitations[i].open
    /\ invitations'[i].revoked = invitations[i].revoked

\* A step that keeps every row leaves the lease alone.
LEMMA LeaseKept == (\A i \in Invitations : Keeps(i)) => UNCHANGED Lease!leaseVars
BY DEF Keeps, Lease!leaseVars

\* A step that writes one row leaves the others to their holders.
Only(i) == \A j \in Invitations : j # i => Keeps(j)

\* A row written with a new session while it was free or lapsed is a Take.
LEMMA TakeMoves ==
    ASSUME NEW i \in Invitations, NEW s \in Sessions, Only(i),
           ~invitations[i].revoked, ~invitations'[i].revoked,
           invitations'[i].session = s, invitations'[i].open,
           invitations[i].session \in {None, s} \/ ~invitations[i].open
    PROVE  Lease!Take(i, s)
BY GuestAssumption DEF Only, Keeps, Lease!Take

\* A held row whose lease is renewed is an Extend.
LEMMA ExtendMoves ==
    ASSUME NEW i \in Invitations, Only(i), invitations[i].session # None,
           invitations'[i].revoked = invitations[i].revoked,
           invitations'[i].session = invitations[i].session, invitations'[i].open
    PROVE  Lease!Extend(i)
BY DEF Only, Keeps, Lease!Extend

\* A held row whose lease ends is a RunOut.
LEMMA RunOutMoves ==
    ASSUME NEW i \in Invitations, Only(i), invitations[i].session # None, invitations[i].open,
           invitations'[i].revoked = invitations[i].revoked,
           invitations'[i].session = invitations[i].session, ~invitations'[i].open
    PROVE  Lease!RunOut(i)
BY DEF Only, Keeps, Lease!RunOut

\* A row whose session is cleared is a Free, and one that is revoked as well a Close.
LEMMA FreeMoves ==
    ASSUME NEW i \in Invitations, Only(i), invitations'[i].session = None
    PROVE  /\ invitations'[i].revoked = invitations[i].revoked => Lease!Free(i)
           /\ invitations'[i].revoked => Lease!Close(i)
BY DEF Only, Keeps, Lease!Free, Lease!Close

\* Every step of the guests is one of the lease or leaves it alone.
LEMMA LeaseStep ==
    ASSUME GuestTypeOK, ClaimsAreNamed, [GuestNext]_guestVars
    PROVE  [Lease!LeaseNext]_(Lease!leaseVars)
<1> invitations \in [Invitations -> Row] BY DEF GuestTypeOK
<1> SUFFICES ASSUME RowStep PROVE [Lease!LeaseNext]_(Lease!leaseVars)
  <2>1. CASE UNCHANGED invitations BY <2>1, LeaseKept DEF Keeps
  <2> QED BY <2>1, RowStepsOnly
<1>1. ASSUME NEW o \in Operators, Insert(o) PROVE \A i \in Invitations : Keeps(i)
  <2>1. CASE SlotIsUnused(calls[o].slot)
    <3>1. PICK n : invitations' = [invitations EXCEPT ![n].made = TRUE, ![n].slot = calls[o].slot]
      BY <1>1, <2>1 DEF Insert
    <3> QED BY <3>1 DEF Keeps, Row
  <2>2. CASE ~SlotIsUnused(calls[o].slot) BY <1>1, <2>2 DEF Insert, Keeps
  <2> QED BY <2>1, <2>2
<1>2. ASSUME NEW i \in Invitations, Expire(i) PROVE \A j \in Invitations : Keeps(j)
  BY <1>2 DEF Expire, Keeps, Row
<1>3. ASSUME NEW x, x \notin Invitations, Only(x) PROVE \A j \in Invitations : Keeps(j)
  BY <1>3 DEF Only
<1>4. ASSUME NEW o \in Operators, RevokeRow(o)
      PROVE  (\A i \in Invitations : Keeps(i)) \/ \E i \in Invitations : Lease!Close(i)
  <2>1. Only(Inv(o)) BY <1>4 DEF RevokeRow, Only, Keeps
  <2>2. CASE Inv(o) \in Invitations
    <3>1. invitations'[Inv(o)].session = None /\ invitations'[Inv(o)].revoked
      BY <1>4, <2>2 DEF RevokeRow, Row
    <3> QED BY <2>1, <2>2, <3>1, FreeMoves
  <2> QED BY <1>3, <2>1, <2>2
<1>5. ASSUME NEW o \in Operators, ReleaseSession(o)
      PROVE  (\A i \in Invitations : Keeps(i)) \/ \E i \in Invitations : Lease!Free(i)
  <2>1. Only(Inv(o)) BY <1>5 DEF ReleaseSession, Only, Keeps
  <2>2. CASE Inv(o) \in Invitations
    <3>1. invitations'[Inv(o)].session = None /\ invitations'[Inv(o)].revoked = invitations[Inv(o)].revoked
      BY <1>5, <2>2 DEF ReleaseSession, Row
    <3> QED BY <2>1, <2>2, <3>1, FreeMoves
  <2> QED BY <1>3, <2>1, <2>2
<1>6. ASSUME NEW t \in Tabs, Claim(t)
      PROVE  \/ \A i \in Invitations : Keeps(i)
             \/ \E i \in Invitations, s \in Sessions : Lease!Take(i, s)
  <2>1. CASE ~MayClaim(Inv(t), calls[t].session) BY <1>6, <2>1 DEF Claim, Keeps
  <2>2. CASE MayClaim(Inv(t), calls[t].session)
    <3>1. invitations' = [invitations EXCEPT ![Inv(t)].session = calls[t].session, ![Inv(t)].open = TRUE]
      BY <1>6, <2>2 DEF Claim
    <3>2. Only(Inv(t)) BY <3>1 DEF Only, Keeps
    <3>3. CASE Inv(t) \in Invitations
      <4>1. calls[t].session \in Sessions BY <1>6 DEF Claim, At, ClaimsAreNamed, Callers
      <4>2. /\ invitations'[Inv(t)].session = calls[t].session
            /\ invitations'[Inv(t)].open
            /\ invitations'[Inv(t)].revoked = invitations[Inv(t)].revoked
        BY <3>1, <3>3 DEF Row
      <4> QED BY <2>2, <3>2, <3>3, <4>1, <4>2, TakeMoves DEF MayClaim, Live
    <3> QED BY <1>3, <3>2, <3>3
  <2> QED BY <2>1, <2>2
<1>7. ASSUME NEW t \in Tabs, Renew(t)
      PROVE  (UNCHANGED Lease!leaseVars) \/ \E i \in Invitations : Lease!Extend(i)
  <2>1. invitations' = [invitations EXCEPT ![Inv(t)].open = TRUE] BY <1>7 DEF Renew
  <2>2. Only(Inv(t)) BY <2>1 DEF Only, Keeps
  <2>3. CASE Inv(t) \in Invitations
    <3>1. /\ invitations'[Inv(t)].session = invitations[Inv(t)].session
          /\ invitations'[Inv(t)].open
          /\ invitations'[Inv(t)].revoked = invitations[Inv(t)].revoked
      BY <2>1, <2>3 DEF Row
    <3>2. CASE invitations[Inv(t)].session # None BY <2>2, <2>3, <3>1, <3>2, ExtendMoves
    <3>3. CASE invitations[Inv(t)].session = None
      BY <2>2, <3>1, <3>3 DEF Only, Keeps, Lease!leaseVars
    <3> QED BY <3>2, <3>3
  <2> QED BY <1>3, <2>2, <2>3, LeaseKept
<1>8. ASSUME NEW i \in Invitations, Lapse(i)
      PROVE  (UNCHANGED Lease!leaseVars) \/ Lease!RunOut(i)
  <2>1. invitations' = [invitations EXCEPT ![i].open = FALSE] /\ invitations[i].open BY <1>8 DEF Lapse
  <2>2. Only(i) BY <2>1 DEF Only, Keeps
  <2>3. /\ invitations'[i].session = invitations[i].session
        /\ ~invitations'[i].open
        /\ invitations'[i].revoked = invitations[i].revoked
    BY <2>1 DEF Row
  <2>4. CASE invitations[i].session # None BY <2>1, <2>2, <2>3, <2>4, RunOutMoves
  <2>5. CASE invitations[i].session = None
    BY <2>2, <2>3, <2>5 DEF Only, Keeps, Lease!leaseVars
  <2> QED BY <2>4, <2>5
<1> QED BY <1>1, <1>2, <1>4, <1>5, <1>6, <1>7, <1>8, LeaseKept DEF RowStep, Lease!LeaseNext

\* The guests' handlers, however they overlap, implement one exclusive lease per
\* invitation that closes for good.
THEOREM LeaseImplemented == GuestSpec => LeaseIsKept
<1>1. GuestInit => ClaimsAreNamed BY DEF GuestInit, ClaimsAreNamed, Idle
<1>2. GuestInit => Lease!LeaseInit
  <2> SUFFICES ASSUME GuestInit PROVE Lease!LeaseInit OBVIOUS
  <2>1. \A i \in Invitations : /\ invitations[i].session = None
                               /\ invitations[i].open = FALSE
                               /\ invitations[i].revoked = FALSE
    BY DEF GuestInit
  <2>2. \A i \in Invitations : (invitations[i].session # None /\ invitations[i].open) = FALSE
    BY <2>1
  <2> QED BY <2>1, <2>2 DEF Lease!LeaseInit
<1>3. GuestSpec => []ClaimsAreNamed BY <1>1, ClaimsStep, GuestTypeCorrect, PTL DEF GuestSpec
<1>4. GuestTypeOK /\ ClaimsAreNamed /\ [GuestNext]_guestVars => [Lease!LeaseNext]_(Lease!leaseVars)
  BY LeaseStep
<1> QED BY <1>2, <1>3, <1>4, GuestTypeCorrect, PTL DEF GuestSpec, LeaseIsKept, Lease!LeaseSpec

--------------------------------------------------------------------------------
\* Preferences

----------------------------------------------------------------------------
(* Types: what PrefTypeOK says, and that a save about to be written is bound to a row. *)

Bound == \A r \in requests : r.step = "write" => r.target \in Subjects
PrefTypeInv == PrefTypeOK /\ Bound

\* What an answer or a default hands out.
LEMMA DefaultTyped == Default \in Versioned /\ Default.version = 0 /\ Default.profile = 0
BY DEF Default, Versioned

\* What is found is there.
LEMMA OwnedRows ==
    ASSUME PrefTypeInv, NEW r \in Request
    PROVE  /\ Owned(r) \subseteq Subjects
           /\ \A s \in Owned(r) : rows[s] \in PrefRow
           /\ Presented(Owned(r)) \in Versioned
<1>1. Owned(r) \subseteq Subjects /\ \A s \in Owned(r) : rows[s] \in PrefRow
  BY DEF Owned, PrefTypeInv, PrefTypeOK
<1>2. CASE Owned(r) = {} BY <1>2, DefaultTyped DEF Presented
<1>3. CASE Owned(r) # {}
  <2> DEFINE s == CHOOSE x \in Owned(r) : TRUE
  <2>1. s \in Owned(r) BY <1>3
  <2>2. Presented(Owned(r)) = [version |-> rows[s].version, profile |-> rows[s].profile]
    BY <1>3 DEF Presented
  <2> HIDE DEF s
  <2> QED BY <2>1, <2>2, <1>1 DEF PrefRow, Versioned
<1> QED BY <1>1, <1>2, <1>3

\* Spending from the budget leaves a budget.
LEMMA PrefSpending ==
    ASSUME PrefTypeOK, NEW kind \in PrefKinds, PrefAfford(kind)
    PROVE  prefBudget' \in [PrefKinds -> Nat]
BY DEF PrefTypeOK, PrefAfford

\* A request that is asked.
LEMMA AskTyped ==
    ASSUME PrefTypeInv, NEW c \in Consoles, NEW kind \in {"get", "put", "delete"}
    PROVE  /\ Ask(c, kind) \in Request
           /\ Ask(c, kind).step = "sent" /\ Ask(c, kind).kind = kind /\ Ask(c, kind).from = c
           /\ Ask(c, kind).subject = SubjectOf[c] /\ Ask(c, kind).principal = (SubjectOf[c] \in linked)
           /\ Ask(c, kind).version = console[c].version /\ Ask(c, kind).base = console[c].base
<1> DEFINE b == FALSE
<1>1. console[c] \in Console /\ SubjectOf[c] \in Subjects /\ b \in BOOLEAN /\ Default \in Versioned
  BY PrefAssumption, DefaultTyped DEF PrefTypeInv, PrefTypeOK
<1>2. console[c].version \in Nat /\ console[c].profile \in Nat /\ console[c].base \in Nat
  BY <1>1 DEF Console
<1>3. (SubjectOf[c] \in linked) \in BOOLEAN OBVIOUS
<1>4. Ask(c, kind) =
        [from |-> c, subject |-> SubjectOf[c], principal |-> SubjectOf[c] \in linked,
         kind |-> kind, step |-> "sent",
         version |-> console[c].version, profile |-> console[c].profile, base |-> console[c].base,
         target |-> Missing, owned |-> b, result |-> "none", answer |-> Default]
  BY DEF Ask
<1> HIDE DEF b
<1>5. Ask(c, kind) \in Request BY <1>1, <1>2, <1>3, <1>4 DEF Request
<1> QED BY <1>4, <1>5

\* A request advances to another one.
LEMMA AdvanceTyped ==
    ASSUME PrefTypeInv, NEW r \in requests, NEW q \in Request, Advance(r, q),
           q.step = "write" => q.target \in Subjects
    PROVE  requests' \subseteq Request /\ Bound'
BY DEF PrefTypeInv, PrefTypeOK, Bound, Advance

\* An answered request.
LEMMA AnswerTyped ==
    ASSUME NEW r \in Request, NEW result \in {"none", "ok", "conflict", "error"}, NEW v \in Versioned
    PROVE  \A q : q = [r EXCEPT !.step = "answer", !.result = result, !.answer = v]
               => /\ q \in Request /\ q.step = "answer" /\ q.answer = v /\ q.kind = r.kind
                  /\ q.subject = r.subject /\ q.principal = r.principal /\ q.from = r.from
BY DEF Request

\* A console that becomes another one.
LEMMA BecomesTyped ==
    ASSUME PrefTypeInv, NEW c \in Consoles, NEW k \in Console, Becomes(c, k)
    PROVE  console' \in [Consoles -> Console]
BY DEF PrefTypeInv, PrefTypeOK, Becomes

\* What a console acknowledges.
LEMMA AcknowledgedTyped ==
    ASSUME PrefTypeInv, NEW c \in Consoles, NEW v \in Versioned
    PROVE  Acknowledged(c, v) \in Console
BY DEF PrefTypeInv, PrefTypeOK, Acknowledged, Console, Versioned

\* The service keeps the types.
LEMMA ServeTyped ==
    ASSUME PrefTypeInv, NEW r \in requests,
           Get(r) \/ SelectRow(r) \/ Write(r) \/ Authoritative(r) \/ DeleteRows(r)
    PROVE  PrefTypeInv'
<1>1. r \in Request BY DEF PrefTypeInv, PrefTypeOK
<1>2. UNCHANGED <<linked, console, edits, prefBudget>>
  BY DEF Get, SelectRow, Write, Authoritative, DeleteRows
<1>3. ASSUME NEW q \in Request, Advance(r, q), q.step = "write" => q.target \in Subjects,
             rows' \in [Subjects -> PrefRow \cup {Missing}]
      PROVE  PrefTypeInv'
  BY <1>2, <1>3, AdvanceTyped DEF PrefTypeInv, PrefTypeOK
<1>4. ASSUME NEW result \in {"none", "ok", "conflict", "error"}, NEW v \in Versioned, Answer(r, result, v),
             rows' \in [Subjects -> PrefRow \cup {Missing}]
      PROVE  PrefTypeInv'
  <2> DEFINE q == [r EXCEPT !.step = "answer", !.result = result, !.answer = v]
  <2>1. q \in Request /\ q.step = "answer" BY <1>1, <1>4, AnswerTyped DEF Request
  <2>2. Advance(r, q) BY <1>4 DEF Answer
  <2> HIDE DEF q
  <2> QED BY <1>3, <1>4, <2>1, <2>2
<1>5. rows \in [Subjects -> PrefRow \cup {Missing}] BY DEF PrefTypeInv, PrefTypeOK
<1>6. CASE Get(r) \/ Authoritative(r)
  <2>1. PICK result \in {"ok", "conflict", "error"} : Answer(r, result, Presented(Owned(r)))
    BY <1>6 DEF Get, Authoritative
  <2>2. Presented(Owned(r)) \in Versioned BY <1>1, OwnedRows
  <2>3. rows' = rows BY <1>6 DEF Get, Authoritative
  <2> QED BY <1>4, <1>5, <2>1, <2>2, <2>3
<1>7. CASE SelectRow(r)
  <2>1. rows' = rows BY <1>7 DEF SelectRow
  <2>2. CASE Answer(r, "error", Default) BY <1>4, <1>5, <2>1, <2>2, DefaultTyped
  <2>3. CASE ~Answer(r, "error", Default)
    <3>1. PICK s \in IF Owned(r) = {} THEN {r.subject} ELSE Owned(r) :
             Advance(r, [r EXCEPT !.step = "write", !.target = s,
                                  !.owned = Owned(r) # {} /\ rows[s].owned])
      BY <1>7, <2>3 DEF SelectRow
    <3> DEFINE owned == Owned(r) # {} /\ rows[s].owned
               q == [r EXCEPT !.step = "write", !.target = s, !.owned = owned]
    <3>2. s \in Subjects /\ owned \in BOOLEAN BY <1>1, <3>1, OwnedRows DEF Request, PrefRow
    <3> HIDE DEF owned
    <3>3. q \in Request /\ q.target = s BY <1>1, <3>2 DEF Request
    <3>4. Advance(r, q) BY <3>1 DEF owned
    <3> HIDE DEF q
    <3> QED BY <1>3, <1>5, <2>1, <3>2, <3>3, <3>4
  <2> QED BY <2>2, <2>3
<1>8. CASE Write(r)
  <2>1. r.target \in Subjects BY <1>8 DEF PrefTypeInv, Bound, Write
  <2>2. r.version \in Nat /\ r.profile \in Nat /\ r.owned \in BOOLEAN /\ r.principal \in BOOLEAN
    BY <1>1 DEF Request
  <2>3. ASSUME NEW v \in Nat, NEW owned \in BOOLEAN,
               rows' = [rows EXCEPT ![r.target] = [version |-> v, profile |-> r.profile, owned |-> owned]],
               Answer(r, "ok", [version |-> v, profile |-> r.profile])
        PROVE  PrefTypeInv'
    <3>1. [version |-> v, profile |-> r.profile, owned |-> owned] \in PrefRow BY <2>2 DEF PrefRow
    <3>2. [version |-> v, profile |-> r.profile] \in Versioned BY <2>2 DEF Versioned
    <3>3. rows' \in [Subjects -> PrefRow \cup {Missing}] BY <1>5, <2>1, <2>3, <3>1
    <3> QED BY <1>4, <2>3, <3>2, <3>3
  <2>4. CASE rows' = rows /\ Advance(r, [r EXCEPT !.step = "reread"])
    <3> DEFINE q == [r EXCEPT !.step = "reread"]
    <3>1. q \in Request /\ q.step = "reread" BY <1>1 DEF Request
    <3>2. Advance(r, q) BY <2>4
    <3> HIDE DEF q
    <3> QED BY <1>3, <1>5, <2>4, <3>1, <3>2
  <2>5. r.version + 1 \in Nat /\ (r.owned \/ r.principal) \in BOOLEAN /\ 1 \in Nat BY <2>2
  <2> QED BY <1>8, <2>2, <2>3, <2>4, <2>5 DEF Write
<1>9. CASE DeleteRows(r)
  <2>1. rows' \in [Subjects -> PrefRow \cup {Missing}] BY <1>5, <1>9 DEF DeleteRows
  <2> QED BY <1>4, <1>9, <2>1, DefaultTyped DEF DeleteRows
<1> QED BY <1>6, <1>7, <1>8, <1>9

\* What an answer makes of a console.
LEMMA ReceivedTyped ==
    ASSUME PrefTypeInv, NEW r \in requests, r.from # Missing
    PROVE  r.from \in Consoles /\ Failed(r) \in Console /\ Received(r) \in Console
<1>1. r \in Request /\ r.from \in Consoles /\ r.answer \in Versioned /\ r.profile \in Nat
  BY DEF PrefTypeInv, PrefTypeOK, Request
<1>2. console[r.from] \in Console BY <1>1 DEF PrefTypeInv, PrefTypeOK
<1>3. Failed(r) \in Console
  <2> DEFINE b == console[r.from].dirty \/ r.kind = "put"
             sync == IF r.kind = "delete" THEN console[r.from].sync ELSE "degraded"
  <2>1. b \in BOOLEAN /\ sync \in Syncs BY <1>2 DEF Console, Syncs
  <2>2. Failed(r) = [console[r.from] EXCEPT !.sync = sync, !.dirty = b] BY <1>1, <1>2 DEF Failed, Console
  <2> HIDE DEF b, sync
  <2> QED BY <1>2, <2>1, <2>2 DEF Console
<1>4. CASE r.result = "conflict"
  <2> DEFINE k == [local |-> r.profile, version |-> r.answer.version, profile |-> r.answer.profile]
  <2>1. k \in [local : Nat, version : Nat, profile : Nat] BY <1>1 DEF Versioned
  <2>2. Received(r) = [console[r.from] EXCEPT !.sync = "conflict", !.conflict = k]
    BY <1>4 DEF Received
  <2> HIDE DEF k
  <2> QED BY <1>1, <1>2, <1>3, <2>1, <2>2 DEF Console, Syncs
<1>5. CASE r.result = "error" BY <1>1, <1>3, <1>5 DEF Received
<1>6. CASE r.result # "conflict" /\ r.result # "error"
  <2> DEFINE b == FALSE
             a == Acknowledged(r.from, Default)
             d == Acknowledged(r.from, r.answer)
  <2>1. a \in Console /\ d \in Console /\ b \in BOOLEAN BY <1>1, DefaultTyped, AcknowledgedTyped
  <2>2. Received(r) = [a EXCEPT !.dirty = b, !.sync = "synced"] \/ Received(r) = [d EXCEPT !.sync = "synced"]
    BY <1>6 DEF Received
  <2> HIDE DEF a, b, d
  <2> QED BY <1>1, <1>3, <2>1, <2>2 DEF Console, Syncs
<1> QED BY <1>4, <1>5, <1>6

\* The profile starts well typed.
LEMMA PrefInitTyped == PrefInit => PrefTypeInv
<1> SUFFICES ASSUME PrefInit PROVE PrefTypeInv OBVIOUS
<1>1. \A c \in Consoles : console[c] \in Console
  BY DefaultTyped DEF PrefInit, Console, Syncs
<1>2. console \in [Consoles -> Console] BY <1>1 DEF PrefInit
<1>3. Bound BY DEF PrefInit, Bound
<1> QED BY <1>2, <1>3, PrefAssumption DEF PrefInit, PrefTypeInv, PrefTypeOK

\* A request added keeps the rest.
LEMMA AskedTyped ==
    ASSUME PrefTypeInv, NEW c \in Consoles, NEW kind \in {"get", "put", "delete"},
           requests' = requests \cup {Ask(c, kind)}
    PROVE  requests' \subseteq Request /\ Bound'
<1>1. Ask(c, kind) \in Request /\ Ask(c, kind).step = "sent" BY AskTyped
<1> QED BY <1>1 DEF PrefTypeInv, PrefTypeOK, Bound

\* Requests that go leave the others.
LEMMA FewerTyped ==
    ASSUME PrefTypeInv, requests' \subseteq requests
    PROVE  requests' \subseteq Request /\ Bound'
BY DEF PrefTypeInv, PrefTypeOK, Bound

\* The page is reloaded.
LEMMA ReloadTyped ==
    ASSUME PrefTypeInv, NEW c \in Consoles, Reload(c)
    PROVE  PrefTypeInv'
<1> DEFINE cached == IF console[c].cache = Missing THEN Default ELSE console[c].cache
           cache == console[c].cache
           b == FALSE
           a == Acknowledged(c, cached)
           fresh == [a EXCEPT !.dirty = b, !.conflict = Missing, !.sync = "loading", !.cache = cache]
           gone == {[r EXCEPT !.from = Missing] : r \in {q \in requests : q.from = c}}
<1>1. cached \in Versioned /\ cache \in Versioned \cup {Missing} /\ b \in BOOLEAN
  BY DefaultTyped DEF PrefTypeInv, PrefTypeOK, Console
<1>2. a \in Console BY <1>1, AcknowledgedTyped
<1>3. Becomes(c, fresh) BY DEF Reload
<1>4. requests' = {r \in requests : r.from # c} \cup gone \cup {Ask(c, "get")} BY DEF Reload
<1>5. UNCHANGED <<rows, linked, edits>> /\ PrefAfford("reload") BY DEF Reload
<1> HIDE DEF cached, cache, b, a
<1>6. fresh \in Console BY <1>1, <1>2 DEF Console, Syncs
<1> HIDE DEF fresh
<1>7. console' \in [Consoles -> Console] BY <1>3, <1>6, BecomesTyped
<1>8. \A r \in gone : r \in Request /\ (r.step = "write" => r.target \in Subjects)
  <2> SUFFICES ASSUME NEW r \in requests
               PROVE  LET q == [r EXCEPT !.from = Missing]
                      IN q \in Request /\ (q.step = "write" => q.target \in Subjects)
    OBVIOUS
  <2>1. r \in Request /\ (r.step = "write" => r.target \in Subjects)
    BY DEF PrefTypeInv, PrefTypeOK, Bound
  <2> QED BY <2>1 DEF Request
<1> HIDE DEF gone
<1>9. Ask(c, "get") \in Request /\ Ask(c, "get").step = "sent" BY AskTyped
<1>10. requests' \subseteq Request /\ Bound'
  BY <1>4, <1>8, <1>9 DEF PrefTypeInv, PrefTypeOK, Bound
<1>11. "reload" \in PrefKinds BY DEF PrefKinds
<1>12. prefBudget' \in [PrefKinds -> Nat] BY <1>5, <1>11, PrefSpending DEF PrefTypeInv
<1> QED BY <1>5, <1>7, <1>10, <1>12 DEF PrefTypeInv, PrefTypeOK

\* The console keeps the types.
LEMMA ConsoleTyped ==
    ASSUME PrefTypeInv, NEW c \in Consoles,
           \/ Save(c) \/ ReadAgain(c) \/ UpdateProfile(c) \/ Reset(c)
           \/ UseAuthoritative(c) \/ RetryLocal(c)
    PROVE  PrefTypeInv'
<1> DEFINE k == console[c]
           t == TRUE
           f == FALSE
<1>1. k \in Console /\ t \in BOOLEAN /\ f \in BOOLEAN /\ edits \in Nat BY DEF PrefTypeInv, PrefTypeOK
<1> HIDE DEF t, f
<1>2. CASE Save(c)
  <2>1. Becomes(c, [k EXCEPT !.dirty = f, !.sync = "saving"]) BY <1>2 DEF Save, f
  <2>2. [k EXCEPT !.dirty = f, !.sync = "saving"] \in Console BY <1>1 DEF Console, Syncs
  <2>3. console' \in [Consoles -> Console] BY <2>1, <2>2, BecomesTyped
  <2>4. requests' \subseteq Request /\ Bound' BY <1>2, AskedTyped DEF Save
  <2> QED BY <1>2, <2>3, <2>4 DEF Save, PrefTypeInv, PrefTypeOK
<1>3. CASE ReadAgain(c)
  <2>1. requests' \subseteq Request /\ Bound' BY <1>3, AskedTyped DEF ReadAgain
  <2> QED BY <1>3, <2>1 DEF ReadAgain, PrefTypeInv, PrefTypeOK
<1>4. CASE UpdateProfile(c)
  <2> DEFINE n == edits + 1
  <2>1. n \in Nat /\ Becomes(c, [k EXCEPT !.dirty = t, !.profile = n]) BY <1>1, <1>4 DEF UpdateProfile, t
  <2>2. edits' = n BY <1>4 DEF UpdateProfile
  <2> HIDE DEF n
  <2>3. [k EXCEPT !.dirty = t, !.profile = n] \in Console BY <1>1, <2>1 DEF Console
  <2>4. console' \in [Consoles -> Console] BY <2>1, <2>3, BecomesTyped
  <2>5. "edit" \in PrefKinds BY DEF PrefKinds
  <2>6. prefBudget' \in [PrefKinds -> Nat] BY <1>4, <2>5, PrefSpending DEF PrefTypeInv, UpdateProfile
  <2> QED BY <1>4, <2>1, <2>2, <2>4, <2>6 DEF UpdateProfile, PrefTypeInv, PrefTypeOK, Bound
<1>5. CASE Reset(c)
  <2>1. requests' \subseteq Request /\ Bound' BY <1>5, AskedTyped DEF Reset
  <2>2. "reset" \in PrefKinds BY DEF PrefKinds
  <2>3. prefBudget' \in [PrefKinds -> Nat] BY <1>5, <2>2, PrefSpending DEF PrefTypeInv, Reset
  <2> QED BY <1>5, <2>1, <2>3 DEF Reset, PrefTypeInv, PrefTypeOK
<1>6. CASE UseAuthoritative(c)
  <2> DEFINE v == [version |-> k.conflict.version, profile |-> k.conflict.profile]
             a == Acknowledged(c, v)
  <2>1. v \in Versioned BY <1>1, <1>6 DEF UseAuthoritative, Console, Versioned
  <2>2. Becomes(c, [a EXCEPT !.conflict = Missing, !.sync = "synced"]) BY <1>6 DEF UseAuthoritative
  <2> HIDE DEF v
  <2>3. a \in Console BY <2>1, AcknowledgedTyped
  <2> HIDE DEF a
  <2>4. [a EXCEPT !.conflict = Missing, !.sync = "synced"] \in Console BY <2>3 DEF Console, Syncs
  <2>5. console' \in [Consoles -> Console] BY <2>2, <2>4, BecomesTyped
  <2> QED BY <1>6, <2>5 DEF UseAuthoritative, PrefTypeInv, PrefTypeOK, Bound
<1>7. CASE RetryLocal(c)
  <2> DEFINE v == k.conflict.version
             p == k.conflict.profile
             l == k.conflict.local
             n == [k EXCEPT !.version = v, !.base = p, !.profile = l,
                            !.conflict = Missing, !.dirty = t, !.sync = "degraded"]
  <2>1. v \in Nat /\ p \in Nat /\ l \in Nat BY <1>1, <1>7 DEF RetryLocal, Console
  <2>2. Becomes(c, n) BY <1>7 DEF RetryLocal, t
  <2> HIDE DEF v, p, l
  <2>3. n \in Console BY <1>1, <2>1 DEF Console, Syncs
  <2> HIDE DEF n
  <2>4. console' \in [Consoles -> Console] BY <2>2, <2>3, BecomesTyped
  <2> QED BY <1>7, <2>4 DEF RetryLocal, PrefTypeInv, PrefTypeOK, Bound
<1> QED BY <1>2, <1>3, <1>4, <1>5, <1>6, <1>7

\* Answers and losses keep the types.
LEMMA DeliveryTyped ==
    ASSUME PrefTypeInv, NEW r \in requests, Deliver(r) \/ Lose(r)
    PROVE  PrefTypeInv'
<1>1. requests' \subseteq Request /\ Bound' BY FewerTyped DEF Deliver, Lose
<1>2. CASE Deliver(r)
  <2>1. console' \in [Consoles -> Console]
    <3>1. CASE r.from = Missing BY <1>2, <3>1 DEF Deliver, PrefTypeInv, PrefTypeOK
    <3>2. CASE r.from # Missing BY <1>2, <3>2, ReceivedTyped, BecomesTyped DEF Deliver
    <3> QED BY <3>1, <3>2
  <2> QED BY <1>1, <1>2, <2>1 DEF Deliver, PrefTypeInv, PrefTypeOK
<1>3. CASE Lose(r)
  <2>1. console' \in [Consoles -> Console] BY <1>3, ReceivedTyped, BecomesTyped DEF Lose
  <2>2. "fault" \in PrefKinds BY DEF PrefKinds
  <2>3. prefBudget' \in [PrefKinds -> Nat] BY <1>3, <2>2, PrefSpending DEF PrefTypeInv, Lose
  <2> QED BY <1>1, <1>3, <2>1, <2>3 DEF Lose, PrefTypeInv, PrefTypeOK
<1> QED BY <1>2, <1>3

LEMMA LinkTyped ==
    ASSUME PrefTypeInv, NEW s \in Subjects, Link(s)
    PROVE  PrefTypeInv'
<1>1. "link" \in PrefKinds BY DEF PrefKinds
<1>2. prefBudget' \in [PrefKinds -> Nat] BY <1>1, PrefSpending DEF PrefTypeInv, Link
<1> QED BY <1>2 DEF Link, PrefTypeInv, PrefTypeOK, Bound

\* A step keeps the types.
LEMMA PrefNextTyped == PrefTypeInv /\ [PrefNext]_prefVars => PrefTypeInv'
<1> SUFFICES ASSUME PrefTypeInv, [PrefNext]_prefVars PROVE PrefTypeInv' OBVIOUS
<1>1. ASSUME NEW r \in requests, Serve(r) \/ Lose(r) PROVE PrefTypeInv'
  BY <1>1, ServeTyped, DeliveryTyped DEF Serve
<1>2. ASSUME NEW c \in Consoles,
             \/ Retry(c) \/ UpdateProfile(c) \/ Reset(c) \/ Reload(c)
             \/ UseAuthoritative(c) \/ RetryLocal(c)
      PROVE  PrefTypeInv'
  BY <1>2, ConsoleTyped, ReloadTyped DEF Retry
<1>3. CASE UNCHANGED prefVars BY <1>3 DEF prefVars, PrefTypeInv, PrefTypeOK, Bound
<1> QED BY <1>1, <1>2, <1>3, LinkTyped DEF PrefNext

\* A save about to be written is bound to one of the operator's rows.
THEOREM PrefTyped == PrefSpec => []PrefTypeInv
BY PrefInitTyped, PrefNextTyped, PTL DEF PrefSpec

\* The rows, the consoles and their requests keep their types.
THEOREM PrefTypeCorrect == PrefSpec => []PrefTypeOK
<1>1. PrefTypeInv => PrefTypeOK BY DEF PrefTypeInv
<1> QED BY <1>1, PrefTyped, PTL

----------------------------------------------------------------------------
(* What consoles know.  A version above 0 names a row the console's subject reaches, and its *)
(* profile as long as the row still has that version.                                       *)

Seen(R, s, v, p) ==
    /\ R[s] \in PrefRow
    /\ v <= R[s].version
    /\ v = R[s].version => p = R[s].profile

Reaches(R, me, principal, s) == s = me \/ (principal /\ R[s].owned)

Known(R, me, principal, v, p) ==
    v # 0 => \E s \in Subjects : Seen(R, s, v, p) /\ Reaches(R, me, principal, s)

ConsoleKnows(c) ==
    LET Knows(v, p) == Known(rows, SubjectOf[c], SubjectOf[c] \in linked, v, p)
        k == console[c]
    IN /\ Knows(k.version, k.base)
       /\ k.conflict # Missing => Knows(k.conflict.version, k.conflict.profile)
       /\ k.cache # Missing => Knows(k.cache.version, k.cache.profile)

\* The save that is about to be written has seen the row it is bound to.
RequestKnows(r) ==
    /\ r.principal => r.subject \in linked
    /\ r.from # Missing => r.subject = SubjectOf[r.from]
    /\ r.kind = "put" /\ r.step = "sent" => Known(rows, r.subject, r.principal, r.version, r.base)
    /\ r.step = "write" =>
        /\ r.version # 0 => Seen(rows, r.target, r.version, r.base)
        /\ r.target = r.subject \/ (r.principal /\ r.owned)
    /\ r.step = "answer" => Known(rows, r.subject, r.principal, r.answer.version, r.answer.profile)

Provenance ==
    /\ \A c \in Consoles : ConsoleKnows(c)
    /\ \A r \in requests : RequestKnows(r)

\* From the rows R to the rows Q no row is deleted, rewound or disowned, and a version keeps its
\* profile.
Advances(R, Q) ==
    \A s \in Subjects : R[s] \in PrefRow =>
        /\ Q[s] \in PrefRow
        /\ Q[s].version = R[s].version => Q[s].profile = R[s].profile
        /\ Q[s].version >= R[s].version
        /\ R[s].owned => Q[s].owned

\* What was seen of a row stays true, and what is known stays known.
LEMMA SeenKeeps ==
    ASSUME NEW R, NEW Q, Advances(R, Q), NEW s \in Subjects, NEW v \in Nat, NEW p, Seen(R, s, v, p)
    PROVE  Seen(Q, s, v, p)
<1>1. /\ R[s] \in PrefRow /\ Q[s] \in PrefRow
      /\ Q[s].version = R[s].version => Q[s].profile = R[s].profile
      /\ Q[s].version >= R[s].version
  BY DEF Advances, Seen
<1>2. R[s].version \in Nat /\ Q[s].version \in Nat BY <1>1 DEF PrefRow
<1> QED BY <1>1, <1>2 DEF Seen

LEMMA KnownKeeps ==
    ASSUME NEW R, NEW Q, Advances(R, Q),
           NEW me \in Subjects, NEW b \in BOOLEAN, NEW d \in BOOLEAN, b => d,
           NEW v \in Nat, NEW p, Known(R, me, b, v, p)
    PROVE  Known(Q, me, d, v, p)
<1> SUFFICES ASSUME v # 0 PROVE \E s \in Subjects : Seen(Q, s, v, p) /\ Reaches(Q, me, d, s)
  BY DEF Known
<1>1. PICK s \in Subjects : Seen(R, s, v, p) /\ Reaches(R, me, b, s) BY DEF Known
<1>2. Seen(Q, s, v, p) BY <1>1, SeenKeeps
<1>3. R[s].owned => Q[s].owned BY <1>1 DEF Seen, Advances
<1>4. Reaches(Q, me, d, s)
  <2>1. CASE s = me BY <2>1 DEF Reaches
  <2>2. CASE b /\ R[s].owned BY <2>2, <1>3 DEF Reaches
  <2> QED BY <1>1, <2>1, <2>2 DEF Reaches
<1> QED BY <1>2, <1>4

\* Nothing is known of version 0.
LEMMA NothingKnown == \A R, me, b, p : Known(R, me, b, 0, p)
BY DEF Known

\* A console that keeps what it knew.
LEMMA ConsoleKeeps ==
    ASSUME PrefTypeInv, Advances(rows, rows'), linked \subseteq linked', NEW c \in Consoles, ConsoleKnows(c),
           console'[c].version = console[c].version, console'[c].base = console[c].base,
           console'[c].cache = console[c].cache,
           console'[c].conflict \in {console[c].conflict, Missing}
    PROVE  ConsoleKnows(c)'
<1> DEFINE me == SubjectOf[c]
           b == me \in linked
           d == me \in linked'
<1>1. me \in Subjects /\ b \in BOOLEAN /\ d \in BOOLEAN /\ (b => d) BY PrefAssumption
<1>2. console[c] \in Console BY DEF PrefTypeInv, PrefTypeOK
<1>3. /\ console[c].version \in Nat
      /\ console[c].conflict # Missing => console[c].conflict.version \in Nat
      /\ console[c].cache # Missing => console[c].cache.version \in Nat
  BY <1>2 DEF Console, Versioned
<1>4. \A v \in Nat : \A p : Known(rows, me, b, v, p) => Known(rows', me, d, v, p)
  <2> HIDE DEF b, d, me
  <2> QED BY <1>1, KnownKeeps
<1>5. /\ Known(rows, me, b, console[c].version, console[c].base)
      /\ console[c].conflict # Missing
           => Known(rows, me, b, console[c].conflict.version, console[c].conflict.profile)
      /\ console[c].cache # Missing => Known(rows, me, b, console[c].cache.version, console[c].cache.profile)
  BY DEF ConsoleKnows
<1> QED BY <1>3, <1>4, <1>5 DEF ConsoleKnows

\* A request that stays under way.
LEMMA RequestKeeps ==
    ASSUME PrefTypeInv, Advances(rows, rows'), linked \subseteq linked', NEW r \in requests, RequestKnows(r)
    PROVE  RequestKnows(r)'
<1>1. /\ r.subject \in Subjects /\ r.principal \in BOOLEAN /\ r.version \in Nat /\ r.answer.version \in Nat
      /\ r.step = "write" => r.target \in Subjects
  BY DEF PrefTypeInv, PrefTypeOK, Bound, Request, Versioned
<1>2. r.principal => r.subject \in linked' BY DEF RequestKnows
<1>3. r.from # Missing => r.subject = SubjectOf[r.from] BY DEF RequestKnows
<1>4. r.kind = "put" /\ r.step = "sent" => Known(rows', r.subject, r.principal, r.version, r.base)
  BY <1>1, KnownKeeps DEF RequestKnows
<1>5. r.step = "write" => /\ r.version # 0 => Seen(rows', r.target, r.version, r.base)
                          /\ r.target = r.subject \/ (r.principal /\ r.owned)
  BY <1>1, SeenKeeps DEF RequestKnows
<1>6. r.step = "answer" => Known(rows', r.subject, r.principal, r.answer.version, r.answer.profile)
  BY <1>1, KnownKeeps DEF RequestKnows
<1> QED BY <1>2, <1>3, <1>4, <1>5, <1>6 DEF RequestKnows

\* Unchanged rows advance.
LEMMA RowsStand == ASSUME PrefTypeInv, rows' = rows PROVE Advances(rows, rows')
<1> SUFFICES ASSUME NEW s \in Subjects, rows[s] \in PrefRow PROVE rows[s].version >= rows[s].version
  BY DEF Advances
<1>1. rows[s].version \in Nat BY DEF PrefRow
<1> QED BY <1>1

\* What a step must show: consoles and requests that are new know what they say.
LEMMA ProvenanceKeeps ==
    ASSUME PrefTypeInv, Provenance, Advances(rows, rows'), linked \subseteq linked',
           \A c \in Consoles : console'[c] = console[c] \/ ConsoleKnows(c)',
           \A r \in requests' : r \in requests \/ RequestKnows(r)'
    PROVE  Provenance'
<1>1. ASSUME NEW c \in Consoles PROVE ConsoleKnows(c)'
  <2>1. CASE console'[c] = console[c] BY <2>1, ConsoleKeeps DEF Provenance
  <2> QED BY <2>1
<1>2. ASSUME NEW r \in requests' PROVE RequestKnows(r)'
  <2>1. CASE r \in requests BY <2>1, RequestKeeps DEF Provenance
  <2> QED BY <2>1, <1>2
<1> QED BY <1>1, <1>2 DEF Provenance

\* What the service presents, it has read from a row the request reaches.
LEMMA PresentedKnown ==
    ASSUME PrefTypeInv, NEW r \in Request, NEW v, v = Presented(Owned(r))
    PROVE  Known(rows, r.subject, r.principal, v.version, v.profile)
<1>1. CASE Owned(r) = {}
  <2>1. v = Default BY <1>1 DEF Presented
  <2> QED BY <2>1, DefaultTyped, NothingKnown
<1>2. CASE Owned(r) # {}
  <2> DEFINE s == CHOOSE x \in Owned(r) : TRUE
  <2>1. s \in Owned(r) BY <1>2
  <2>2. v = [version |-> rows[s].version, profile |-> rows[s].profile]
    BY <1>2 DEF Presented
  <2>3. v.version = rows[s].version /\ v.profile = rows[s].profile BY <2>2
  <2> HIDE DEF s
  <2>4. s \in Subjects /\ rows[s] \in PrefRow BY <2>1, OwnedRows
  <2>5. rows[s].version \in Nat BY <2>4 DEF PrefRow
  <2>6. Seen(rows, s, v.version, v.profile) BY <2>3, <2>4, <2>5 DEF Seen
  <2>7. Reaches(rows, r.subject, r.principal, s) BY <2>1 DEF Owned, Reaches
  <2> QED BY <2>4, <2>6, <2>7 DEF Known
<1> QED BY <1>1, <1>2

\* One row at most.
LEMMA OneOwned ==
    ASSUME PrefTypeInv, NEW r \in Request, ~(Cardinality(Owned(r)) > 1),
           NEW s \in Owned(r), NEW t \in Owned(r)
    PROVE  s = t
<1> SUFFICES ASSUME s # t PROVE FALSE OBVIOUS
<1>1. Owned(r) \in SUBSET Subjects BY OwnedRows
<1>2. IsFiniteSet(Owned(r)) BY <1>1, FS_Subset, PrefAssumption
<1>3. IsFiniteSet({s}) /\ Cardinality({s}) = 1 BY FS_Singleton
<1>4. Cardinality({s} \cup {t}) = 2
  <2>1. t \notin {s} OBVIOUS
  <2>2. Cardinality({s} \cup {t}) = Cardinality({s}) + 1
    BY <1>3, <2>1, FS_AddElement
  <2> QED BY <1>3, <2>2
<1>5. {s} \cup {t} \in SUBSET Owned(r) OBVIOUS
<1>6. Cardinality({s} \cup {t}) <= Cardinality(Owned(r)) BY <1>2, <1>5, FS_Subset
<1>7. Cardinality(Owned(r)) \in Nat BY <1>2, FS_CardinalityType
<1> QED BY <1>4, <1>6, <1>7

\* A request that answers what it knows.
LEMMA AnswerKnows ==
    ASSUME PrefTypeInv, Provenance, NEW r \in requests, Advances(rows, rows'),
           UNCHANGED <<linked, console>>,
           NEW result \in {"none", "ok", "conflict", "error"}, NEW v \in Versioned, Answer(r, result, v),
           Known(rows', r.subject, r.principal, v.version, v.profile)
    PROVE  Provenance'
<1>1. r \in Request /\ RequestKnows(r) BY DEF PrefTypeInv, PrefTypeOK, Provenance
<1>2. PICK q : q = [r EXCEPT !.step = "answer", !.result = result, !.answer = v] OBVIOUS
<1>3. /\ q.step = "answer" /\ q.answer = v /\ q.subject = r.subject /\ q.principal = r.principal
      /\ q.from = r.from
  BY <1>1, <1>2 DEF Request
<1>4. requests' = (requests \ {r}) \cup {q} BY <1>2 DEF Answer, Advance
<1>5. RequestKnows(q)' BY <1>1, <1>3 DEF RequestKnows
<1> QED BY <1>4, <1>5, ProvenanceKeeps

LEMMA GetKnows ==
    ASSUME PrefTypeInv, Provenance, NEW r \in requests, Get(r) \/ Authoritative(r)
    PROVE  Provenance'
<1>1. r \in Request BY DEF PrefTypeInv, PrefTypeOK
<1>2. PICK v : v = Presented(Owned(r)) OBVIOUS
<1>3. PICK result \in {"ok", "conflict", "error"} : Answer(r, result, v)
  BY <1>2 DEF Get, Authoritative
<1>4. v \in Versioned BY <1>1, <1>2, OwnedRows
<1>5. UNCHANGED <<rows, linked, console>> BY DEF Get, Authoritative
<1>6. Known(rows', r.subject, r.principal, v.version, v.profile) BY <1>1, <1>2, <1>5, PresentedKnown
<1> QED BY <1>3, <1>4, <1>5, <1>6, AnswerKnows, RowsStand

\* The row a save is bound to is the one its console was shown.
LEMMA SelectKnows ==
    ASSUME PrefTypeInv, Provenance, NEW r \in requests, SelectRow(r)
    PROVE  Provenance'
<1>1. r \in Request /\ RequestKnows(r) /\ r.subject \in Subjects /\ r.principal \in BOOLEAN
  BY DEF PrefTypeInv, PrefTypeOK, Provenance, Request
<1>2. UNCHANGED <<rows, linked, console>> /\ r.kind = "put" /\ r.step = "sent" BY DEF SelectRow
<1>3. CASE Cardinality(Owned(r)) > 1
  <2>1. Answer(r, "error", Default) BY <1>3 DEF SelectRow
  <2>2. Known(rows', r.subject, r.principal, Default.version, Default.profile)
    BY DefaultTyped, NothingKnown
  <2> QED BY <1>2, <2>1, <2>2, DefaultTyped, AnswerKnows, RowsStand
<1>4. CASE ~(Cardinality(Owned(r)) > 1)
  <2>1. PICK s \in IF Owned(r) = {} THEN {r.subject} ELSE Owned(r) :
           Advance(r, [r EXCEPT !.step = "write", !.target = s,
                                !.owned = Owned(r) # {} /\ rows[s].owned])
    BY <1>4 DEF SelectRow
  <2>2. PICK q : q = [r EXCEPT !.step = "write", !.target = s,
                               !.owned = Owned(r) # {} /\ rows[s].owned] OBVIOUS
  <2>3. /\ q.step = "write" /\ q.target = s /\ q.subject = r.subject /\ q.principal = r.principal
        /\ q.from = r.from /\ q.version = r.version /\ q.base = r.base
    BY <1>1, <2>2 DEF Request
  <2>4. q.owned <=> Owned(r) # {} /\ rows[s].owned BY <1>1, <2>2 DEF Request
  <2>5. q.target = q.subject \/ (q.principal /\ q.owned)
    <3>1. CASE Owned(r) = {} BY <3>1, <2>1, <2>3
    <3>2. CASE Owned(r) # {} /\ ~rows[s].owned BY <3>2, <2>1, <2>3 DEF Owned
    <3>3. CASE Owned(r) # {} /\ rows[s].owned
      <4>1. r.principal BY <3>3, <2>1 DEF Owned
      <4> QED BY <4>1, <3>3, <2>3, <2>4
    <3> QED BY <3>1, <3>2, <3>3
  <2>6. q.version # 0 => Seen(rows, q.target, q.version, q.base)
    <3> SUFFICES ASSUME r.version # 0 PROVE Seen(rows, s, r.version, r.base) BY <2>3
    <3>1. PICK t \in Subjects : Seen(rows, t, r.version, r.base) /\ Reaches(rows, r.subject, r.principal, t)
      BY <1>1, <1>2 DEF RequestKnows, Known
    <3>2. rows[t] # Missing BY <3>1, MissingAssumption DEF Seen
    <3>3. CASE t \in Owned(r)
      <4>1. s \in Owned(r) BY <3>3, <2>1
      <4>2. s = t BY <1>1, <1>4, <3>3, <4>1, OneOwned
      <4> QED BY <3>1, <4>2
    <3>4. CASE t \notin Owned(r)
      <4>1. t = r.subject /\ rows[t].owned /\ ~r.principal BY <3>1, <3>2, <3>4 DEF Owned, Reaches
      <4>2. Owned(r) = {}
        <5> SUFFICES ASSUME NEW u \in Owned(r) PROVE FALSE OBVIOUS
        <5>1. ~rows[u].owned /\ u = r.subject BY <4>1 DEF Owned
        <5> QED BY <4>1, <5>1
      <4> QED BY <3>1, <2>1, <4>1, <4>2
    <3> QED BY <3>3, <3>4
  <2>7. RequestKnows(q)' BY <1>1, <1>2, <2>3, <2>5, <2>6 DEF RequestKnows
  <2>8. requests' = (requests \ {r}) \cup {q} BY <2>1, <2>2 DEF Advance
  <2> QED BY <1>2, <2>7, <2>8, ProvenanceKeeps, RowsStand
<1> QED BY <1>3, <1>4

\* A write that is accepted replaces what was shown and hands out a new version.
LEMMA WriteKnows ==
    ASSUME PrefTypeInv, Provenance, NEW r \in requests, Write(r)
    PROVE  /\ Provenance'
           /\ rows[r.target] # Missing /\ rows'[r.target] # rows[r.target]
                => rows[r.target].profile = r.base
<1> DEFINE t == r.target
<1>1. r \in Request /\ RequestKnows(r) /\ r.step = "write" /\ t \in Subjects
  BY DEF PrefTypeInv, PrefTypeOK, Provenance, Bound, Write
<1>2. /\ r.version \in Nat /\ r.profile \in Nat /\ r.owned \in BOOLEAN /\ r.principal \in BOOLEAN
      /\ r.subject \in Subjects
  BY <1>1 DEF Request
<1>3. UNCHANGED <<linked, console>> BY DEF Write
<1>4. rows[t] \in PrefRow \cup {Missing} /\ rows \in [Subjects -> PrefRow \cup {Missing}]
  BY <1>1 DEF PrefTypeInv, PrefTypeOK
<1>5. /\ r.version # 0 => Seen(rows, t, r.version, r.base)
      /\ t = r.subject \/ (r.principal /\ r.owned)
  BY <1>1 DEF RequestKnows
<1> HIDE DEF t
<1>6. ASSUME NEW v \in Nat, v # 0, NEW owned \in BOOLEAN, r.owned /\ r.principal => owned,
             rows' = [rows EXCEPT ![t] = [version |-> v, profile |-> r.profile, owned |-> owned]],
             Answer(r, "ok", [version |-> v, profile |-> r.profile]),
             rows[t] # Missing => rows[t].version < v /\ (rows[t].owned => owned)
      PROVE  Provenance'
  <2>1. rows'[t] = [version |-> v, profile |-> r.profile, owned |-> owned] BY <1>1, <1>4, <1>6
  <2>2. \A s \in Subjects : s # t => rows'[s] = rows[s] BY <1>4, <1>6
  <2>3. rows'[t] \in PrefRow BY <1>2, <1>6, <2>1 DEF PrefRow
  <2>4. ASSUME NEW s \in Subjects, rows[s] \in PrefRow
        PROVE  /\ rows'[s] \in PrefRow
               /\ rows'[s].version = rows[s].version => rows'[s].profile = rows[s].profile
               /\ rows'[s].version >= rows[s].version
               /\ rows[s].owned => rows'[s].owned
    <3>1. rows[s].version \in Nat BY <2>4 DEF PrefRow
    <3>2. CASE s # t BY <2>2, <2>4, <3>1, <3>2
    <3>3. CASE s = t
      <4>1. rows[t] # Missing BY <2>4, <3>3, MissingAssumption
      <4>2. rows[t].version < v /\ (rows[t].owned => owned) BY <1>6, <4>1
      <4>3. rows'[t].version = v /\ rows'[t].owned = owned BY <2>1
      <4> QED BY <1>6, <2>3, <3>1, <3>3, <4>2, <4>3
    <3> QED BY <3>2, <3>3
  <2>5. Advances(rows, rows') BY <2>4 DEF Advances
  <2>6. Seen(rows', t, v, r.profile) BY <1>6, <2>1, <2>3 DEF Seen
  <2>7. Reaches(rows', r.subject, r.principal, t)
    <3>1. rows'[t].owned = owned BY <2>1
    <3>2. CASE t = r.subject BY <3>2 DEF Reaches
    <3>3. CASE r.principal /\ r.owned BY <1>6, <3>1, <3>3 DEF Reaches
    <3> QED BY <1>5, <3>2, <3>3
  <2>8. PICK w : w = [version |-> v, profile |-> r.profile] OBVIOUS
  <2>9. w \in Versioned /\ w.version = v /\ w.profile = r.profile BY <1>2, <1>6, <2>8 DEF Versioned
  <2>10. Known(rows', r.subject, r.principal, w.version, w.profile) BY <1>1, <2>6, <2>7, <2>9 DEF Known, t
  <2> QED BY <1>3, <1>6, <2>5, <2>8, <2>9, <2>10, AnswerKnows
<1>7. CASE rows' = rows /\ Advance(r, [r EXCEPT !.step = "reread"])
  <2>1. PICK q : q = [r EXCEPT !.step = "reread"] OBVIOUS
  <2>2. q.step = "reread" /\ q.subject = r.subject /\ q.principal = r.principal /\ q.from = r.from
    BY <1>1, <2>1 DEF Request
  <2>3. RequestKnows(q)' BY <1>1, <1>3, <2>2 DEF RequestKnows
  <2>4. requests' = (requests \ {r}) \cup {q} BY <1>7, <2>1 DEF Advance
  <2> QED BY <1>3, <1>7, <2>3, <2>4, ProvenanceKeeps, RowsStand DEF t
<1>8. CASE /\ r.version = 0 /\ rows[t] = Missing
           /\ rows' = [rows EXCEPT ![t] = [version |-> 1, profile |-> r.profile, owned |-> r.principal]]
           /\ Answer(r, "ok", [version |-> 1, profile |-> r.profile])
  <2>1. PICK v : v = 1 OBVIOUS
  <2>2. v \in Nat /\ v # 0 BY <2>1
  <2>3. PICK owned : owned = r.principal OBVIOUS
  <2>4. owned \in BOOLEAN /\ (r.owned /\ r.principal => owned) BY <1>2, <2>3
  <2>5. rows' = [rows EXCEPT ![t] = [version |-> v, profile |-> r.profile, owned |-> owned]]
    BY <1>8, <2>1, <2>3, Zenon
  <2>6. Answer(r, "ok", [version |-> v, profile |-> r.profile]) BY <1>8, <2>1, Zenon
  <2>7. rows[t] # Missing => rows[t].version < v /\ (rows[t].owned => owned) BY <1>8
  <2>8. Provenance' BY <1>6, <2>2, <2>4, <2>5, <2>6, <2>7
  <2> QED BY <1>8, <2>8 DEF t
<1>9. CASE /\ r.version > 0 /\ Matches(r)
           /\ rows' = [rows EXCEPT ![t] = [version |-> r.version + 1, profile |-> r.profile,
                                           owned |-> r.owned \/ r.principal]]
           /\ Answer(r, "ok", [version |-> r.version + 1, profile |-> r.profile])
  <2>1. rows[t] # Missing /\ rows[t].version = r.version /\ rows[t].owned = r.owned
    BY <1>9 DEF Matches, t
  <2>2. rows[t].profile = r.base BY <1>5, <1>9, <2>1 DEF Seen
  <2>3. PICK v : v = r.version + 1 OBVIOUS
  <2>4. v \in Nat /\ v # 0 /\ r.version < v BY <1>2, <2>3
  <2>5. PICK owned : owned = (r.owned \/ r.principal) OBVIOUS
  <2>6. owned \in BOOLEAN /\ (r.owned => owned) BY <2>5
  <2>7. rows' = [rows EXCEPT ![t] = [version |-> v, profile |-> r.profile, owned |-> owned]]
    BY <1>9, <2>3, <2>5, Zenon
  <2>8. Answer(r, "ok", [version |-> v, profile |-> r.profile]) BY <1>9, <2>3, Zenon
  <2>9. rows[t] # Missing => rows[t].version < v /\ (rows[t].owned => owned)
    BY <2>1, <2>4, <2>6
  <2>10. Provenance' BY <1>6, <2>4, <2>6, <2>7, <2>8, <2>9
  <2> QED BY <2>2, <2>10 DEF t
<1> QED BY <1>7, <1>8, <1>9 DEF Write, t

\* A console that acknowledges what a request of its subject knows.
LEMMA ConsoleLearns ==
    ASSUME PrefTypeInv, Provenance, UNCHANGED <<rows, linked>>, NEW c \in Consoles, NEW k \in Console,
           console'[c] = k,
           Known(rows, SubjectOf[c], SubjectOf[c] \in linked, k.version, k.base),
           k.conflict \in {console[c].conflict, Missing}
             \/ Known(rows, SubjectOf[c], SubjectOf[c] \in linked, k.conflict.version, k.conflict.profile),
           k.cache = console[c].cache
             \/ Known(rows, SubjectOf[c], SubjectOf[c] \in linked, k.cache.version, k.cache.profile)
    PROVE  ConsoleKnows(c)'
<1>1. ConsoleKnows(c) BY DEF Provenance
<1> QED BY <1>1 DEF ConsoleKnows

\* An answer reaches its console, or is lost.
LEMMA DeliveryKnows ==
    ASSUME PrefTypeInv, Provenance, NEW r \in requests, Deliver(r) \/ Lose(r)
    PROVE  Provenance'
<1>1. r \in Request /\ RequestKnows(r) /\ r.answer \in Versioned /\ r.principal \in BOOLEAN /\ r.subject \in Subjects
  BY DEF PrefTypeInv, PrefTypeOK, Provenance, Request
<1>2. UNCHANGED <<rows, linked>> /\ requests' \subseteq requests BY DEF Deliver, Lose
<1>3. CASE r.from = Missing
  <2>1. console' = console BY <1>3 DEF Deliver, Lose
  <2> QED BY <1>2, <2>1, ProvenanceKeeps, RowsStand
<1>4. CASE r.from # Missing
  <2> DEFINE c == r.from
  <2>1. c \in Consoles /\ console[c] \in Console /\ r.subject = SubjectOf[c] /\ ConsoleKnows(c)
    BY <1>1, <1>4 DEF PrefTypeInv, PrefTypeOK, Request, RequestKnows, Provenance
  <2>2. PICK k : Becomes(c, k) /\ (k = Failed(r) \/ (k = Received(r) /\ r.step = "answer"))
    BY <1>4 DEF Deliver, Lose
  <2>3. \A d \in Consoles : console'[d] = IF d = c THEN k ELSE console[d]
    BY <2>2 DEF Becomes, PrefTypeInv, PrefTypeOK
  <2>4. /\ Failed(r).version = console[c].version /\ Failed(r).base = console[c].base
        /\ Failed(r).cache = console[c].cache /\ Failed(r).conflict = console[c].conflict
    BY <2>1 DEF Failed, Console
  <2>5. ASSUME k = Failed(r) PROVE ConsoleKnows(c)'
    <3>1. console'[c] = k BY <2>1, <2>3
    <3>2. /\ console'[c].version = console[c].version /\ console'[c].base = console[c].base
          /\ console'[c].cache = console[c].cache /\ console'[c].conflict \in {console[c].conflict, Missing}
      BY <2>4, <2>5, <3>1
    <3> QED BY <1>2, <2>1, <3>2, ConsoleKeeps, RowsStand
  <2>6. ASSUME k = Received(r), r.step = "answer" PROVE ConsoleKnows(c)'
    <3>1. console'[c] = k /\ k \in Console BY <1>4, <2>1, <2>3, <2>6, ReceivedTyped
    <3>2. Known(rows, r.subject, r.principal, r.answer.version, r.answer.profile)
      BY <1>1, <2>6 DEF RequestKnows
    <3>3. PICK b : b = (SubjectOf[c] \in linked) OBVIOUS
    <3>4. b \in BOOLEAN /\ (r.principal => b) BY <1>1, <2>1, <3>3 DEF RequestKnows
    <3>5. r.answer.version \in Nat BY <1>1 DEF Versioned
    <3>6. rows' = rows BY <1>2
    <3>7. Known(rows', r.subject, b, r.answer.version, r.answer.profile)
      BY <1>1, <3>2, <3>4, <3>5, <3>6, KnownKeeps, RowsStand
    <3>8. Known(rows, SubjectOf[c], SubjectOf[c] \in linked, r.answer.version, r.answer.profile)
      BY <2>1, <3>3, <3>6, <3>7, Zenon
    <3>9. Known(rows, SubjectOf[c], SubjectOf[c] \in linked, console[c].version, console[c].base)
      BY <2>1 DEF ConsoleKnows
    <3>10. CASE r.result = "conflict"
      <4>1. k = [console[c] EXCEPT !.sync = "conflict",
                   !.conflict = [local |-> r.profile, version |-> r.answer.version, profile |-> r.answer.profile]]
        BY <2>6, <3>10 DEF Received
      <4>2. /\ k.version = console[c].version /\ k.base = console[c].base /\ k.cache = console[c].cache
            /\ k.conflict.version = r.answer.version /\ k.conflict.profile = r.answer.profile
        BY <2>1, <4>1 DEF Console
      <4>3. Known(rows, SubjectOf[c], SubjectOf[c] \in linked, k.version, k.base) BY <3>9, <4>2
      <4>4. Known(rows, SubjectOf[c], SubjectOf[c] \in linked, k.conflict.version, k.conflict.profile)
        BY <3>8, <4>2
      <4> QED BY <1>2, <2>1, <3>1, <4>2, <4>3, <4>4, ConsoleLearns
    <3>11. CASE r.result = "error" BY <2>5, <2>6, <3>11 DEF Received
    <3>12. CASE r.result # "conflict" /\ r.result # "error"
      <4>1. PICK v : /\ v \in {Default, r.answer}
                     /\ k.version = v.version /\ k.base = v.profile /\ k.cache = v /\ k.conflict = console[c].conflict
        <5>1. \/ k = [Acknowledged(c, Default) EXCEPT !.dirty = FALSE, !.sync = "synced"]
              \/ k = [Acknowledged(c, r.answer) EXCEPT !.sync = "synced"]
          BY <2>6, <3>12 DEF Received
        <5>2. \A v : LET a == Acknowledged(c, v)
                     IN /\ a.version = v.version /\ a.base = v.profile /\ a.cache = v
                        /\ a.conflict = console[c].conflict
          BY <2>1 DEF Acknowledged, Console
        <5>3. Acknowledged(c, Default) \in Console /\ Acknowledged(c, r.answer) \in Console
          BY <1>1, <2>1, DefaultTyped, AcknowledgedTyped
        <5>4. CASE k = [Acknowledged(c, Default) EXCEPT !.dirty = FALSE, !.sync = "synced"]
          <6>1. /\ k.version = Default.version /\ k.base = Default.profile /\ k.cache = Default
                /\ k.conflict = console[c].conflict
            BY <5>2, <5>3, <5>4 DEF Console
          <6> QED BY <6>1
        <5>5. CASE k = [Acknowledged(c, r.answer) EXCEPT !.sync = "synced"]
          <6>1. /\ k.version = r.answer.version /\ k.base = r.answer.profile /\ k.cache = r.answer
                /\ k.conflict = console[c].conflict
            BY <5>2, <5>3, <5>5 DEF Console
          <6> QED BY <6>1
        <5> QED BY <5>1, <5>4, <5>5
      <4>2. Known(rows, SubjectOf[c], SubjectOf[c] \in linked, v.version, v.profile)
        <5>1. CASE v = Default BY <5>1, DefaultTyped, NothingKnown
        <5>2. CASE v = r.answer BY <5>2, <3>8
        <5> QED BY <4>1, <5>1, <5>2
      <4> QED BY <1>2, <2>1, <3>1, <4>1, <4>2, ConsoleLearns
    <3> QED BY <3>10, <3>11, <3>12
  <2>7. ConsoleKnows(c)' BY <2>2, <2>5, <2>6
  <2>8. \A d \in Consoles : console'[d] = console[d] \/ ConsoleKnows(d)' BY <2>3, <2>7
  <2> QED BY <1>2, <2>8, ProvenanceKeeps, RowsStand
<1> QED BY <1>3, <1>4

\* A request that is asked knows what its console knows.
LEMMA AskKnows ==
    ASSUME PrefTypeInv, Provenance, NEW c \in Consoles, NEW kind \in {"get", "put", "delete"},
           UNCHANGED <<rows, linked>>, NEW q, q = Ask(c, kind)
    PROVE  RequestKnows(q)'
<1>1. /\ q.step = "sent" /\ q.from = c
      /\ q.subject = SubjectOf[c] /\ q.principal = (SubjectOf[c] \in linked)
      /\ q.version = console[c].version /\ q.base = console[c].base
  BY AskTyped
<1>2. Known(rows, SubjectOf[c], SubjectOf[c] \in linked, console[c].version, console[c].base)
  BY DEF Provenance, ConsoleKnows
<1>3. Known(rows, q.subject, q.principal, q.version, q.base) BY <1>1, <1>2, Zenon
<1> QED BY <1>1, <1>3 DEF RequestKnows

\* The console's own steps.
LEMMA ConsoleStepKnows ==
    ASSUME PrefTypeInv, Provenance, NEW c \in Consoles,
           \/ Save(c) \/ ReadAgain(c) \/ UpdateProfile(c) \/ Reset(c) \/ Reload(c)
           \/ UseAuthoritative(c) \/ RetryLocal(c)
    PROVE  Provenance'
<1>1. UNCHANGED <<rows, linked>>
  BY DEF Save, ReadAgain, UpdateProfile, Reset, Reload, UseAuthoritative, RetryLocal
<1>2. console[c] \in Console /\ ConsoleKnows(c) BY DEF PrefTypeInv, PrefTypeOK, Provenance
<1> DEFINE Same(k) == /\ k.version = console[c].version /\ k.base = console[c].base
                      /\ k.cache = console[c].cache /\ k.conflict \in {console[c].conflict, Missing}
<1>3. ASSUME NEW k, Becomes(c, k), Same(k) \/ (console'[c] = k => ConsoleKnows(c)'),
             \A r \in requests' : r \in requests \/ RequestKnows(r)'
      PROVE  Provenance'
  <2>1. \A d \in Consoles : console'[d] = IF d = c THEN k ELSE console[d]
    BY <1>3 DEF Becomes, PrefTypeInv, PrefTypeOK
  <2>2. ConsoleKnows(c)'
    <3>1. CASE Same(k)
      <4>1. Same(console'[c]) BY <2>1, <3>1
      <4> QED BY <1>1, <1>2, <4>1, ConsoleKeeps, RowsStand
    <3> QED BY <1>3, <2>1, <3>1
  <2>3. \A d \in Consoles : console'[d] = console[d] \/ ConsoleKnows(d)' BY <2>1, <2>2
  <2> QED BY <1>1, <1>3, <2>3, ProvenanceKeeps, RowsStand
<1>4. ASSUME NEW kind \in {"get", "put", "delete"}, requests' = requests \cup {Ask(c, kind)}
      PROVE  \A r \in requests' : r \in requests \/ RequestKnows(r)'
  <2>1. PICK q : q = Ask(c, kind) OBVIOUS
  <2>2. RequestKnows(q)' BY <1>1, <1>4, <2>1, AskKnows
  <2> QED BY <1>4, <2>1, <2>2
<1>5. CASE Save(c)
  <2>1. PICK k : k = [console[c] EXCEPT !.dirty = FALSE, !.sync = "saving"] OBVIOUS
  <2>2. Same(k) BY <1>2, <2>1 DEF Console
  <2>3. Becomes(c, k) /\ requests' = requests \cup {Ask(c, "put")} BY <1>5, <2>1 DEF Save
  <2> QED BY <1>3, <1>4, <2>2, <2>3
<1>6. CASE ReadAgain(c) \/ Reset(c)
  <2>1. PICK kind \in {"get", "delete"} : requests' = requests \cup {Ask(c, kind)} /\ console' = console
    BY <1>6 DEF ReadAgain, Reset
  <2>2. \A r \in requests' : r \in requests \/ RequestKnows(r)' BY <1>4, <2>1
  <2> QED BY <1>1, <2>1, <2>2, ProvenanceKeeps, RowsStand
<1>7. CASE UpdateProfile(c)
  <2>1. PICK k : k = [console[c] EXCEPT !.dirty = TRUE, !.profile = edits + 1] OBVIOUS
  <2>2. Same(k) BY <1>2, <2>1 DEF Console
  <2>3. Becomes(c, k) /\ requests' = requests BY <1>7, <2>1 DEF UpdateProfile
  <2> QED BY <1>3, <2>2, <2>3
<1>8. CASE UseAuthoritative(c)
  <2>1. PICK v : v = [version |-> console[c].conflict.version, profile |-> console[c].conflict.profile] OBVIOUS
  <2>2. v.version = console[c].conflict.version /\ v.profile = console[c].conflict.profile BY <2>1
  <2>3. v \in Versioned BY <1>2, <1>8, <2>1 DEF UseAuthoritative, Console, Versioned
  <2>4. PICK k : k = [Acknowledged(c, v) EXCEPT !.conflict = Missing, !.sync = "synced"] OBVIOUS
  <2>5. Acknowledged(c, v) \in Console BY <2>3, AcknowledgedTyped
  <2>6. /\ Acknowledged(c, v).version = v.version /\ Acknowledged(c, v).base = v.profile
        /\ Acknowledged(c, v).cache = v
    BY <1>2 DEF Acknowledged, Console
  <2>7. k \in Console BY <2>4, <2>5 DEF Console, Syncs
  <2>8. k.version = v.version /\ k.base = v.profile /\ k.cache = v /\ k.conflict = Missing
    BY <2>4, <2>5, <2>6 DEF Console
  <2>9. Known(rows, SubjectOf[c], SubjectOf[c] \in linked, v.version, v.profile)
    BY <1>2, <1>8, <2>2 DEF UseAuthoritative, ConsoleKnows
  <2>10. console'[c] = k => ConsoleKnows(c)' BY <1>1, <2>7, <2>8, <2>9, ConsoleLearns
  <2>11. Becomes(c, k) /\ requests' = requests BY <1>8, <2>1, <2>4 DEF UseAuthoritative
  <2> QED BY <1>3, <2>10, <2>11
<1>9. CASE RetryLocal(c)
  <2>1. PICK k : k = [console[c] EXCEPT !.version = console[c].conflict.version,
                        !.base = console[c].conflict.profile, !.profile = console[c].conflict.local,
                        !.conflict = Missing, !.dirty = TRUE, !.sync = "degraded"] OBVIOUS
  <2>2. Becomes(c, k) /\ requests' = requests BY <1>9, <2>1 DEF RetryLocal
  <2>3. /\ console[c].conflict.version \in Nat /\ console[c].conflict.profile \in Nat
        /\ console[c].conflict.local \in Nat
    BY <1>2, <1>9 DEF RetryLocal, Console
  <2>4. /\ k.version = console[c].conflict.version /\ k.base = console[c].conflict.profile
        /\ k.conflict = Missing /\ k.cache = console[c].cache
    BY <1>2, <2>1 DEF Console
  <2>5. Known(rows, SubjectOf[c], SubjectOf[c] \in linked, k.version, k.base)
    BY <1>2, <1>9, <2>4 DEF RetryLocal, ConsoleKnows
  <2>6. console'[c] = k => ConsoleKnows(c)'
    <3> SUFFICES ASSUME console'[c] = k PROVE ConsoleKnows(c)' OBVIOUS
    <3> QED BY <1>1, <1>2, <2>4, <2>5 DEF ConsoleKnows
  <2> QED BY <1>3, <2>2, <2>6
<1>10. CASE Reload(c)
  <2>1. PICK v : v = IF console[c].cache = Missing THEN Default ELSE console[c].cache OBVIOUS
  <2>2. v \in Versioned BY <1>2, <2>1, DefaultTyped DEF Console
  <2>3. PICK k : k = [Acknowledged(c, v) EXCEPT !.dirty = FALSE, !.conflict = Missing,
                        !.sync = "loading", !.cache = console[c].cache] OBVIOUS
  <2>4. Acknowledged(c, v) \in Console BY <2>2, AcknowledgedTyped
  <2>5. Acknowledged(c, v).version = v.version /\ Acknowledged(c, v).base = v.profile
    BY <1>2 DEF Acknowledged, Console
  <2>6. k.version = v.version /\ k.base = v.profile /\ k.cache = console[c].cache /\ k.conflict = Missing
    BY <2>3, <2>4, <2>5 DEF Console
  <2>7. Known(rows, SubjectOf[c], SubjectOf[c] \in linked, v.version, v.profile)
    BY <1>2, <2>1, DefaultTyped, NothingKnown DEF ConsoleKnows
  <2>8. console'[c] = k => ConsoleKnows(c)'
    <3> SUFFICES ASSUME console'[c] = k PROVE ConsoleKnows(c)' OBVIOUS
    <3> QED BY <1>1, <1>2, <2>6, <2>7 DEF ConsoleKnows
  <2>9. Becomes(c, k) BY <1>10, <2>1, <2>3 DEF Reload
  <2>10. ASSUME NEW r \in requests' PROVE r \in requests \/ RequestKnows(r)'
    <3>1. CASE \E q \in requests : r = [q EXCEPT !.from = Missing]
      <4>1. PICK q \in requests : r = [q EXCEPT !.from = Missing] BY <3>1
      <4>2. q \in Request /\ RequestKnows(q) BY DEF PrefTypeInv, PrefTypeOK, Provenance
      <4>3. /\ r.from = Missing /\ r.subject = q.subject /\ r.principal = q.principal /\ r.kind = q.kind
            /\ r.step = q.step /\ r.version = q.version /\ r.base = q.base /\ r.target = q.target
            /\ r.owned = q.owned /\ r.answer = q.answer
        BY <4>1, <4>2 DEF Request
      <4> QED BY <1>1, <4>2, <4>3 DEF RequestKnows
    <3>2. CASE r = Ask(c, "get") BY <1>1, <3>2, AskKnows
    <3> QED BY <1>10, <2>10, <3>1, <3>2 DEF Reload
  <2> QED BY <1>3, <2>8, <2>9, <2>10
<1> QED BY <1>5, <1>6, <1>7, <1>8, <1>9, <1>10

\* Once more of the operator's sign-ins are resolved, all of it is still known.
LEMMA LinkKnows == ASSUME PrefTypeInv, Provenance, NEW s \in Subjects, Link(s) PROVE Provenance'
<1>1. rows' = rows /\ console' = console /\ requests' = requests /\ linked \subseteq linked' BY DEF Link
<1> QED BY <1>1, RowsStand, ProvenanceKeeps

\* At first there is no version to know.
LEMMA PrefInitKnows == ASSUME PrefInit PROVE Provenance
<1>1. requests = {} BY DEF PrefInit
<1>2. ASSUME NEW c \in Consoles PROVE ConsoleKnows(c)
  <2>1. console[c] = [profile |-> 0, version |-> 0, base |-> 0, dirty |-> FALSE, sync |-> "synced",
                      conflict |-> Missing, cache |-> Default]
    BY DEF PrefInit
  <2>2. console[c].version = 0 /\ console[c].conflict = Missing /\ console[c].cache.version = 0
    BY <2>1, DefaultTyped
  <2> QED BY <2>2, NothingKnown DEF ConsoleKnows
<1> QED BY <1>1, <1>2 DEF Provenance

\* A step that deletes no rows: what is known stays known, and what it writes was shown.
NoDeletion == \A r \in requests : ~DeleteRows(r)

LEMMA PrefNextKnows == PrefTypeInv /\ Provenance /\ NoDeletion /\ [PrefNext]_prefVars => Provenance'
<1> SUFFICES ASSUME PrefTypeInv, Provenance, NoDeletion, [PrefNext]_prefVars PROVE Provenance' OBVIOUS
<1>1. CASE UNCHANGED prefVars
  BY <1>1, ProvenanceKeeps, RowsStand DEF prefVars
<1>2. ASSUME NEW r \in requests, Serve(r) \/ Lose(r) PROVE Provenance'
  <2>1. CASE Get(r) \/ Authoritative(r) BY <2>1, GetKnows
  <2>2. CASE SelectRow(r) BY <2>2, SelectKnows
  <2>3. CASE Write(r) BY <2>3, WriteKnows
  <2>4. CASE Deliver(r) \/ Lose(r) BY <2>4, DeliveryKnows
  <2> QED BY <1>2, <2>1, <2>2, <2>3, <2>4 DEF Serve, NoDeletion
<1>3. ASSUME NEW c \in Consoles,
             \/ Retry(c) \/ UpdateProfile(c) \/ Reset(c) \/ Reload(c) \/ UseAuthoritative(c) \/ RetryLocal(c)
      PROVE  Provenance'
  BY <1>3, ConsoleStepKnows DEF Retry
<1> QED BY <1>1, <1>2, <1>3, LinkKnows DEF PrefNext

\* The save that replaces a row is the one that is being written.
ReplacesWhatWasShown ==
    \A r \in requests : Overwrites(r) /\ rows'[r.target] # rows[r.target] => rows[r.target].profile = r.base

LEMMA WritesAreSeen ==
    PrefTypeInv /\ Provenance /\ NoDeletion /\ [PrefNext]_prefVars => ReplacesWhatWasShown
<1> SUFFICES ASSUME PrefTypeInv, Provenance, NoDeletion, [PrefNext]_prefVars,
                    NEW r \in requests, Overwrites(r), rows'[r.target] # rows[r.target]
             PROVE  rows[r.target].profile = r.base
  BY DEF ReplacesWhatWasShown
<1>1. r \notin requests' /\ rows[r.target] # Missing BY DEF Overwrites
<1>2. \E q \in requests : Write(q)
  <2>1. rows' # rows OBVIOUS
  <2>2. \/ UNCHANGED rows
        \/ \E q \in requests : Write(q) \/ DeleteRows(q)
    BY DEF PrefNext, prefVars, Serve, Get, SelectRow, Authoritative, Deliver, Lose, Retry, Save, ReadAgain,
           UpdateProfile, Reset, Reload, UseAuthoritative, RetryLocal, Link
  <2> QED BY <2>1, <2>2 DEF NoDeletion
<1>3. PICK q \in requests : Write(q) BY <1>2
<1>4. requests \ {q} \subseteq requests' BY <1>3 DEF Write, Answer, Advance
<1>5. r = q BY <1>1, <1>4
<1> QED BY <1>1, <1>3, <1>5, WriteKnows

\* As long as no profile is reset, a save never silently overwrites the other session: the profile
\* it replaces is the one its console was shown under the version it sends (the update bound to
\* the version in save).  A reset starts the versions of a row over: a version shown before it may
\* then name another profile.
THEOREM SavesAreNeverSilent ==
    PrefSpec /\ [][\A r \in requests : ~DeleteRows(r)]_prefVars => NeverSilentlyOverwritten
<1>1. PrefInit => PrefTypeInv /\ Provenance BY PrefInitTyped, PrefInitKnows
<1>2. PrefTypeInv /\ Provenance /\ [PrefNext]_prefVars /\ [\A r \in requests : ~DeleteRows(r)]_prefVars
        => (PrefTypeInv /\ Provenance)'
  <2>1. PrefTypeInv /\ Provenance /\ UNCHANGED prefVars => Provenance'
    BY ProvenanceKeeps, RowsStand DEF prefVars
  <2> QED BY <2>1, PrefNextTyped, PrefNextKnows DEF NoDeletion
<1>3. PrefTypeInv /\ Provenance /\ [PrefNext]_prefVars /\ [\A r \in requests : ~DeleteRows(r)]_prefVars
        => [ReplacesWhatWasShown]_prefVars
  BY WritesAreSeen DEF NoDeletion
<1>4. [ReplacesWhatWasShown]_prefVars
        => [\A r \in requests : Overwrites(r) /\ rows'[r.target] # rows[r.target]
                => rows[r.target].profile = r.base]_prefVars
  BY DEF ReplacesWhatWasShown
<1> QED BY <1>1, <1>2, <1>3, <1>4, PTL DEF PrefSpec, NeverSilentlyOverwritten

--------------------------------------------------------------------------------
\* The services side by side

\* A step of one service is a step of its own specification and a stutter of the two others.
LEMMA SideBySide == Spec => GuestSpec /\ PrefSpec /\ RealtimeSpec
<1>1. Init => GuestInit /\ PrefInit /\ RealtimeInit BY DEF Init
<1>2. [Next]_<<guestVars, prefVars, realtimeVars>>
        => [GuestNext]_guestVars /\ [PrefNext]_prefVars /\ [RealtimeNext]_realtimeVars
  BY DEF Next
<1> QED BY <1>1, <1>2, PTL DEF Spec, GuestSpec, PrefSpec, RealtimeSpec

\* The consoles, their requests, the scenes and the pages that show them keep their types, in the
\* composition of the services (ConsolePreferencesContext.tsx, program.service.ts, useSSE.ts).
THEOREM PagesTypeCorrect == Spec => []PagesTypeOK
<1>1. PrefTypeOK /\ RealtimeTypeOK => PagesTypeOK BY DEF PagesTypeOK
<1> QED BY <1>1, SideBySide, PrefTypeCorrect, RealtimeTypeCorrect, PTL
================================================================================
