--------------------------- MODULE GuestInvitations ----------------------------
(***************************************************************************)
(* The guests of one program: the GuestInvitation rows, the requests of    *)
(* operators and of guest pages that overlap on them, and the LiveKit room *)
(* the guests enter (webrtc/webrtc.service.ts, routes/guest.tsx).          *)
(*                                                                         *)
(* A request is one call per caller, cut at every await; a database        *)
(* statement takes effect when it is issued and its answer is used in the  *)
(* caller's next step.  Time is abstracted to two events: the 60-second    *)
(* lease of a session runs out, and an invitation expires.                 *)
(***************************************************************************)
EXTENDS Naturals, FiniteSets

CONSTANTS
    Invitations,   \* supply of invitation IDs
    Slots,         \* guest slots, MAX_GUESTS of them
    Tabs,          \* guest pages
    Operators,     \* operators' consoles, one request each at a time
    Sessions,      \* supply of session IDs
    Commands,      \* supply of director commands
    None,
    GuestBudgets   \* what a behaviour may spend, one per instance explored

GuestKinds == {"request", "join", "command", "lapse", "expire", "lost", "fault", "device"}

ASSUME GuestAssumption ==
    /\ Slots \subseteq Nat
    /\ None \notin Slots \cup Sessions \cup Tabs \cup Invitations \cup Commands
    /\ Tabs \cap Operators = {}
    /\ GuestBudgets \subseteq [GuestKinds -> Nat]

Callers == Operators \cup Tabs

VARIABLES
    invitations,   \* the rows, [made, revoked, expired, open: BOOLEAN, slot, session]
    tabs,          \* the pages, [on, session, page, beating]
    room,          \* which page is the participant guest-<id>
    calls,         \* the request each caller has in flight
    issued,        \* session IDs already generated
    commands,      \* the GuestCommand rows, [status, heard]
    refusal,       \* the slot whose insertion was just refused
    guestBudget

guestVars == <<invitations, tabs, room, calls, issued, commands, refusal, guestBudget>>

Pages == {"ready", "joining", "connecting", "live", "ended"}
Steps == {"idle", "verify", "claim", "issue", "check", "renew", "find", "answer", "reread",
          "revoke", "disconnect", "resolve", "room", "release", "persist", "send", "mark"}
Ops == {"idle", "join", "beat", "acknowledge", "create", "replace", "revoke", "remove", "message", "mute"}

Idle == [op |-> "idle", step |-> "idle", inv |-> None, slot |-> None, session |-> None, command |-> None]

Row == [made : BOOLEAN, revoked : BOOLEAN, expired : BOOLEAN, open : BOOLEAN,
        slot : Slots \cup {None}, session : Sessions \cup {None}]
Tab == [on : Invitations \cup {None}, session : Sessions \cup {None}, page : Pages, beating : BOOLEAN]
Call == [op : Ops, step : Steps, inv : Invitations \cup {None}, slot : Slots \cup {None},
         session : Sessions \cup {None}, command : Commands \cup {None}]
CommandRow == [status : {"none", "requested", "delivered", "failed", "answered"}, heard : BOOLEAN]

\* Type correctness of the guests' state.
GuestTypeOK ==
    /\ invitations \in [Invitations -> Row]
    /\ tabs \in [Tabs -> Tab]
    /\ room \in [Invitations -> Tabs \cup {None}]
    /\ calls \in [Callers -> Call]
    /\ issued \subseteq Sessions
    /\ commands \in [Commands -> CommandRow]
    /\ refusal \in Slots \cup {None}
    /\ guestBudget \in [GuestKinds -> Nat]

GuestInit ==
    /\ invitations = [i \in Invitations |-> [made |-> FALSE, revoked |-> FALSE, expired |-> FALSE,
                                             open |-> FALSE, slot |-> None, session |-> None]]
    /\ tabs = [t \in Tabs |-> [on |-> None, session |-> None, page |-> "ready", beating |-> FALSE]]
    /\ room = [i \in Invitations |-> None]
    /\ calls = [c \in Callers |-> Idle]
    /\ issued = {}
    /\ commands = [k \in Commands |-> [status |-> "none", heard |-> FALSE]]
    /\ refusal = None
    /\ guestBudget \in GuestBudgets

----------------------------------------------------------------------------
(* Helpers: a step of a request, and the conditions handlers share. *)

Afford(kind) ==
    /\ guestBudget[kind] > 0
    /\ guestBudget' = [guestBudget EXCEPT ![kind] = @ - 1]

At(c, step) == calls[c].step = step
Go(c, step) == calls' = [calls EXCEPT ![c].step = step]
Done(c) == calls' = [calls EXCEPT ![c] = Idle]
Begin(c, call) == At(c, "idle") /\ calls' = [calls EXCEPT ![c] = call]
Inv(c) == calls[c].inv

\* The rows resolveSlot, invitationForIdentity and the claim accept.
Live(i) == invitations[i].made /\ ~invitations[i].revoked /\ ~invitations[i].expired

\* The slots resolveSlot reads as occupied.
Occupied == {invitations[i].slot : i \in {j \in Invitations : Live(j)}}

\* Mutant: the numbers start at zero.
FreeSlotsFromZero == (Slots \cup {0}) \ Occupied

\* The slot numbers resolveSlot finds free, in order from one.
FreeSlots == Slots \ Occupied

\* Mutant: the slot resolveSlot found is trusted.
SlotIsTrusted(s) == s \in Slots

\* @@unique([programId, slotNumber]) lets a row with this slot in.
SlotIsUnused(s) == \A i \in Invitations : invitations[i].slot # s

\* Mutant: the expiry is left to the lease.
HasSessionAnyway(i, s) == invitations[i].made /\ invitations[i].session = s /\ invitations[i].open

\* requireActiveSession: the row the session token names is held by it, now.
HasSession(i, s) == Live(i) /\ invitations[i].session = s /\ invitations[i].open

\* Mutant: the read before the claim is trusted.
MayClaimAsRead(i, s) == Live(i) /\ s \in Sessions

\* updateMany's condition in redeemInvitation, on the row as it is now.
MayClaim(i, s) ==
    /\ Live(i)
    /\ \/ invitations[i].session = None
       \/ ~invitations[i].open
       \/ invitations[i].session = s

\* LiveKit closes the connection of participant guest-i: its page sees Disconnected.
Ejected(i) ==
    IF room[i] = None THEN tabs ELSE [tabs EXCEPT ![room[i]].page = "ended"]

\* A page closes its own connection.
LeavesRoom(t) == [i \in Invitations |-> IF room[i] = t THEN None ELSE room[i]]

----------------------------------------------------------------------------
(* Operators: create, replace, revoke, remove. *)

\* Insertions in flight: the ID supply must cover them.
Unmade == {i \in Invitations : ~invitations[i].made}
Creating == {c \in Callers : calls[c].op \in {"create", "replace"}}

\* createInvitation: validation, then resolveSlot.
CreateInvitation(o, wanted) ==
    /\ Afford("request")
    /\ Cardinality(Creating) < Cardinality(Unmade)
    /\ Begin(o, [Idle EXCEPT !.op = "create", !.step = "resolve", !.slot = wanted])
    /\ UNCHANGED <<invitations, tabs, room, issued, commands, refusal>>

\* resolveSlot: the wanted slot when it is free, the first free one when none is wanted.
\* A replacement always wants the slot it read, and null is not a slot number.
FoundSlots(o) ==
    LET wanted == calls[o].slot
    IN IF wanted # None THEN {wanted} \cap FreeSlots
       ELSE {s \in FreeSlots : calls[o].op = "create" /\ \A r \in FreeSlots : s <= r}

ResolveSlot(o) ==
    /\ At(o, "resolve")
    /\ \/ FoundSlots(o) = {} /\ Done(o)
       \/ \E s \in FoundSlots(o) : calls' = [calls EXCEPT ![o].slot = s, ![o].step = "room"]
    /\ UNCHANGED <<invitations, tabs, room, issued, commands, refusal, guestBudget>>

\* ensureRoom failed: nothing is inserted.
RoomFails(o) ==
    /\ At(o, "room") /\ Afford("fault") /\ Done(o)
    /\ UNCHANGED <<invitations, tabs, room, issued, commands, refusal>>

\* guestInvitation.create, which the unique index may refuse.
Insert(o) ==
    /\ At(o, "room")
    /\ Unmade # {}
    /\ LET s == calls[o].slot
       IN IF SlotIsUnused(s)
          THEN LET i == CHOOSE j \in Unmade : TRUE
               IN /\ invitations' = [invitations EXCEPT ![i].made = TRUE, ![i].slot = s]
                  /\ UNCHANGED refusal
          ELSE refusal' = s /\ UNCHANGED invitations
    /\ Done(o)
    /\ UNCHANGED <<tabs, room, issued, commands, guestBudget>>

\* revokeInvitation: the row as read decides whether it is written.
Revoking(o, op, i, slot) ==
    [Idle EXCEPT !.op = op, !.inv = i, !.slot = slot,
                 !.step = IF invitations[i].revoked THEN "disconnect" ELSE "revoke"]

RevokeInvitation(o, i) ==
    /\ Afford("request")
    /\ invitations[i].made
    /\ Begin(o, Revoking(o, "revoke", i, None))
    /\ UNCHANGED <<invitations, tabs, room, issued, commands, refusal>>

\* replaceInvitation reads the row once for itself and once in revokeInvitation.
ReplaceInvitation(o, i) ==
    /\ Afford("request")
    /\ invitations[i].made
    /\ Cardinality(Creating) < Cardinality(Unmade)
    /\ Begin(o, [Idle EXCEPT !.op = "replace", !.step = "reread", !.inv = i,
                             !.slot = invitations[i].slot])
    /\ UNCHANGED <<invitations, tabs, room, issued, commands, refusal>>

Reread(o) ==
    /\ At(o, "reread")
    /\ calls' = [calls EXCEPT ![o] = Revoking(o, "replace", Inv(o), calls[o].slot)]
    /\ UNCHANGED <<invitations, tabs, room, issued, commands, refusal, guestBudget>>

RevokeRow(o) ==
    /\ At(o, "revoke")
    /\ invitations' = [invitations EXCEPT ![Inv(o)] =
           [@ EXCEPT !.revoked = TRUE, !.slot = None, !.session = None, !.open = FALSE]]
    /\ Go(o, "disconnect")
    /\ UNCHANGED <<tabs, room, issued, commands, refusal, guestBudget>>

\* disconnectIfPresent, then what the handler that called it does next.
Disconnect(o) ==
    /\ At(o, "disconnect")
    /\ tabs' = Ejected(Inv(o))
    /\ room' = [room EXCEPT ![Inv(o)] = None]
    /\ CASE calls[o].op = "revoke" -> Done(o)
         [] calls[o].op = "replace" -> Go(o, "resolve")
         [] OTHER -> Go(o, "release")
    /\ UNCHANGED <<invitations, issued, commands, refusal, guestBudget>>

\* LiveKit is unavailable: the handler throws, and what it wrote stays.
DisconnectFails(o) ==
    /\ At(o, "disconnect") /\ Afford("fault") /\ Done(o)
    /\ UNCHANGED <<invitations, tabs, room, issued, commands, refusal>>

\* removeParticipant disconnects first and frees the session afterwards.
RemoveParticipant(o, i) ==
    /\ Afford("request")
    /\ Live(i)
    /\ Begin(o, [Idle EXCEPT !.op = "remove", !.step = "disconnect", !.inv = i])
    /\ UNCHANGED <<invitations, tabs, room, issued, commands, refusal>>

ReleaseSession(o) ==
    /\ At(o, "release")
    /\ invitations' = [invitations EXCEPT ![Inv(o)].session = None, ![Inv(o)].open = FALSE]
    /\ Done(o)
    /\ UNCHANGED <<tabs, room, issued, commands, refusal, guestBudget>>

----------------------------------------------------------------------------
(* Guests: join, heartbeat, leave. *)

\* join(): the page posts the invitation and the session its storage holds.
Join(t, i) ==
    /\ Afford("join")
    /\ invitations[i].made
    /\ tabs[t].page = "ready" /\ tabs[t].on \in {None, i}
    /\ Begin(t, [Idle EXCEPT !.op = "join", !.step = "verify", !.inv = i, !.session = tabs[t].session])
    /\ tabs' = [tabs EXCEPT ![t].page = "joining", ![t].on = i]
    /\ UNCHANGED <<invitations, room, issued, commands, refusal>>

\* A refused join shows its error on the page, which may try again.
Refuse(t) ==
    /\ Done(t)
    /\ tabs' = [tabs EXCEPT ![t].page = IF @ = "joining" THEN "ready" ELSE @]

\* redeemInvitation reads the row, checks it and picks the session ID.
Verify(t) ==
    /\ At(t, "verify")
    /\ IF ~Live(Inv(t)) THEN Refuse(t) /\ UNCHANGED issued
       ELSE LET fresh == CHOOSE s \in Sessions : s \notin issued
                s == IF calls[t].session # None THEN calls[t].session ELSE fresh
            IN /\ s \in Sessions \* bounded by the supply of IDs
               /\ calls' = [calls EXCEPT ![t].session = s, ![t].step = "claim"]
               /\ issued' = issued \cup {s}
               /\ UNCHANGED tabs
    /\ UNCHANGED <<invitations, room, commands, refusal, guestBudget>>

\* The conditional updateMany: it checks again what was read, on the row as it is now.
Claim(t) ==
    /\ At(t, "claim")
    /\ LET i == Inv(t)  s == calls[t].session
       IN IF MayClaim(i, s)
          THEN /\ invitations' = [invitations EXCEPT ![i].session = s, ![i].open = TRUE]
               /\ Go(t, "issue") /\ UNCHANGED tabs
          ELSE Refuse(t) /\ UNCHANGED invitations
    /\ UNCHANGED <<room, issued, commands, refusal, guestBudget>>

\* The token_issued event and the answer with the LiveKit token.
Issue(t) ==
    /\ At(t, "issue")
    /\ Done(t)
    /\ tabs' = [tabs EXCEPT ![t].session = calls[t].session, ![t].page = "connecting"]
    /\ UNCHANGED <<invitations, room, issued, commands, refusal, guestBudget>>

\* The answer is lost: the page never learns its session ID.
IssueLost(t) ==
    /\ At(t, "issue") /\ Afford("lost") /\ Refuse(t)
    /\ UNCHANGED <<invitations, room, issued, commands, refusal>>

\* room.connect: LiveKit admits the token, whatever became of the row, and closes
\* an older connection of the same identity.
Admitted(t, page, beating) ==
    LET i == tabs[t].on
    IN /\ tabs' = [Ejected(i) EXCEPT ![t].page = page, ![t].beating = beating]
       /\ room' = [room EXCEPT ![i] = t]

EnterRoom(t) ==
    /\ tabs[t].page = "connecting"
    /\ Admitted(t, "live", TRUE)
    /\ UNCHANGED <<invitations, calls, issued, commands, refusal, guestBudget>>

\* A device fails after the connection: join() shows its error and starts no heartbeat.
DeviceFails(t) ==
    /\ tabs[t].page = "connecting" /\ Afford("device")
    /\ Admitted(t, "ready", tabs[t].beating)
    /\ UNCHANGED <<invitations, calls, issued, commands, refusal>>

\* The connection is lost for good; the heartbeat timer goes on.
DropOut(t) ==
    /\ tabs[t].page = "live" /\ Afford("lost")
    /\ room' = LeavesRoom(t)
    /\ tabs' = [tabs EXCEPT ![t].page = "ended"]
    /\ UNCHANGED <<invitations, calls, issued, commands, refusal>>

\* The guest leaves or reloads the page: its storage keeps the session.
Leave(t) ==
    /\ tabs[t].page \in {"live", "ended"}
    /\ room' = LeavesRoom(t)
    /\ tabs' = [tabs EXCEPT ![t].page = "ready", ![t].beating = FALSE]
    /\ UNCHANGED <<invitations, calls, issued, commands, refusal, guestBudget>>

\* The 20-second timer, with at most one request of the page in flight.
Heartbeat(t) ==
    /\ tabs[t].beating
    /\ Begin(t, [Idle EXCEPT !.op = "beat", !.step = "check", !.inv = tabs[t].on, !.session = tabs[t].session])
    /\ UNCHANGED <<invitations, tabs, room, issued, commands, refusal, guestBudget>>

\* requireActiveSession, and the 401 that ends a page whose heartbeat it answers.
CheckSession(t) ==
    /\ At(t, "check")
    /\ IF HasSession(Inv(t), calls[t].session)
       THEN /\ Go(t, IF calls[t].op = "beat" THEN "renew" ELSE "find")
            /\ UNCHANGED <<tabs, room>>
       ELSE /\ Done(t)
            /\ IF calls[t].op = "beat" /\ tabs[t].beating
               THEN /\ tabs' = [tabs EXCEPT ![t].beating = FALSE,
                                            ![t].page = IF @ = "live" THEN "ended" ELSE @]
                    /\ room' = LeavesRoom(t)
               ELSE UNCHANGED <<tabs, room>>
    /\ UNCHANGED <<invitations, issued, commands, refusal, guestBudget>>

\* The update names the row only: whoever holds the session by now is extended.
Renew(t) ==
    /\ At(t, "renew")
    /\ invitations' = [invitations EXCEPT ![Inv(t)].open = TRUE]
    /\ Done(t)
    /\ UNCHANGED <<tabs, room, issued, commands, refusal, guestBudget>>

----------------------------------------------------------------------------
(* Director commands. *)

\* controlParticipant: invitationForIdentity, then the row is created.
ControlParticipant(o, i, op, k) ==
    /\ Afford("command")
    /\ Live(i) /\ commands[k].status = "none"
    /\ \A c \in Callers : calls[c].command # k
    /\ Begin(o, [Idle EXCEPT !.op = op, !.step = "persist", !.inv = i, !.command = k])
    /\ UNCHANGED <<invitations, tabs, room, issued, commands, refusal>>

PersistCommand(o) ==
    /\ At(o, "persist")
    /\ commands' = [commands EXCEPT ![calls[o].command].status = "requested"]
    /\ Go(o, "send")
    /\ UNCHANGED <<invitations, tabs, room, issued, refusal, guestBudget>>

\* A message is data to the participant, if there is one; a mute is LiveKit's own and needs one.
SendCommand(o) ==
    /\ At(o, "send")
    /\ LET k == calls[o].command  present == room[Inv(o)] # None
       IN IF calls[o].op = "mute" /\ ~present
          THEN commands' = [commands EXCEPT ![k].status = "failed"] /\ Done(o)
          ELSE /\ commands' = [commands EXCEPT ![k].heard = present /\ calls[o].op = "message"]
               /\ Go(o, "mark")
    /\ UNCHANGED <<invitations, tabs, room, issued, refusal, guestBudget>>

SendFails(o) ==
    /\ At(o, "send") /\ Afford("fault") /\ Done(o)
    /\ commands' = [commands EXCEPT ![calls[o].command].status = "failed"]
    /\ UNCHANGED <<invitations, tabs, room, issued, refusal>>

MarkDelivered(o) ==
    /\ At(o, "mark")
    /\ commands' = [commands EXCEPT ![calls[o].command].status = "delivered"]
    /\ Done(o)
    /\ UNCHANGED <<invitations, tabs, room, issued, refusal, guestBudget>>

\* The page reads the message, or the guest responds to it.
Acknowledge(t, k) ==
    /\ tabs[t].page = "live" /\ room[tabs[t].on] = t
    /\ commands[k].heard
    /\ Begin(t, [Idle EXCEPT !.op = "acknowledge", !.step = "check", !.inv = tabs[t].on,
                             !.session = tabs[t].session, !.command = k])
    /\ commands' = [commands EXCEPT ![k].heard = FALSE]
    /\ UNCHANGED <<invitations, tabs, room, issued, refusal, guestBudget>>

FindCommand(t) ==
    /\ At(t, "find")
    /\ Go(t, "answer")
    /\ UNCHANGED <<invitations, tabs, room, issued, commands, refusal, guestBudget>>

AnswerCommand(t) ==
    /\ At(t, "answer")
    /\ commands' = [commands EXCEPT ![calls[t].command].status = "answered"]
    /\ Done(t)
    /\ UNCHANGED <<invitations, tabs, room, issued, refusal, guestBudget>>

----------------------------------------------------------------------------
(* Time. *)

\* Sixty seconds pass without a renewal.
Lapse(i) ==
    /\ invitations[i].open /\ Afford("lapse")
    /\ invitations' = [invitations EXCEPT ![i].open = FALSE]
    /\ UNCHANGED <<tabs, room, calls, issued, commands, refusal>>

Expire(i) ==
    /\ invitations[i].made /\ ~invitations[i].expired /\ Afford("expire")
    /\ invitations' = [invitations EXCEPT ![i].expired = TRUE]
    /\ UNCHANGED <<tabs, room, calls, issued, commands, refusal>>

----------------------------------------------------------------------------
OperatorStep(o) ==
    \/ ResolveSlot(o) \/ Insert(o) \/ Reread(o) \/ RevokeRow(o)
    \/ Disconnect(o) \/ ReleaseSession(o)
    \/ PersistCommand(o) \/ SendCommand(o) \/ MarkDelivered(o)

GuestStep(t) ==
    \/ Verify(t) \/ Claim(t) \/ Issue(t) \/ CheckSession(t) \/ Renew(t)
    \/ FindCommand(t) \/ AnswerCommand(t)

GuestFaults ==
    \/ \E o \in Operators : RoomFails(o) \/ DisconnectFails(o) \/ SendFails(o)
    \/ \E t \in Tabs : IssueLost(t) \/ DeviceFails(t) \/ DropOut(t)

GuestNext ==
    \/ \E o \in Operators :
        \/ \E s \in Slots \cup {None} : CreateInvitation(o, s)
        \/ \E i \in Invitations : RevokeInvitation(o, i) \/ ReplaceInvitation(o, i) \/ RemoveParticipant(o, i)
        \/ \E i \in Invitations, op \in {"message", "mute"}, k \in Commands : ControlParticipant(o, i, op, k)
        \/ OperatorStep(o)
    \/ \E t \in Tabs :
        \/ \E i \in Invitations : Join(t, i)
        \/ \E k \in Commands : Acknowledge(t, k)
        \/ EnterRoom(t) \/ Leave(t) \/ Heartbeat(t)
        \/ GuestStep(t)
    \/ \E i \in Invitations : Lapse(i) \/ Expire(i)
    \/ GuestFaults

GuestSpec == GuestInit /\ [][GuestNext]_guestVars

\* A live page's timer fires, and the requests the backend has accepted are carried out.
GuestFairness ==
    /\ \A o \in Operators : WF_guestVars(OperatorStep(o))
    /\ \A t \in Tabs : WF_guestVars(Heartbeat(t)) /\ WF_guestVars(GuestStep(t))

----------------------------------------------------------------------------
\* The claim of redeemInvitation, the heartbeats, removals and revocations, however they
\* overlap, implement one exclusive lease per invitation that closes for good.
Lease == INSTANCE SessionLease WITH
    holder <- [i \in Invitations |-> invitations[i].session],
    running <- [i \in Invitations |-> invitations[i].session # None /\ invitations[i].open],
    closed <- {i \in Invitations : invitations[i].revoked}

LeaseIsKept == Lease!LeaseSpec

\* Two invitations never hold one guest slot, although resolveSlot reads the free slots
\* several awaits before the row is inserted and a replacement frees its slot in between.
SlotsAreExclusive ==
    \A i, j \in Invitations :
        i # j /\ invitations[i].slot # None => invitations[i].slot # invitations[j].slot

\* A revoked or expired guest leaves the studio for good, even one whose page connects
\* with a token issued before the revocation: its next heartbeat is refused.
EndedGuestLeaves ==
    \A i \in Invitations : invitations[i].revoked \/ invitations[i].expired ~> [](room[i] = None)

\* Refuted: a slot resolveSlot finds free can be assigned (README.md: six reusable guest slots).
SlotsAreReusable == [][refusal' # refusal => \E i \in Invitations : Live(i) /\ invitations[i].slot = refusal']_guestVars

\* Refuted: the guest's answer to a command stays recorded.
AnswersStand == [][\A k \in Commands : commands[k].status = "answered" => commands'[k].status = "answered"]_guestVars
================================================================================
