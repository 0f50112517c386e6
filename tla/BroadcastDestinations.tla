-------------------------- MODULE BroadcastDestinations --------------------------
(***************************************************************************)
(* Destination-carrying Start, Stop and Reload of one television program:  *)
(* BroadcastDestinationsService, its tables, the Alana client and Alana    *)
(* (backend/src/broadcast-destinations, with Alana as its fixture          *)
(* backend/test/fixtures/alana-recording-server.mjs implements it).        *)
(*                                                                         *)
(*   catalog     the planning records: pinned secret version, retirement   *)
(*   selections  the immutable snapshots; a version is its position        *)
(*   commands    the audit commands by operator-supplied command ID        *)
(*   runtime     nextSequence of broadcastDestinationRuntime, whose other  *)
(*               columns are written and never read                        *)
(*   requests    the HTTP request each client has open                     *)
(*   reads       getProgramState requests between their read and write     *)
(*   wire        calls on their way to Alana; `from` is None once the      *)
(*               caller has given up waiting                               *)
(*   alana       what Alana runs, its pending selection, its last sequence *)
(*   accepted    every start and stop Alana accepted (history)             *)
(*   order       the commands in the order they were stored (history)      *)
(*   left        how often the environment may still do each thing (bound) *)
(*                                                                         *)
(* A selection is the pinned secret version of each chosen destination: a  *)
(* hash or the ordered IDs differ exactly when that function does.         *)
(***************************************************************************)
EXTENDS Integers, Sequences

CONSTANTS Destinations, Commands, Clients, None,
          Pins,             \* secretVersionId values
          AlanaSequence,    \* the last sequence Alana accepted before this database
          Budget            \* how often each environment step may happen

Kinds == {"request", "background", "fault"}

VARIABLES catalog, selections, commands, runtime, requests, reads, wire, alana,
          accepted, order, left
vars == <<catalog, selections, commands, runtime, requests, reads, wire, alana,
          accepted, order, left>>
store == <<catalog, selections, commands, runtime, order>>

Actions == {"reload", "start", "stop"}

\* The pinned version of each chosen destination.
Selection == UNION {[ids -> Pins] : ids \in (SUBSET Destinations) \ {{}}}

\* An immutable selection as it is sent: its version and its content.
Payload == [version : Nat, pins : Selection]

\* What a command ID was used for: action, destination IDs and the selection
\* version it names (0 for none), as commandRequestHash tells them apart.
Request == [action : Actions, ids : SUBSET Destinations, version : Nat]

Command == [request : Request, seq : Nat, version : Nat,
            status : {"pending", "succeeded", "failed"}]

Call == [from : Clients \cup {None}, call : Actions, cmd : Commands, seq : Nat,
         payload : Payload \cup {None}]

Closed == [stage |-> "closed"]

ASSUME BroadcastAssumption == /\ None \notin Clients \cup Command \cup Payload
                              /\ AlanaSequence \in Nat
                              /\ Budget \in [Kinds -> Nat]

Spend(kind) == left[kind] > 0 /\ left' = [left EXCEPT ![kind] = @ - 1]

Larger(a, b) == IF a < b THEN b ELSE a

Init ==
    /\ catalog \in [Destinations -> [pin : Pins, retired : {FALSE}]]
    /\ selections = <<>>
    /\ commands = [c \in Commands |-> None]
    /\ runtime = 1
    /\ requests = [client \in Clients |-> Closed]
    /\ reads = {}
    /\ wire = {}
    /\ alana = [on |-> FALSE, active |-> None, pending |-> None, last |-> AlanaSequence]
    /\ accepted = {}
    /\ order = <<>>
    /\ left = Budget

--------------------------------------------------------------------------------
\* The catalog

\* updateDestination pins another secret version.
EditDestination(d, pin) ==
    /\ catalog[d].pin # pin
    /\ Spend("background")
    /\ catalog' = [catalog EXCEPT ![d].pin = pin]
    /\ UNCHANGED <<selections, commands, runtime, requests, reads, wire, alana, accepted, order>>

\* setRetired retires or restores.
SetRetired(d, retired) ==
    /\ catalog[d].retired # retired
    /\ Spend("background")
    /\ catalog' = [catalog EXCEPT ![d].retired = retired]
    /\ UNCHANGED <<selections, commands, runtime, requests, reads, wire, alana, accepted, order>>

\* assertCurrentlySelectable
Selectable(ids) == ids # {} /\ \A d \in ids : ~catalog[d].retired

--------------------------------------------------------------------------------
\* Alana

\* The answer reaches the caller that still waits for it.
Reply(m, ok, ack) ==
    /\ wire' = wire \ {m}
    /\ requests' = IF m.from = None THEN requests
                   ELSE [requests EXCEPT ![m.from] =
                            [@ EXCEPT !.stage = "answered", !.ok = ok, !.ack = ack]]

TakesReload(m) ==
    /\ m.call = "reload"
    /\ IF alana.on THEN Reply(m, FALSE, None) /\ UNCHANGED alana
       ELSE Reply(m, TRUE, m.payload) /\ alana' = [alana EXCEPT !.pending = m.payload]
    /\ UNCHANGED <<accepted, left>>

\* Alana takes only commands with a sequence above the last one it accepted.
Newer(seq) == seq > alana.last

\* A start that does not contradict the pending selection.  Alana may come to
\* run something other than the exact selection (partial).
TakesStart(m) ==
    /\ m.call = "start"
    /\ IF ~Newer(m.seq) \/ (alana.pending # None /\ alana.pending # m.payload)
       THEN Reply(m, FALSE, None) /\ UNCHANGED <<alana, accepted, left>>
       ELSE \E partial \in BOOLEAN :
                LET runs == IF partial THEN None ELSE m.payload
                IN  /\ IF partial THEN Spend("fault") ELSE UNCHANGED left
                    /\ alana' = [on |-> TRUE, active |-> runs, pending |-> None,
                                 last |-> m.seq]
                    /\ accepted' = accepted \cup {[cmd |-> m.cmd, call |-> "start",
                                                   seq |-> m.seq, runs |-> runs]}
                    /\ Reply(m, TRUE, runs)

TakesStop(m) ==
    /\ m.call = "stop"
    /\ IF ~Newer(m.seq) THEN Reply(m, FALSE, None) /\ UNCHANGED <<alana, accepted>>
       ELSE /\ alana' = [on |-> FALSE, active |-> None, pending |-> alana.active,
                         last |-> m.seq]
            /\ accepted' = accepted \cup {[cmd |-> m.cmd, call |-> "stop",
                                           seq |-> m.seq, runs |-> None]}
            /\ Reply(m, TRUE, None)
    /\ UNCHANGED left

AlanaTakes(m) ==
    /\ m \in wire
    /\ TakesReload(m) \/ TakesStart(m) \/ TakesStop(m)
    /\ UNCHANGED <<store, reads>>

--------------------------------------------------------------------------------
\* A command request

Close(client) == requests' = [requests EXCEPT ![client] = Closed]

\* reload, start or stop is called and reads Alana's status; a reload ends here
\* when Alana is not stopped.
Begin(client, cmd, request) ==
    /\ requests[client] = Closed
    /\ (request.action = "stop") = (request.ids = {})
    /\ request.action = "stop" => request.version = 0
    /\ request.action = "reload" => ~alana.on
    /\ Spend("request")
    /\ requests' = [requests EXCEPT ![client] =
                       [stage |-> "asked", cmd |-> cmd, request |-> request,
                        call |-> request.action, stopped |-> ~alana.on, last |-> alana.last,
                        seq |-> 0, version |-> 0, ok |-> FALSE, ack |-> None]]
    /\ UNCHANGED <<store, reads, wire, alana, accepted>>

\* Mutant of SelectionPayload: the references the catalog has now.
CatalogPayload(version) ==
    [version |-> version, pins |-> [d \in DOMAIN selections[version] |-> catalog[d].pin]]

\* What a command sends: the stored snapshot, not the catalog.
SelectionPayload(version) == [version |-> version, pins |-> selections[version]]

\* The selection goes with every call but a stop.
Send(client, request) ==
    /\ wire' = wire \cup {[from |-> client, call |-> request.call, cmd |-> request.cmd,
                           seq |-> request.seq,
                           payload |-> IF request.call = "stop" THEN None
                                       ELSE SelectionPayload(request.version)]}
    /\ requests' = [requests EXCEPT ![client] = [request EXCEPT !.stage = "calling"]]

\* Mutant of SendFirst: a retry is given a new sequence.
SendFirstAfresh(client, seq, version) ==
    LET r == requests[client]
    IN  Send(client, [r EXCEPT !.seq = Larger(seq, r.last + 1), !.version = version,
                               !.call = IF @ = "start" /\ r.stopped THEN "reload" ELSE @])

\* A prepared command: a start reloads the selection first when Alana was stopped.
SendFirst(client, seq, version) ==
    LET r == requests[client]
    IN  Send(client, [r EXCEPT !.seq = seq, !.version = version,
                               !.call = IF @ = "start" /\ r.stopped THEN "reload" ELSE @])

\* prepareCommand looks the command ID up: used for another request (409),
\* already succeeded (the recorded result), to be retried, or new.
LookUp(client) ==
    LET r == requests[client]
        prior == commands[r.cmd]
    IN  /\ r.stage = "asked"
        /\ IF prior = None
           THEN /\ requests' = [requests EXCEPT ![client].stage = "new"]
                /\ UNCHANGED wire
           ELSE IF prior.request # r.request \/ prior.status = "succeeded"
           THEN Close(client) /\ UNCHANGED wire
           ELSE SendFirst(client, prior.seq, prior.version)
        /\ UNCHANGED <<store, reads, alana, accepted, left>>

\* resolveSelection: an existing version must match and still be selectable; a
\* new one snapshots the catalog.
Resolve(client) ==
    LET r == requests[client]
        ids == r.request.ids
        version == r.request.version
        resolved(v) == requests' = [requests EXCEPT ![client] =
                                       [r EXCEPT !.stage = "resolved", !.version = v]]
    IN  /\ r.stage = "new"
        /\ \/ /\ r.request.action = "stop"
              /\ resolved(0) /\ UNCHANGED selections
           \/ /\ r.request.action # "stop" /\ version # 0 /\ Selectable(ids)
              /\ DOMAIN selections[version] = ids
              /\ resolved(version) /\ UNCHANGED selections
           \/ /\ r.request.action # "stop" /\ version = 0 /\ Selectable(ids)
              /\ selections' = Append(selections, [d \in ids |-> catalog[d].pin])
              /\ resolved(Len(selections'))
           \/ /\ r.request.action # "stop"
              /\ ~Selectable(ids) \/ (version # 0 /\ DOMAIN selections[version] # ids)
              /\ Close(client) /\ UNCHANGED selections
        /\ UNCHANGED <<catalog, commands, runtime, order, reads, wire, alana, accepted, left>>

\* The sequence a new command is given.
NextSequence(last) == Larger(runtime, last + 1)

\* The ID and, per program, the sequence of a command are unique.
Storable(cmd, seq) ==
    commands[cmd] = None /\ \A c \in Commands : commands[c] # None => commands[c].seq # seq

\* The serializable transaction that allocates the sequence and stores the
\* command; a unique violation rolls it back and ends the request.
Store(client) ==
    LET r == requests[client]
        seq == NextSequence(r.last)
    IN  /\ r.stage = "resolved"
        /\ IF Storable(r.cmd, seq)
           THEN /\ runtime' = seq + 1
                /\ commands' = [commands EXCEPT ![r.cmd] =
                                   [request |-> r.request, seq |-> seq, version |-> r.version,
                                    status |-> "pending"]]
                /\ order' = Append(order, r.cmd)
                /\ SendFirst(client, seq, r.version)
           ELSE Close(client) /\ UNCHANGED <<runtime, commands, order, wire>>
        /\ UNCHANGED <<catalog, selections, reads, alana, accepted, left>>

\* Mutant of Record: the state Alana reports is written as the status.
RecordDownstream(client, status) ==
    /\ commands' = [commands EXCEPT ![requests[client].cmd].status =
                       IF status = "succeeded" THEN "running" ELSE status]
    /\ Close(client)

\* finishCommand and failCommand write whatever status they come to.
Record(client, status) ==
    /\ commands' = [commands EXCEPT ![requests[client].cmd].status = status]
    /\ Close(client)

\* Mutant of Acknowledged: any positive answer will do.
AcknowledgedAnyhow(r) == r.ok

\* A positive answer that, unless to a stop, names the exact selection.
Acknowledged(r) ==
    r.ok /\ (r.call # "stop" => r.ack = SelectionPayload(r.version))

\* Alana's answer: the start that follows its reload, or the command's outcome.
Answered(client) ==
    LET r == requests[client]
    IN  /\ r.stage = "answered"
        /\ IF Acknowledged(r) /\ r.call # r.request.action
           THEN Send(client, [r EXCEPT !.call = r.request.action]) /\ UNCHANGED commands
           ELSE /\ Record(client, IF Acknowledged(r) THEN "succeeded" ELSE "failed")
                /\ UNCHANGED wire
        /\ UNCHANGED <<catalog, selections, runtime, order, reads, alana, accepted, left>>

\* Nobody waits for the calls of these clients any more; Alana may still take them.
Abandon(clients) ==
    wire' = {IF m.from \in clients THEN [m EXCEPT !.from = None] ELSE m : m \in wire}

\* The call fails, its ten seconds pass, or its outcome cannot be recorded, with
\* or without Alana having acted.
CallFails(client) ==
    /\ requests[client].stage \in {"calling", "answered"}
    /\ Spend("fault")
    /\ Record(client, "failed")
    /\ Abandon({client})
    /\ UNCHANGED <<catalog, selections, runtime, order, reads, alana, accepted>>

\* The backend restarts: every open request is lost, the tables are not.
Restart ==
    /\ Spend("fault")
    /\ requests' = [client \in Clients |-> Closed]
    /\ reads' = {}
    /\ Abandon(Clients)
    /\ UNCHANGED <<store, alana, accepted>>

--------------------------------------------------------------------------------
\* getProgramState: reconcileRuntime reads nextSequence and, in a second
\* statement, writes it back, raised above Alana's last sequence.
StateReads ==
    /\ Spend("background")
    /\ reads' = reads \cup {NextSequence(alana.last)}
    /\ UNCHANGED <<store, requests, wire, alana, accepted>>

StateWrites(next) ==
    /\ next \in reads
    /\ reads' = reads \ {next}
    /\ runtime' = next
    /\ UNCHANGED <<catalog, selections, commands, order, requests, wire, alana, accepted, left>>

--------------------------------------------------------------------------------
CommandStep(client) == LookUp(client) \/ Resolve(client) \/ Store(client) \/ Answered(client)

Next ==
    \/ \E d \in Destinations, pin \in Pins : EditDestination(d, pin)
    \/ \E d \in Destinations, retired \in BOOLEAN : SetRetired(d, retired)
    \/ \E client \in Clients, cmd \in Commands, action \in Actions,
          ids \in SUBSET Destinations, version \in 0..Len(selections) :
          Begin(client, cmd, [action |-> action, ids |-> ids, version |-> version])
    \/ \E client \in Clients : CommandStep(client) \/ CallFails(client)
    \/ \E m \in wire : AlanaTakes(m)
    \/ StateReads
    \/ \E next \in reads : StateWrites(next)
    \/ Restart

Spec == Init /\ [][Next]_vars

--------------------------------------------------------------------------------
\* Type invariant
Open == [stage : {"asked", "new", "resolved", "calling", "answered"}, cmd : Commands,
         request : Request, call : Actions, stopped : BOOLEAN, last : Nat, seq : Nat,
         version : Nat, ok : BOOLEAN, ack : Payload \cup {None}]

TypeOK ==
    /\ catalog \in [Destinations -> [pin : Pins, retired : BOOLEAN]]
    /\ selections \in Seq(Selection)
    /\ commands \in [Commands -> Command \cup {None}]
    /\ runtime \in Nat
    /\ requests \in [Clients -> Open \cup {Closed}]
    /\ reads \subseteq Nat
    /\ wire \subseteq Call
    /\ alana \in [on : BOOLEAN, active : Payload \cup {None},
                  pending : Payload \cup {None}, last : Nat]
    /\ accepted \subseteq [cmd : Commands, call : Actions, seq : Nat,
                            runs : Payload \cup {None}]
    /\ order \in Seq(Commands)
    /\ left \in [Kinds -> Nat]

--------------------------------------------------------------------------------
\* Safety

\* A recorded success is real: "Alcantara reports Running only when Alana returns
\* Running and acknowledges the exact selection" (docs/broadcast-destinations.md),
\* through retries, abandoned calls and restarts.
SuccessIsReal ==
    \A c \in Commands :
        commands[c] # None /\ commands[c].status = "succeeded"
                           /\ commands[c].request.action = "start" =>
            \E a \in accepted :
                a.cmd = c /\ a.runs = [version |-> commands[c].version,
                                      pins |-> selections[commands[c].version]]

\* What Alana runs is the snapshot some command stored: no edit of the catalog,
\* retry or late call puts anything else on air, unless Alana itself deviates.
RunsTheSnapshot ==
    alana.active # None =>
        /\ alana.active.version \in 1..Len(selections)
        /\ alana.active.pins = selections[alana.active.version]
        /\ \E c \in Commands : commands[c] # None /\ commands[c].version = alana.active.version

\* Commands take effect in the order they were stored: once Alana accepted a
\* command, no retry or late call of one stored earlier does, so that a Start
\* from before a Stop never puts the broadcast back on air.
TakesEffectInOrder ==
    [][\A a \in accepted' \ accepted :
          ~\E later \in accepted, i, j \in 1..Len(order) :
              i <= j /\ order[i] = a.cmd /\ order[j] = later.cmd]_vars

\* A new command can be stored: the sequence it would be given, "above both its
\* local next value and Alana's last accepted sequence", was never allocated.
NextSequenceIsFree ==
    \A c \in Commands : commands[c] # None => commands[c].seq < NextSequence(alana.last)

================================================================================
