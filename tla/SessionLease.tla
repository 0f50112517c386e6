----------------------------- MODULE SessionLease ------------------------------
(***************************************************************************)
(* What a guest invitation promises its operator, whatever the handlers of *)
(* webrtc.service.ts overlap with: one session holds it at a time, another *)
(* one takes it only when it is free or its lease has run out, and a       *)
(* closed invitation is never held again.                                  *)
(***************************************************************************)
CONSTANTS Invitations, Sessions, None

VARIABLES
    holder,   \* [Invitations -> Sessions \cup {None}]
    running,  \* [Invitations -> BOOLEAN]: the lease of the holder has not run out
    closed    \* the invitations closed for good

leaseVars == <<holder, running, closed>>

LeaseInit ==
    /\ holder = [i \in Invitations |-> None]
    /\ running = [i \in Invitations |-> FALSE]
    /\ closed = {}

\* A session takes a free or lapsed invitation, or takes its own one again.
Take(i, s) ==
    /\ i \notin closed
    /\ holder[i] # None /\ holder[i] # s => ~running[i]
    /\ holder' = [holder EXCEPT ![i] = s]
    /\ running' = [running EXCEPT ![i] = TRUE]
    /\ UNCHANGED closed

\* A sign of life of the holder, which may arrive after the lease ran out.
Extend(i) ==
    /\ holder[i] # None
    /\ running' = [running EXCEPT ![i] = TRUE]
    /\ UNCHANGED <<holder, closed>>

RunOut(i) ==
    /\ running[i]
    /\ running' = [running EXCEPT ![i] = FALSE]
    /\ UNCHANGED <<holder, closed>>

Free(i) ==
    /\ holder' = [holder EXCEPT ![i] = None]
    /\ running' = [running EXCEPT ![i] = FALSE]
    /\ UNCHANGED closed

Close(i) ==
    /\ holder' = [holder EXCEPT ![i] = None]
    /\ running' = [running EXCEPT ![i] = FALSE]
    /\ closed' = closed \cup {i}

LeaseNext ==
    \E i \in Invitations :
        \/ \E s \in Sessions : Take(i, s)
        \/ Extend(i)
        \/ RunOut(i)
        \/ Free(i)
        \/ Close(i)

LeaseSpec == LeaseInit /\ [][LeaseNext]_leaseVars
================================================================================
