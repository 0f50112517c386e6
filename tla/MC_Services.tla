------------------------------ MODULE MC_Services ------------------------------
(***************************************************************************)
(* Instances of three services that share no state: the guests of a        *)
(* program, an operator's preferences and the realtime delivery of a       *)
(* program.  Every initial state gives one of them something to spend and  *)
(* leaves the two others at rest, so one run explores each on its own.     *)
(***************************************************************************)
EXTENDS GuestInvitations, OperatorPreferences, ProgramRealtime, TLC

CONSTANTS i1, i2, t1, t2, o1, o2, s1, s2, k1, b1, b2, subject, x1, x2, console1, renderer1, operator

Spend(kinds, f) == [k \in kinds |-> IF k \in DOMAIN f THEN f[k] ELSE 0]
AtRest == [a |-> 0]

GuestRest    == Spend(GuestKinds, AtRest)
PrefRest     == Spend(PrefKinds, AtRest)
RealtimeRest == Spend(RealtimeKinds, AtRest)

Guests == {GuestRest,
    Spend(GuestKinds, [request |-> 2, join |-> 2, lapse |-> 1]),
    Spend(GuestKinds, [request |-> 2, join |-> 1, expire |-> 1, fault |-> 1]),
    Spend(GuestKinds, [request |-> 3, join |-> 1]),
    Spend(GuestKinds, [request |-> 1, join |-> 1, command |-> 1, fault |-> 1, lost |-> 1]),
    Spend(GuestKinds, [request |-> 1, join |-> 2, device |-> 1])}

Profiles == {PrefRest,
    Spend(PrefKinds, [edit |-> 3]),
    Spend(PrefKinds, [edit |-> 2, fault |-> 1, link |-> 1]),
    Spend(PrefKinds, [edit |-> 1, reload |-> 1, fault |-> 1]),
    Spend(PrefKinds, [edit |-> 2, reset |-> 1])}

Deliveries == {RealtimeRest,
    Spend(RealtimeKinds, [change |-> 2, console |-> 2, drop |-> 1]),
    Spend(RealtimeKinds, [change |-> 2, renderer |-> 1, poll |-> 1]),
    Spend(RealtimeKinds, [change |-> 3, hand |-> 2, fail |-> 1]),
    Spend(RealtimeKinds, [change |-> 1, hand |-> 2, renderer |-> 1, poll |-> 1]),
    Spend(RealtimeKinds, [change |-> 1, fade |-> 1, console |-> 1]),
    Spend(RealtimeKinds, [poll |-> 1, restart |-> 1, console |-> 2, renderer |-> 1])}

SignIn == [b \in {b1, b2} |-> subject]

OneAtATime ==
    /\ Cardinality({guestBudget, prefBudget, realtimeBudget} \ {GuestRest, PrefRest, RealtimeRest}) = 1
    /\ prefBudget = PrefRest => linked = {}

Init == GuestInit /\ PrefInit /\ RealtimeInit /\ OneAtATime

Next ==
    \/ GuestNext /\ UNCHANGED <<prefVars, realtimeVars>>
    \/ PrefNext /\ UNCHANGED <<guestVars, realtimeVars>>
    \/ RealtimeNext /\ UNCHANGED <<guestVars, prefVars>>

Spec == Init /\ [][Next]_<<guestVars, prefVars, realtimeVars>>

\* Nothing but one change and state reads that it overtakes.
NoGuests == {GuestRest}
NoProfiles == {PrefRest}
Overtaking == {Spend(RealtimeKinds, [change |-> 1, renderer |-> 1, console |-> 1, slow |-> 1])}

\* Type correctness of the consoles and of the pages, each in its own module.
PagesTypeOK == PrefTypeOK /\ RealtimeTypeOK

FairSpec == Spec /\ GuestFairness /\ PrefFairness
================================================================================
