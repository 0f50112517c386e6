-------------------------- MODULE OperatorPreferences --------------------------
(***************************************************************************)
(* The console profile of one operator and device class: the optimistic    *)
(* versions of operator-preferences.service.ts and the consoles that edit  *)
(* it (contexts/ConsolePreferencesContext.tsx).  The operator signs in     *)
(* under several pool subjects, which the identity service links to one    *)
(* canonical principal sooner or later.  A profile is the number of the    *)
(* edit that made it, 0 the default profile of the device class.           *)
(***************************************************************************)
EXTENDS Naturals, FiniteSets

CONSTANTS
    Consoles,      \* browsers signed in as the operator
    Subjects,      \* pool subjects of the operator
    SubjectOf,     \* [Consoles -> Subjects]
    Missing,       \* no row, no conflict, no console
    PrefBudgets    \* what a behaviour may spend, one per instance explored

PrefKinds == {"edit", "reset", "fault", "reload", "link"}

ASSUME PrefAssumption ==
    /\ IsFiniteSet(Subjects)
    /\ SubjectOf \in [Consoles -> Subjects]
    /\ Missing \notin Subjects \cup Consoles
    /\ PrefBudgets \subseteq [PrefKinds -> Nat]

VARIABLES
    rows,        \* OperatorPreference by subject, [version, profile, owned] or Missing
    linked,      \* the subjects resolved to the canonical principal
    console,     \* what each console shows and remembers
    requests,    \* HTTP requests under way
    edits,       \* profiles made so far
    prefBudget

prefVars == <<rows, linked, console, requests, edits, prefBudget>>

Syncs == {"loading", "synced", "saving", "degraded", "conflict"}
Versioned == [version : Nat, profile : Nat]
PrefRow == [version : Nat, profile : Nat, owned : BOOLEAN]

ASSUME MissingAssumption == Missing \notin PrefRow

\* base is history: the profile the console's version was handed out with.
Console == [profile : Nat, version : Nat, base : Nat, dirty : BOOLEAN, sync : Syncs,
            conflict : [local : Nat, version : Nat, profile : Nat] \cup {Missing},
            cache : Versioned \cup {Missing}]

Request == [from : Consoles \cup {Missing}, subject : Subjects, principal : BOOLEAN,
            kind : {"get", "put", "delete"}, step : {"sent", "write", "reread", "answer"},
            version : Nat, profile : Nat, base : Nat,
            target : Subjects \cup {Missing}, owned : BOOLEAN,
            result : {"none", "ok", "conflict", "error"}, answer : Versioned]

\* Type correctness of the rows, the consoles and their requests.
PrefTypeOK ==
    /\ rows \in [Subjects -> PrefRow \cup {Missing}]
    /\ linked \subseteq Subjects
    /\ console \in [Consoles -> Console]
    /\ requests \subseteq Request
    /\ edits \in Nat
    /\ prefBudget \in [PrefKinds -> Nat]

Default == [version |-> 0, profile |-> 0]

Ask(c, kind) ==
    [from |-> c, subject |-> SubjectOf[c], principal |-> SubjectOf[c] \in linked,
     kind |-> kind, step |-> "sent",
     version |-> console[c].version, profile |-> console[c].profile, base |-> console[c].base,
     target |-> Missing, owned |-> FALSE, result |-> "none", answer |-> Default]

PrefInit ==
    /\ rows = [s \in Subjects |-> Missing]
    /\ linked \in SUBSET Subjects
    /\ console = [c \in Consoles |->
           [profile |-> 0, version |-> 0, base |-> 0, dirty |-> FALSE, sync |-> "synced",
            conflict |-> Missing, cache |-> Default]]
    /\ requests = {}
    /\ edits = 0
    /\ prefBudget \in PrefBudgets

PrefAfford(kind) ==
    /\ prefBudget[kind] > 0
    /\ prefBudget' = [prefBudget EXCEPT ![kind] = @ - 1]

----------------------------------------------------------------------------
(* The service. *)

\* ownedPreferenceWhere: the rows of the principal, and the subject's own unclaimed one.
Owned(r) ==
    {s \in Subjects : rows[s] # Missing /\ IF rows[s].owned THEN r.principal ELSE s = r.subject}

Advance(r, changes) == requests' = (requests \ {r}) \cup {changes}
Answer(r, result, value) ==
    Advance(r, [r EXCEPT !.step = "answer", !.result = result, !.answer = value])

\* The row findPreference returned, as get presents it.
Presented(found) ==
    IF found = {} THEN Default
    ELSE LET s == CHOOSE x \in found : TRUE
         IN [version |-> rows[s].version, profile |-> rows[s].profile]

\* get: two owned rows are CANONICAL_IDENTITY_COLLISION.
Get(r) ==
    /\ r.kind = "get" /\ r.step = "sent"
    /\ Answer(r, IF Cardinality(Owned(r)) > 1 THEN "error" ELSE "ok", Presented(Owned(r)))
    /\ UNCHANGED <<rows, linked, console, edits, prefBudget>>

\* save: which row the write is bound to, and in which ownership mode.
SelectRow(r) ==
    /\ r.kind = "put" /\ r.step = "sent"
    /\ LET found == Owned(r)
       IN IF Cardinality(found) > 1 THEN Answer(r, "error", Default)
          ELSE \E s \in IF found = {} THEN {r.subject} ELSE found :
                 Advance(r, [r EXCEPT !.step = "write", !.target = s,
                                      !.owned = found # {} /\ rows[s].owned])
    /\ UNCHANGED <<rows, linked, console, edits, prefBudget>>

\* Mutant: the update is bound to the owner only.
MatchesOwner(r) ==
    /\ rows[r.target] # Missing
    /\ rows[r.target].owned = r.owned

\* The row as it is now still has the version and the ownership the save is bound to.
Matches(r) ==
    LET row == rows[r.target]
    IN /\ row # Missing
       /\ row.version = r.version
       /\ row.owned = r.owned
       /\ ~r.owned => r.target = r.subject

\* The transaction: a profile at version 0 is created, any other is updated where it
\* matches; the write that fails reads the authoritative profile next.
Write(r) ==
    /\ r.kind = "put" /\ r.step = "write"
    /\ LET s == r.target
           Stored(v, owned) ==
               /\ rows' = [rows EXCEPT ![s] = [version |-> v, profile |-> r.profile, owned |-> owned]]
               /\ Answer(r, "ok", [version |-> v, profile |-> r.profile])
       IN \/ r.version = 0 /\ rows[s] = Missing /\ Stored(1, r.principal)
          \/ r.version > 0 /\ Matches(r) /\ Stored(r.version + 1, r.owned \/ r.principal)
          \/ /\ IF r.version = 0 THEN rows[s] # Missing ELSE ~Matches(r)
             /\ Advance(r, [r EXCEPT !.step = "reread"])
             /\ UNCHANGED rows
    /\ UNCHANGED <<linked, console, edits, prefBudget>>

\* The 409 carries what get returns now.
Authoritative(r) ==
    /\ r.step = "reread"
    /\ Answer(r, IF Cardinality(Owned(r)) > 1 THEN "error" ELSE "conflict", Presented(Owned(r)))
    /\ UNCHANGED <<rows, linked, console, edits, prefBudget>>

\* reset: deleteMany of what the operator owns.
DeleteRows(r) ==
    /\ r.kind = "delete" /\ r.step = "sent"
    /\ rows' = [s \in Subjects |-> IF s \in Owned(r) THEN Missing ELSE rows[s]]
    /\ Answer(r, "ok", Default)
    /\ UNCHANGED <<linked, console, edits, prefBudget>>

----------------------------------------------------------------------------
(* The console. *)

\* acknowledge: show and cache what the server confirmed.
Acknowledged(c, v) ==
    [console[c] EXCEPT !.version = v.version, !.profile = v.profile, !.base = v.profile, !.cache = v]

Becomes(c, state) == console' = [console EXCEPT ![c] = state]

\* The page is (re)loaded: it starts from its cache and asks for the profile.  The
\* requests of the page that is gone go on without it.
Reload(c) ==
    /\ PrefAfford("reload")
    /\ LET cached == IF console[c].cache = Missing THEN Default ELSE console[c].cache
           fresh == [Acknowledged(c, cached) EXCEPT !.dirty = FALSE, !.conflict = Missing,
                                                    !.sync = "loading", !.cache = console[c].cache]
       IN /\ Becomes(c, fresh)
          /\ requests' = {r \in requests : r.from # c}
                 \cup {[r EXCEPT !.from = Missing] : r \in {q \in requests : q.from = c}}
                 \cup {Ask(c, "get")}
    /\ UNCHANGED <<rows, linked, edits>>

UpdateProfile(c) ==
    /\ PrefAfford("edit")
    /\ edits' = edits + 1
    /\ Becomes(c, [console[c] EXCEPT !.dirty = TRUE, !.profile = edits + 1])
    /\ UNCHANGED <<rows, linked, requests>>

\* The 700 ms debounce or the five-second retry fires; an earlier save may still be out.
Save(c) ==
    /\ console[c].dirty /\ console[c].conflict = Missing
    /\ requests' = requests \cup {Ask(c, "put")}
    /\ Becomes(c, [console[c] EXCEPT !.dirty = FALSE, !.sync = "saving"])
    /\ UNCHANGED <<rows, linked, edits, prefBudget>>

\* A clean read every five seconds while degraded, one at a time.
ReadAgain(c) ==
    /\ console[c].sync = "degraded" /\ ~console[c].dirty /\ console[c].conflict = Missing
    /\ ~\E r \in requests : r.from = c /\ r.kind = "get"
    /\ requests' = requests \cup {Ask(c, "get")}
    /\ UNCHANGED <<rows, linked, console, edits, prefBudget>>

Reset(c) ==
    /\ PrefAfford("reset")
    /\ requests' = requests \cup {Ask(c, "delete")}
    /\ UNCHANGED <<rows, linked, console, edits>>

\* Mutant: a failure leaves the state of the console as it is.
FailedUnseen(r) == [console[r.from] EXCEPT !.dirty = @ \/ r.kind = "put"]

\* What an answer does to the console that waits for it.
Failed(r) ==
    [console[r.from] EXCEPT !.sync = IF r.kind = "delete" THEN @ ELSE "degraded",
                            !.dirty = @ \/ r.kind = "put"]

Received(r) ==
    LET c == r.from
    IN CASE r.result = "conflict" ->
              [console[c] EXCEPT !.sync = "conflict",
                   !.conflict = [local |-> r.profile, version |-> r.answer.version, profile |-> r.answer.profile]]
         [] r.result = "error" -> Failed(r)
         [] r.result = "ok" /\ r.kind = "delete" ->
              [Acknowledged(c, Default) EXCEPT !.dirty = FALSE, !.sync = "synced"]
         [] OTHER -> [Acknowledged(c, r.answer) EXCEPT !.sync = "synced"]

Deliver(r) ==
    /\ r.step = "answer"
    /\ requests' = requests \ {r}
    /\ IF r.from = Missing THEN UNCHANGED console ELSE Becomes(r.from, Received(r))
    /\ UNCHANGED <<rows, linked, edits, prefBudget>>

\* The request or its answer is lost on the way.
Lose(r) ==
    /\ r.step \in {"sent", "answer"} /\ r.from # Missing
    /\ PrefAfford("fault")
    /\ requests' = requests \ {r}
    /\ Becomes(r.from, Failed(r))
    /\ UNCHANGED <<rows, linked, edits>>

UseAuthoritative(c) ==
    /\ console[c].conflict # Missing
    /\ LET k == console[c].conflict
           server == [version |-> k.version, profile |-> k.profile]
       IN Becomes(c, [Acknowledged(c, server) EXCEPT !.conflict = Missing, !.sync = "synced"])
    /\ UNCHANGED <<rows, linked, requests, edits, prefBudget>>

\* Mutant: it goes out under the version before the one shown.
RetryBehind(c) ==
    /\ console[c].conflict # Missing
    /\ LET k == console[c].conflict
       IN Becomes(c, [console[c] EXCEPT !.version = k.version - 1, !.base = k.profile, !.profile = k.local,
                                        !.conflict = Missing, !.dirty = TRUE, !.sync = "degraded"])
    /\ UNCHANGED <<rows, linked, requests, edits, prefBudget>>

\* The local profile goes out again, over the version the conflict showed.
RetryLocal(c) ==
    /\ console[c].conflict # Missing
    /\ LET k == console[c].conflict
       IN Becomes(c, [console[c] EXCEPT !.version = k.version, !.base = k.profile, !.profile = k.local,
                                        !.conflict = Missing, !.dirty = TRUE, !.sync = "degraded"])
    /\ UNCHANGED <<rows, linked, requests, edits, prefBudget>>

\* The identity service resolves a subject to the operator's principal.
Link(s) ==
    /\ s \notin linked
    /\ PrefAfford("link")
    /\ linked' = linked \cup {s}
    /\ UNCHANGED <<rows, console, requests, edits>>

----------------------------------------------------------------------------
Serve(r) == Get(r) \/ SelectRow(r) \/ Write(r) \/ Authoritative(r) \/ DeleteRows(r) \/ Deliver(r)

Retry(c) == Save(c) \/ ReadAgain(c)

PrefNext ==
    \/ \E r \in requests : Serve(r) \/ Lose(r)
    \/ \E c \in Consoles :
        \/ Retry(c)
        \/ UpdateProfile(c) \/ Reset(c) \/ Reload(c)
        \/ UseAuthoritative(c) \/ RetryLocal(c)
    \/ \E s \in Subjects : Link(s)

PrefSpec == PrefInit /\ [][PrefNext]_prefVars

\* The service answers, and the consoles' timers fire.
PrefFairness ==
    /\ WF_prefVars(\E r \in requests : Serve(r))
    /\ \A c \in Consoles : WF_prefVars(Retry(c))

----------------------------------------------------------------------------
\* A save never silently overwrites the other session: what it replaces is what its
\* console was shown under the version it sends, by an answer or by a conflict.
Overwrites(r) == r.kind = "put" /\ r.step = "write" /\ r \notin requests' /\ rows[r.target] # Missing
NeverSilentlyOverwritten ==
    [][\A r \in requests : Overwrites(r) /\ rows'[r.target] # rows[r.target]
           => rows[r.target].profile = r.base]_prefVars

\* Refuted with two linked sign-ins that save for the first time together: the principal
\* has one migrated profile (docs/operator-preferences.md: linked identities "reach one
\* migrated profile").
OneProfile == Cardinality({s \in Subjects : rows[s] # Missing /\ rows[s].owned}) <= 1

\* Whatever request or answer is lost, every console ends up synchronized or asking its
\* operator which profile to keep: none stays loading, saving or degraded for ever.
PreferencesSettle ==
    <>[](\A c \in Consoles : console[c].conflict # Missing \/ (console[c].sync = "synced" /\ ~console[c].dirty))
================================================================================
