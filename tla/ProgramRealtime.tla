---------------------------- MODULE ProgramRealtime ----------------------------
(***************************************************************************)
(* How a television program reaches its consoles and renderers: the        *)
(* handlers of program.service.ts that change the scenes of one program,   *)
(* the versions in their broadcasts, the SSE streams with their initial    *)
(* snapshot, the HTTP polls, and the version watermarks by which           *)
(* control.tsx and program.tsx drop what they have already seen.           *)
(*                                                                         *)
(* A handler is cut at every await; a read takes effect when it is issued  *)
(* and its answer is used in a later step.                                 *)
(***************************************************************************)
EXTENDS Integers, Sequences, FiniteSets

CONSTANTS
    Scenes,            \* scenes of the catalogue
    Scored,            \* those whose metadata configures background audio
    ControlPages,      \* pages of control.tsx: the stream is authoritative
    Renderers,         \* pages of program.tsx: the stream, and polls every five seconds
    Mutators,          \* operators, one request each at a time
    Nothing,           \* no scene, no row
    RealtimeBudgets    \* what a behaviour may spend, one per instance explored

\* "hand" is a background taken or stopped by an operator; "console" and "renderer" are
\* connections of the two kinds of pages; "slow" is a state read overtaken by the
\* announcement of a later change.
RealtimeKinds == {"change", "hand", "fade", "fail", "console", "renderer", "drop", "poll", "slow", "restart"}

ASSUME RealtimeAssumption ==
    /\ Scored \subseteq Scenes
    /\ ControlPages \cap Renderers = {}
    /\ Nothing \notin Scenes
    /\ RealtimeBudgets \subseteq [RealtimeKinds -> Nat]

Clients == ControlPages \cup Renderers

VARIABLES
    program,       \* the ProgramState row, [active, staged, fade, scenes]
    background,    \* programSceneInstantPlaybackByProgramId, [scene, playing], and a history
                   \* variable: whether an operator started it, byHand
    versions,      \* topicVersionByProgramId, [state, instant]
    changes,       \* the request each mutator has in flight
    streams,       \* the SSE subscription of each client, [phase, read, queue]
    polls,         \* the HTTP reads of the renderers under way
    views,         \* what each client shows, [row, seen, sound, heard, cut]
    realtimeBudget

realtimeVars == <<program, background, versions, changes, streams, polls, views, realtimeBudget>>

SceneOrNothing == Scenes \cup {Nothing}
ProgramRow == [active : SceneOrNothing, staged : SceneOrNothing, fade : BOOLEAN, scenes : SUBSET Scenes]
ASSUME NothingAssumption == Nothing \notin ProgramRow
RowOrNothing == ProgramRow \cup {Nothing}
PayloadKinds == {"snapshot", "change", "staged", "scenes", "fade", "instant"}
Payload == [kind : PayloadKinds, row : RowOrNothing, staged : SceneOrNothing,
            sound : SceneOrNothing, version : Int]
RowChanges == {"take", "offair", "stage", "fade", "add", "remove"}
ChangeKinds == RowChanges \cup {"none", "play", "stop"}
ChangeSteps == {"write", "clear", "read", "decide", "hush", "wait", "find", "start", "announce"}

\* Type correctness of the service's state and of its clients' views.
RealtimeTypeOK ==
    /\ program \in ProgramRow
    /\ background \in [scene : SceneOrNothing, playing : BOOLEAN, byHand : BOOLEAN]
    /\ versions \in [state : Nat, instant : Nat]
    /\ changes \in [Mutators -> [kind : ChangeKinds, step : ChangeSteps, scene : SceneOrNothing,
                                 fade : BOOLEAN, before : RowOrNothing, row : RowOrNothing]]
    /\ \A c \in Clients :
        /\ streams[c].phase \in {"down", "opening", "open"}
        /\ streams[c].read \in RowOrNothing
        /\ \A n \in DOMAIN streams[c].queue : streams[c].queue[n] \in Payload
        /\ views[c].seen >= 0 => views[c].row # Nothing
        /\ views[c] \in [row : RowOrNothing, seen : Int, sound : SceneOrNothing, heard : Int,
                         cut : RowOrNothing]
    /\ \A p \in polls : p.from \in Renderers /\ p.payload \in Payload
    /\ realtimeBudget \in [RealtimeKinds -> Nat]

NoChange == [kind |-> "none", step |-> "write", scene |-> Nothing, fade |-> FALSE,
             before |-> Nothing, row |-> Nothing]
Silence == [scene |-> Nothing, playing |-> FALSE, byHand |-> FALSE]
Down == [phase |-> "down", read |-> Nothing, queue |-> <<>>]

RealtimeInit ==
    /\ program = [active |-> Nothing, staged |-> Nothing, fade |-> FALSE, scenes |-> Scenes]
    /\ background = Silence
    /\ versions = [state |-> 0, instant |-> 0]
    /\ changes = [o \in Mutators |-> NoChange]
    /\ streams = [c \in Clients |-> Down]
    /\ polls = {}
    /\ views = [c \in Clients |-> [row |-> Nothing, seen |-> -1, sound |-> Nothing, heard |-> -1, cut |-> Nothing]]
    /\ realtimeBudget \in RealtimeBudgets

Allowed(kind) ==
    /\ realtimeBudget[kind] > 0
    /\ realtimeBudget' = [realtimeBudget EXCEPT ![kind] = @ - 1]

----------------------------------------------------------------------------
(* Broadcasts. *)

Message(kind) == [kind |-> kind, row |-> Nothing, staged |-> Nothing, sound |-> Nothing, version |-> -1]

\* resolveProgramTopicForEventType: fade_to_black belongs to no topic.
TopicOf(kind) ==
    CASE kind = "instant" -> "instant"
      [] kind = "fade" -> "none"
      [] OTHER -> "state"

\* Mutant: scene instants are published without bumpVersion.
BumpedForState(kind) == IF TopicOf(kind) = "state" THEN [versions EXCEPT !.state = @ + 1] ELSE versions

\* withProgramVersionEnvelope with bumpVersion.
Bumped(kind) == IF TopicOf(kind) = "none" THEN versions ELSE [versions EXCEPT ![TopicOf(kind)] = @ + 1]

\* Mutant: the envelope is made before the version is bumped.
StampedBefore(m) == IF TopicOf(m.kind) = "none" THEN m ELSE [m EXCEPT !.version = versions[TopicOf(m.kind)]]
Stamped(m) == IF TopicOf(m.kind) = "none" THEN m ELSE [m EXCEPT !.version = Bumped(m.kind)[TopicOf(m.kind)]]

\* subject.next: an open stream sends it, an opening one keeps it behind its snapshot.
Broadcast(m) ==
    /\ versions' = Bumped(m.kind)
    /\ streams' = [c \in Clients |-> IF streams[c].phase = "down" THEN streams[c]
                                     ELSE [streams[c] EXCEPT !.queue = Append(@, Stamped(m))]]

\* How takeProgramSceneInstant and stopProgramSceneInstant end: the playback and its broadcast.
Background(scene, playing, byHand) ==
    /\ background' = [scene |-> scene, playing |-> playing, byHand |-> byHand]
    /\ Broadcast([Message("instant") EXCEPT !.sound = IF playing THEN scene ELSE Nothing])

\* A read issued before the change being announced is still unanswered.
Overtaken ==
    \/ \E c \in Clients : streams[c].phase = "opening" /\ streams[c].read # program
    \/ \E p \in polls : p.step = "read" /\ p.payload.row # program

\* Bound: state reads are answered before a later change is announced, "slow" ones excepted.
ReadsInOrder == IF Overtaken THEN Allowed("slow") ELSE UNCHANGED realtimeBudget

----------------------------------------------------------------------------
(* The handlers. *)

ChangeGoes(o, step) == changes' = [changes EXCEPT ![o].step = step]
ChangeEnds(o) == changes' = [changes EXCEPT ![o] = NoChange]
Doing(o, kinds, step) == changes[o].kind \in kinds /\ changes[o].step = step
Free(o) == changes[o].kind = "none"

\* The first read of a handler, whose answer it validates and keeps.
Start(o, change) ==
    /\ Free(o)
    /\ changes' = [changes EXCEPT ![o] = [change EXCEPT !.before = program]]
    /\ UNCHANGED <<program, background, versions, streams, polls, views>>

ActivateScene(o, s) ==
    /\ s \in program.scenes /\ Allowed("change")
    /\ Start(o, [NoChange EXCEPT !.kind = "take", !.scene = s])

\* Nothing on air and no black: the handler answers at once.
TakeProgramOffAir(o) ==
    /\ program.active # Nothing \/ program.fade
    /\ Allowed("change")
    /\ Start(o, [NoChange EXCEPT !.kind = "offair"])

StageScene(o, s) ==
    /\ s = Nothing \/ s \in program.scenes
    /\ Allowed("change")
    /\ Start(o, [NoChange EXCEPT !.kind = "stage", !.scene = s])

\* The row is written only when it differs.
SetFadeToBlack(o, active) ==
    /\ Allowed("fade")
    /\ Start(o, [NoChange EXCEPT !.kind = "fade", !.fade = active,
                                 !.step = IF program.fade = active THEN "read" ELSE "write"])

AddScene(o, s) ==
    /\ Allowed("change")
    /\ Start(o, [NoChange EXCEPT !.kind = "add", !.scene = s,
                                 !.step = IF s \in program.scenes THEN "read" ELSE "write"])

RemoveScene(o, s) ==
    /\ Allowed("change")
    /\ Start(o, [NoChange EXCEPT !.kind = "remove", !.scene = s])

\* POST /scene-instant/take: any assigned scene, on air or not (the console sends the one it
\* edits), with its configured background or one chosen for the call.
TakeSceneInstant(o, s) ==
    /\ s \in program.scenes /\ Allowed("hand")
    /\ Start(o, [NoChange EXCEPT !.kind = "play", !.scene = s, !.step = "start"])

\* POST /scene-instant/stop
StopSceneInstant(o) ==
    /\ Allowed("hand")
    /\ Start(o, [NoChange EXCEPT !.kind = "stop", !.step = "hush"])

WriteRow(o) ==
    /\ Doing(o, RowChanges, "write")
    /\ LET w == changes[o]  s == w.scene
       IN /\ program' =
               CASE w.kind = "take" -> [program EXCEPT !.active = s, !.staged = w.before.active]
                 [] w.kind = "offair" -> [program EXCEPT !.active = Nothing, !.fade = FALSE]
                 [] w.kind = "stage" -> [program EXCEPT !.staged = s]
                 [] w.kind = "fade" -> [program EXCEPT !.fade = w.fade]
                 [] w.kind = "add" -> [program EXCEPT !.scenes = @ \cup {s}]
                 [] w.kind = "remove" -> [program EXCEPT !.scenes = @ \ {s}]
          /\ ChangeGoes(o, CASE w.kind = "stage" -> "announce"
                             [] w.kind = "remove" -> "decide"
                             [] OTHER -> "read")
    /\ UNCHANGED <<background, versions, streams, polls, views, realtimeBudget>>

\* removeSceneFromProgram clears the references its first read saw.
ClearReferences(o) ==
    /\ Doing(o, {"remove"}, "clear")
    /\ LET w == changes[o]
           Cleared(was, is) == IF was = w.scene THEN Nothing ELSE is
       IN program' = [program EXCEPT !.active = Cleared(w.before.active, @),
                                     !.staged = Cleared(w.before.staged, @)]
    /\ ChangeGoes(o, "read")
    /\ UNCHANGED <<background, versions, streams, polls, views, realtimeBudget>>

\* getProgramStateWithScenes: the state the broadcast will carry.
ReadForBroadcast(o) ==
    /\ Doing(o, RowChanges, "read")
    /\ changes' = [changes EXCEPT ![o].row = program,
                                  ![o].step = IF changes[o].kind \in {"take", "offair"} THEN "decide" ELSE "announce"]
    /\ UNCHANGED <<program, background, versions, streams, polls, views, realtimeBudget>>

\* What follows once the background is as the change wants it.
Onward(w) ==
    IF w.kind # "remove" THEN "announce"
    ELSE IF w.scene \in {w.before.active, w.before.staged} THEN "clear" ELSE "read"

Decides(o, stray, scored) ==
    /\ Doing(o, {"take", "offair", "remove"}, "decide")
    /\ ChangeGoes(o, IF stray THEN "hush" ELSE IF scored THEN "find" ELSE Onward(changes[o]))
    /\ UNCHANGED <<program, background, versions, streams, polls, views, realtimeBudget>>

\* activateScene looks for a background of the scene on air.
Configured(w) == w.kind = "take" /\ w.row.active \in Scored

\* Mutant: only a scene with a background of its own fades another one out.
DecideForScored(o) ==
    LET w == changes[o]
        foreign == IF w.kind = "remove" THEN background.scene = w.scene ELSE background.scene # w.scene
    IN Decides(o, background.playing /\ foreign /\ (w.kind = "remove" \/ Configured(w)), Configured(w))

\* What the handler does about the background that plays: activateScene keeps the scene's
\* own, fades another one out, and starts the new one after 1.5 seconds; going off air
\* fades out any, and the removal of a scene stops that scene's.
Decide(o) ==
    LET w == changes[o]
        stray == CASE w.kind = "take" -> background.scene # w.scene
                   [] w.kind = "remove" -> background.scene = w.scene
                   [] OTHER -> TRUE
    IN Decides(o, background.playing /\ stray, Configured(w))

\* stopProgramSceneInstant, for another handler or the operator: it asks nothing of what
\* plays by then.
Hush(o) ==
    /\ Doing(o, {"take", "offair", "remove", "stop"}, "hush")
    /\ Background(background.scene, FALSE, FALSE)
    /\ LET w == changes[o]
       IN IF w.kind = "stop" THEN ChangeEnds(o) ELSE ChangeGoes(o, IF Configured(w) THEN "wait" ELSE Onward(w))
    /\ UNCHANGED <<program, polls, views, realtimeBudget>>

FadeElapses(o) ==
    /\ Doing(o, {"take"}, "wait")
    /\ ChangeGoes(o, "find")
    /\ UNCHANGED <<program, background, versions, streams, polls, views, realtimeBudget>>

\* takeProgramSceneInstant begins with a read: the scene must still be assigned.
FindBackground(o) ==
    /\ Doing(o, {"take"}, "find")
    /\ ChangeGoes(o, IF changes[o].scene \in program.scenes THEN "start" ELSE "announce")
    /\ UNCHANGED <<program, background, versions, streams, polls, views, realtimeBudget>>

\* activateScene goes on when the audio has started or failed; the operator's take is over.
AudioDone(o) == IF changes[o].kind = "play" THEN ChangeEnds(o) ELSE ChangeGoes(o, "announce")

\* The asset or the instant was looked up: its playback replaces the one before.
StartBackground(o) ==
    /\ Doing(o, {"take", "play"}, "start")
    /\ Background(changes[o].scene, TRUE, changes[o].kind = "play")
    /\ AudioDone(o)
    /\ UNCHANGED <<program, polls, views, realtimeBudget>>

\* It is gone or disabled: activateScene warns, the operator's take is refused.
BackgroundFails(o) ==
    /\ Doing(o, {"take", "play"}, "start") /\ Allowed("fail")
    /\ AudioDone(o)
    /\ UNCHANGED <<program, background, versions, streams, polls, views>>

Announcement(w) ==
    CASE w.kind = "stage" -> [Message("staged") EXCEPT !.staged = w.scene]
      [] w.kind = "fade" -> [Message("fade") EXCEPT !.row = w.row]
      [] w.kind \in {"add", "remove"} -> [Message("scenes") EXCEPT !.row = w.row]
      [] OTHER -> [Message("change") EXCEPT !.row = w.row]

Announce(o) ==
    /\ Doing(o, RowChanges, "announce")
    /\ ReadsInOrder
    /\ Broadcast(Announcement(changes[o]))
    /\ ChangeEnds(o)
    /\ UNCHANGED <<program, background, polls, views>>

\* The process restarts: rows survive, everything in memory starts over.
RestartBackend ==
    /\ Allowed("restart")
    /\ background' = Silence
    /\ versions' = [state |-> 0, instant |-> 0]
    /\ changes' = [o \in Mutators |-> NoChange]
    /\ streams' = [c \in Clients |-> Down]
    /\ polls' = {}
    /\ UNCHANGED <<program, views>>

----------------------------------------------------------------------------
(* The streams and the polls. *)

\* getEventStream subscribes to live events before it reads the state.  useSSE
\* reconnects after three seconds, when a pending cut has been made.
Connect(c) ==
    /\ streams[c].phase = "down" /\ views[c].cut = Nothing
    /\ Allowed(IF c \in ControlPages THEN "console" ELSE "renderer")
    /\ streams' = [streams EXCEPT ![c] = [phase |-> "opening", read |-> program, queue |-> <<>>]]
    /\ UNCHANGED <<program, background, versions, changes, polls, views>>

\* The read is answered; getState attaches the version of this moment, and the events
\* kept meanwhile follow the snapshot.
SendSnapshot(c) ==
    /\ streams[c].phase = "opening"
    /\ LET snapshot == [Message("snapshot") EXCEPT !.row = streams[c].read, !.version = versions.state]
       IN streams' = [streams EXCEPT ![c] = [phase |-> "open", read |-> Nothing,
                                             queue |-> <<snapshot>> \o streams[c].queue]]
    /\ UNCHANGED <<program, background, versions, changes, polls, views, realtimeBudget>>

\* The connection breaks, with what it still carried.
DropStream(c) ==
    /\ streams[c].phase # "down" /\ Allowed("drop")
    /\ streams' = [streams EXCEPT ![c] = Down]
    /\ UNCHANGED <<program, background, versions, changes, polls, views>>

\* GET /state: the row now, the version when the read is answered.
PollState(c) ==
    /\ Allowed("poll")
    /\ ~\E p \in polls : p.from = c
    /\ polls' = polls \cup {[from |-> c, step |-> "read", payload |-> [Message("snapshot") EXCEPT !.row = program]]}
    /\ UNCHANGED <<program, background, versions, changes, streams, views>>

PollAnswered(p) ==
    /\ p.step = "read"
    /\ polls' = (polls \ {p}) \cup {[p EXCEPT !.step = "answer", !.payload.version = versions.state]}
    /\ UNCHANGED <<program, background, versions, changes, streams, views, realtimeBudget>>

\* GET /scene-instant: playback and version are taken together.
PollInstant(c) ==
    /\ Allowed("poll")
    /\ ~\E p \in polls : p.from = c
    /\ LET sound == IF background.playing THEN background.scene ELSE Nothing
       IN polls' = polls \cup {[from |-> c, step |-> "answer",
              payload |-> [Message("instant") EXCEPT !.sound = sound, !.version = versions.instant]]}
    /\ UNCHANGED <<program, background, versions, changes, streams, views>>

----------------------------------------------------------------------------
(* The pages. *)

\* shouldApply...UpdatePayload: a payload without a version always applies.
Fresh(v, m) == m.version = -1 \/ m.version > IF m.kind = "instant" THEN v.heard ELSE v.seen

\* The watermark of the payload's topic.
Marked(v, m) ==
    IF m.version = -1 THEN v
    ELSE IF m.kind = "instant" THEN [v EXCEPT !.heard = m.version] ELSE [v EXCEPT !.seen = m.version]

\* handleProgramEvent of control.tsx.
ConsoleShows(v, m) ==
    CASE m.kind = "staged" -> IF v.row = Nothing THEN v ELSE [v EXCEPT !.row.staged = m.staged]
      [] m.kind = "instant" -> [v EXCEPT !.sound = m.sound]
      [] OTHER -> [v EXCEPT !.row = m.row]

\* handleProgramEvent of program.tsx: program_scenes_changed advances the watermark and
\* shows nothing; a change of scene may animate and cut later.
RendererShows(v, m) ==
    CASE m.kind = "scenes" -> {v}
      [] m.kind = "change" ->
           {[v EXCEPT !.row = m.row, !.cut = Nothing]}
           \cup IF v.row # Nothing /\ v.row.active # Nothing /\ m.row.active \notin {Nothing, v.row.active}
                THEN {[v EXCEPT !.cut = m.row]} ELSE {}
      [] OTHER -> {ConsoleShows(v, m)}

Shows(c, m) ==
    IF ~Fresh(views[c], m) THEN {views[c]}
    ELSE IF c \in ControlPages THEN {ConsoleShows(Marked(views[c], m), m)}
    ELSE RendererShows(Marked(views[c], m), m)

DeliverEvent(c) ==
    /\ streams[c].phase = "open" /\ streams[c].queue # <<>>
    /\ \E v \in Shows(c, Head(streams[c].queue)) : views' = [views EXCEPT ![c] = v]
    /\ streams' = [streams EXCEPT ![c].queue = Tail(@)]
    /\ UNCHANGED <<program, background, versions, changes, polls, realtimeBudget>>

DeliverPoll(p) ==
    /\ p.step = "answer"
    /\ polls' = polls \ {p}
    /\ \E v \in Shows(p.from, p.payload) : views' = [views EXCEPT ![p.from] = v]
    /\ UNCHANGED <<program, background, versions, changes, streams, realtimeBudget>>

\* The cut point of the transition.
MakeCut(c) ==
    /\ views[c].cut # Nothing
    /\ views' = [views EXCEPT ![c].row = views[c].cut, ![c].cut = Nothing]
    /\ UNCHANGED <<program, background, versions, changes, streams, polls, realtimeBudget>>

----------------------------------------------------------------------------
MutatorStep(o) ==
    \/ \E s \in Scenes : ActivateScene(o, s) \/ AddScene(o, s) \/ RemoveScene(o, s)
    \/ \E s \in SceneOrNothing : StageScene(o, s)
    \/ \E b \in BOOLEAN : SetFadeToBlack(o, b)
    \/ \E s \in Scenes : TakeSceneInstant(o, s)
    \/ TakeProgramOffAir(o) \/ StopSceneInstant(o)
    \/ WriteRow(o) \/ ClearReferences(o) \/ ReadForBroadcast(o) \/ Decide(o) \/ Hush(o)
    \/ FadeElapses(o) \/ FindBackground(o) \/ StartBackground(o) \/ BackgroundFails(o) \/ Announce(o)

RealtimeNext ==
    \/ \E o \in Mutators : MutatorStep(o)
    \/ \E c \in Clients : Connect(c) \/ SendSnapshot(c) \/ DropStream(c) \/ DeliverEvent(c)
    \/ \E c \in Renderers : PollState(c) \/ PollInstant(c) \/ MakeCut(c)
    \/ \E p \in polls : PollAnswered(p) \/ DeliverPoll(p)
    \/ RestartBackend

RealtimeSpec == RealtimeInit /\ [][RealtimeNext]_realtimeVars

----------------------------------------------------------------------------
NothingChanges == \A o \in Mutators : Free(o)
Drained(c) == streams[c].phase = "open" /\ streams[c].queue = <<>>

\* A console whose stream is open and drained shows the program, although its snapshot
\* was read while a change was being made, or its stream broke and lost events.
ConsoleIsCurrent ==
    NothingChanges => \A c \in ControlPages : Drained(c) => views[c].row = program

\* The scene-instant watermark names the playback: a client that has reached the
\* service's version plays what the service believes is on air, whatever order the
\* stream and the polls brought it in.
AudioIsCurrent ==
    \A c \in Clients : views[c].heard = versions.instant
        => views[c].sound = IF background.playing THEN background.scene ELSE Nothing

\* Only an operator's own take lets the background part from the scene on air: between
\* requests it belongs to that scene or was started by hand; and whatever was started by hand
\* before, a take or an off-air announces its scene with that scene's background or silence,
\* even when the next one cannot start, and a removal leaves none of its scene's.
BackgroundFollowsScene ==
    background.playing =>
        /\ NothingChanges => background.scene = program.active \/ background.byHand
        /\ \A o \in Mutators :
            /\ Doing(o, {"take", "offair"}, "announce") => background.scene = changes[o].scene
            /\ Doing(o, {"remove"}, "announce") => background.scene # changes[o].scene

\* Refuted when a state read is overtaken: its answer carries the old row under the new
\* version, and the event kept behind it is dropped.  "This ordering prevents a newly loaded
\* renderer from missing a transition" (docs/program-realtime.md:7-9).
NoTransitionMissed ==
    NothingChanges => \A c \in Clients :
        Drained(c) /\ views[c].cut = Nothing => views[c].row.active = program.active

\* Refuted: the polls of a renderer repair what its stream did not show
\* (docs/program-realtime.md:42-45).
RendererReconciles ==
    [][\A p \in polls : p.step = "answer" /\ p \notin polls' /\ p.payload.kind = "snapshot"
           /\ NothingChanges /\ Drained(p.from) /\ views[p.from].cut = Nothing /\ p.payload.row = program
           => views'[p.from].row = program]_realtimeVars
================================================================================
