# Alcantara: a TLA+ verification project

Alcantara runs radio and television programs: a NestJS backend holds each
program's state, commands appliances (Palazzo plays radio audio, Alana encodes
broadcasts and recordings, LiveKit carries guests and external sources) and
fans its state out to consoles and overlays. This directory holds TLA+ models of
the parts in which concurrency and failure decide whether the program is right,
the TLC configurations that check them, and TLAPS proofs about them. All paths
below are relative to the repository.

1. [Inventory](#1-inventory)
2. [Modules and how they correspond to the code](#2-modules-and-how-they-correspond-to-the-code)
3. [Abstractions](#3-abstractions)
4. [Runs, bounds and fairness](#4-runs-bounds-and-fairness)
5. [Disagreements found](#5-disagreements-found)
6. [Theorems](#6-theorems)
7. [What is only model-checked, and what is not modelled](#7-what-is-only-model-checked-and-what-is-not-modelled)
8. [Plan](#8-plan)

## 1. Inventory

### Radio: the song execution engine and what surrounds it

| part | state | operations | interacts with |
|---|---|---|---|
| Song execution engine (`backend/src/radio/song-execution.engine.ts`) | per program, in memory: sequence, queue, active song, pending and ended request IDs, the flags frozen, reconciled, foreign track, transitioning, queue blocked; a FIFO lock for queue mutations | start-up; telemetry status, snapshot and event handlers; queue and sequence updates; manual song and Stop; queue enqueue, remove, reorder; claim and release of the head; continuation after an end | `ProgramState` row, Palazzo command client, telemetry, program service, flight service, now-playing publisher |
| Song sequence (`song-sequence.utils.ts`) | `ProgramState.songSequence` | normalize, resolve the leaf, advance, find a unique leaf | the engine and the program service |
| Play Next queue (`song-queue.utils.ts`) | `ProgramState.songQueue` | normalize, filter for a sequence | the engine (locked), the program service (unlocked) |
| Palazzo program client and telemetry service (`palazzo-program.client.ts`, `palazzo-telemetry.service.ts`) | connection status, sequence cursor, last snapshot, poll timer | SSE stream with reconnects, gap fetch, polling while the stream is down | Palazzo; calls the engine's handlers |
| Palazzo command client (`palazzo-machine.client.ts`, `palazzo-contract.ts`) | none; idempotency key per command | post with retries, parse the answer | Palazzo |
| Program service (`backend/src/program/program.service.ts`) | the `ProgramState` row: scene, preview, mixer, songSequence, songQueue; scene audio and topic versions in memory | save of the audio bus, take a song on air, Stop, scenes, fades | the engine; reads and writes the same row without its lock |
| Radio controller and service (`radio.controller.ts`, `radio.service.ts`) | none | proxies operator commands to Palazzo | Palazzo |
| Flight service (`backend/src/program/flight.service.ts`) | `FlightSequence` rows and the pointer to the active one; in memory the runtime of a program, its timer, its generation and a chain of cue operations | publish, schedule, start, stop, reset, go, activate, deactivate, delete, save; cues, song ends, completion, recovery | the engine (who owns the air, song ends, rotation cursor) and the program service (Stop) |
| High rotation (`song-rotation.utils.ts`) | `ProgramState.songRotation`: the authoritative starts of favorites, for a day | eligibility, the quota's candidate, record a start | the engine, which keeps it in memory and writes it after each start |
| Song similarity (`song-similarity.service.ts`, `.utils.ts`) | embeddings, their jobs, the artist cycle of a program | propose the next song; settings and statistics | the engine asks when the quota takes nothing |
| Log generator and filler (`backend/src/program/radio-log-generator.ts`, `radio-rundown-filler.ts`) | none | choose tagged songs for the slots of a clock, or for the gaps of a draft | the flight service's generate and fill |
| Now-playing publisher | none | notifies consumers of started and stopped songs | the engine calls it and does not wait |
| Metrics, monitor, output confidence | counters, silence detector | observe | nothing depends on them |

What makes the radio part correct: a queue entry on air is always the stored
head with a persisted claim, so that a restart can adopt it; an entry leaves the
queue only when its own track has ended or an operator removed it; a track is
commanded once, never cuts another off, and while the telemetry is frozen only a
turn that already waits for the queue lock commands one; one end advances the
rotation once; a stopped station stays
stopped and an automatic one never stays silent; the engine believes what
Palazzo plays. A timed block airs its cues once and in order, starts its fixed
items on time, waits only for ends that come, and gives the air back to the
filler that follows the one it cut. The rotation plays its playlist in order
whatever is played in between, opens one opportunity for a favorite an interval
and repeats none before its turn, and has a next song while one is left. A log
repeats no song, rests its artists and leaves no silence nobody asked for.

What makes it hard: Palazzo's events and snapshots race with the commands they
report on; a claim waits for a lock while the program changes under it; the
bumper between two songs is an `await` of arbitrary length; every database write
can fail after memory has moved on; a restart loses everything but the row; the
program service writes the same row without the lock; the scheduler, the timers,
song ends and operators all move one block, and its completion is a chain of
awaits in another call.

### Broadcast destinations

| part | state | operations | interacts with |
|---|---|---|---|
| Broadcast destinations (`backend/src/broadcast-destinations/broadcast-destinations.service.ts`) | catalogue of destinations with pinned secret versions, immutable selections, commands by operator-supplied ID with sequence and status, one runtime row per program | catalogue edits and retirement; Reload, Start, Stop; program state | Alana client, database |
| Alana client (`alana.client.ts`) | none | status, reload, start, stop with a ten-second time-out | Alana |

What makes it correct: what is on air is the snapshot a command stored, whatever
happens to the catalogue; a recorded success is real; commands take effect in
the order they were stored, whatever is retried, abandoned or repeated; a new
command can always be allocated a sequence.

### Television, guests and consoles

| part | state | operations | hard part |
|---|---|---|---|
| Program realtime (`program.service.ts`, `program.controller.ts`, `program.realtime.service.ts`; `frontend/app/routes/control.tsx`, `program.tsx`, `hooks/useSSE.ts`) | the scene row, the scene's audio, a version per topic; per page what it shows and a watermark per topic | take, stage, add, remove, fade, off air; take and stop a scene's audio by hand; subscribe with a snapshot; poll | a handler reads, writes, reads again and announces, with an `await` between each; a snapshot is read before and stamped after other announcements |
| WebRTC guests (`backend/src/webrtc/webrtc.service.ts`, `frontend/app/routes/guest.tsx`) | `GuestInvitation` rows with slot, session and lease; `GuestCommand` rows; the LiveKit room | create, replace, revoke, remove; join, heartbeat, acknowledge; director commands | a lease checked and then extended without a condition; a slot found free several awaits before it is taken; tokens outlive revocation |
| Operator preferences (`operator-preferences.service.ts`, `ConsolePreferencesContext.tsx`) | one versioned row per subject or principal; per console a profile, a version, a cache, debounce and retry | get, save, reset; edit, retry, resolve a conflict | two devices saving one version while ownership migrates; lost answers |
| Media assets | registry reconciled with S3 | listing, reconciliation, labels | listing and edits overlap |
| External sources | ingress registry | create, rotate, revoke, reconcile | the life cycle belongs to LiveKit |
| Recording | stateless proxy with idempotency keys | start, stop | none of its own |
| Database backup | hourly timer, running flag | backup | the timer fires during a backup |
| Program templates, catalogues, auth, identity, observability, rest of the frontend, deployment | rows, token checks, configuration, rendering | | nothing that interleaves over time |

What makes them correct: a page that is connected and has received everything
shows the program; the sound a page plays is the one announced; the background
parts from the scene on air by an operator's own take of it alone, and the next
change of scene sees to it. One session holds an invitation at a
time, one invitation a slot, and an ended guest leaves the room for good. A save
replaces only what its console was shown, and every console settles.

`PROJECT.json` lists every component with its sources and status, and every
hazard with the line where it bites and the property that covers it.

## 2. Modules and how they correspond to the code

```
SongSequence                     the playlist and its cursor
  SongQueue                      the Play Next queue
    SongEngineHandlers           the engine's synchronous handlers, state -> state
      SongExecutionEngine        variables, actions, Spec, properties
        MC_SongExecutionEngine   instances for TLC
        SongExecutionEngineProofs
PlaylistClock                    the whole playlist: nested, with durations and a clock
  PlaylistRotation               which song plays next, over time
RadioRundown                     the generator and the filler of radio logs
  RadioRundownProofs
MC_Automation                    SongExecutionEngine, PlaylistRotation, RadioRundown side by side
FlightRadio                      the engine and its row as the flight service sees them
  FlightService                  rows, runtimes, timers, calls; Spec, properties
    MC_FlightService
    FlightServiceProofs          types, claims, saves, the order of cues
      FlightBlocksProofs         blocks that come one after another
        FlightRotationProofs     the rotation such blocks interrupt
BroadcastDestinations            variables, actions, Spec, properties
  MC_BroadcastDestinations
  BroadcastDestinationsProofs
SessionLease                     abstract: one exclusive lease per invitation
GuestInvitations                 INSTANCE SessionLease WITH ...
OperatorPreferences
ProgramRealtime
  ProgramRealtimeProofs
MC_Services                      GuestInvitations, OperatorPreferences, ProgramRealtime side by side
  ServicesProofs                 guests, preferences, and the three side by side
```

**SongSequence, SongQueue** translate the pure functions of
`song-sequence.utils.ts` and `song-queue.utils.ts`. A claim on an entry is the
persisted `active` marker with its `playbackRequestId`.

**SongEngineHandlers** has one operator per synchronous method of the engine,
from an engine state to the one it leaves. Handlers call handlers (a queue write
may start the rotation, which may claim the head), so they compose as operators
and every call chain up to the next `await` is one step. What a handler starts
without waiting for it is part of the state: `sends` (pushCommand), `tasks`
(actions waiting for `withQueueMutationLock`), `bumpers` (ends of a track inside
`await maybeBumper`).

**SongExecutionEngine** turns every entry point into an action:

| action | code |
|---|---|
| `RunTask` (`RunClaim`, `RunRelease`, `RunConsume`, `RunSave`), `TaskFails` | the callbacks run under `withQueueMutationLock` and their continuations |
| `BumperEnds` | `continueAfterAuthoritativeEnd` after the bumper |
| `PostCommand`, `CommandArrives`, `CommandSucceeds`, `CommandFails` | `pushCommand`, the POST, `handleCommandFailure` |
| `StreamOpens`, `StreamFails`, `StreamCloses`, `ReadFrame`, `PollReads`, `PollReplies`, `PollFails` | `PalazzoProgramClient` and the engine's telemetry handlers |
| `Enqueue`, `RemoveEntry`, `Reorder` | the locked operator mutations of the queue |
| `PlayManually`, `StopReads` to `StopFails`, `EditReads`, `EditWrites` | `takeCatalogSongOnAir`, `stopProgramSong`, `updateProgramAudioBus` |
| `SongEnds`, `Switch` | Palazzo (external) |
| `Restart` | `onModuleInit` on the surviving row |

**PlaylistClock** is `song-sequence.utils.ts` as a whole: sequences inside
sequences, items with and without a declared duration, `getSelectedSongItem`'s
walk over the time since `startedAt`, and the recursive cursor operations
(`Resolve`, `Advance`, `Activate`). **PlaylistRotation** puts it to work: the
playlist in memory and in the row, the Play Next queue, the favorites' history
in memory and in the row, the song on air and the continuation that waits for
the bumper.

| action | code |
|---|---|
| `Start`, `Continue` | `maybeStartSequence`, `continueAfterAuthoritativeEnd` with `persistPlaylistCursorForQueue`; both choose by `NextPicks` (`resolveNextPlaylistSong`: the quota, the picker, the cursor) |
| `CommandRefused` | `handleCommandFailure` |
| `TrackStarts`, `TrackStartsUnheard`, `WriteRotation` | `track.started`, the same start seen only by a snapshot, and `recordHighRotationStarted`'s write under its lock |
| `SongOver` | `handleAuthoritativeTrackEnded` |
| `EnqueueSong`, `Edit` | `enqueueSong`, `updateProgramAudioBus` with `handleSequenceUpdated` |
| `StartUp`, `Adopt`, `InheritedEnds` | `onModuleInit`, and what becomes of the track on air meanwhile |

**RadioRundown** places one event of a log a step: `PlaceContent` and
`PlaceFiller` are the loop of `fillRadioRundown`, `PlaceSlotSong` that of
`generateRadioLog`, `Rejected` every `BadRequestException`. The choice is
deterministic: the least eligible song in the order of the pool.

**FlightService** follows one radio program: the `FlightSequence` rows (`logs`),
`ProgramState.activeFlightSequenceId` (`pointer`), the service's memory
(`flight`: every runtime object ever made, the one the map holds, the armed
timers, the chain of `cueOperations`) and one record per asynchronous call in
progress (`calls`). A call has a label `at` for what it does next; the stop that
nearly every operation contains is one chain of labels with the continuation in
`then`.

| action | code |
|---|---|
| `Poll`, `Claims` | `startDuePublishedLogs` and its conditional claim |
| `StartReads` to `StartAnnounces`, `Launch` | `start` |
| `StopMarks`, `StopCuts`, `StopForwards`, `StopEnds`, `StopFails` | `stopRuntime` and `stopProgramSong` |
| `Prepares`, `Prepared`, `PrepareFails`, `Resumes` | `finishBlock` with `prepareContinuousRotationResume`, `resumeContinuousRotation` |
| `CueDropped`, `CueHeld`, `CueBegins`, `CueTakesSong`, `CueStopsSong`, `CueUnplayable`, `CueNeedsNoAir`, `CueOutOfRange` | `executeCueAtIndexUnlocked` and the cue executors, one operation of `cueOperations` at a time |
| `EditBegins`, `EditWrites`, `EditApplies` | `updateFlightSequenceUnlocked` |
| `HoldFires`, `WaitFires`, `SongEndTimesOut`, `ClipFires`, `HardFires` | the callbacks of the timers |
| `TrackEnds`, `EndArrives`, `IdleSnapshot` | the engine's end of track and its question who owns the air; `handleSongEnded` |
| `Activate*`, `DeactivateEnds`, `ResetRewinds`, `Delete*`, `PublishWrites`, `Ask*` | the requests of operators |
| `Restart` | `onModuleInit` on the surviving rows |

**FlightRadio** is what FlightService uses of the engine: the automatic row, the
engine's copy, what is on the air and which ends are still to be reported. It
stands for `SongExecutionEngine` and `stopProgramSong`, reduced to who plays; the
Play Next queue, claims and telemetry are covered by the detailed module.

**BroadcastDestinations** follows one television program. A request goes through
`Begin` (the call and its status read), `LookUp` (`prepareCommand` finds the
command ID or not), `Resolve` (`resolveSelection`), `Store` (the serializable
transaction that allocates the sequence) and `Answered`; every one of these is a
separate step because an `await` on the database or on Alana separates them.
`AlanaTakes` is Alana as `backend/test/fixtures/alana-recording-server.mjs`
implements it. `CallFails` abandons a call that Alana may still take;
`StateReads` and `StateWrites` are the two statements of `reconcileRuntime`.

**GuestInvitations** has the rows (`invitations`), the pages (`tabs`), the
LiveKit room, and one call per operator and page cut at each `await`: a join is
`Join`, `Verify`, `Claim`, `Issue`, `EnterRoom`; a heartbeat `Heartbeat`,
`CheckSession`, `Renew`; a replacement `ReplaceInvitation`, `Reread`,
`RevokeRow`, `Disconnect`, `ResolveSlot`, `Insert`. **SessionLease** is what the
invitation promises, in five actions over three variables; `LeaseIsKept` is the
refinement.

**OperatorPreferences** has the rows by subject, the consoles and the requests
in flight. The service's transaction is `SelectRow`, `Write` and, for a refused
write, `Authoritative`; the console's protocol is `UpdateProfile`, `Save`,
`ReadAgain`, `Reset`, `Reload`, `UseAuthoritative`, `RetryLocal`.

**ProgramRealtime** has the handlers that change the scenes, each a chain of
reads, writes, the scene audio and the announcement (`WriteRow`,
`ReadForBroadcast`, `Decide`, `Hush`, `FindBackground`, `StartBackground`,
`Announce`). `TakeSceneInstant` and `StopSceneInstant` are the routes by which an
operator starts the background of any assigned scene, on air or not, and stops
the one that plays: they share `StartBackground` and `Hush` with the changes of
scene, as `takeProgramSceneInstant` and `stopProgramSceneInstant` do. `Connect`
and `SendSnapshot` are the two halves of a subscription, `PollState`,
`PollAnswered` and `PollInstant` the renderer's reads; `ConsoleShows` and
`RendererShows` what the two pages do with an event.

**MC_Services** checks the last three together, and **MC_Automation** the
engine, the rotation and the rundown. The modules of each share no variable:
every initial state gives one of them a budget and leaves the other two at rest,
so one run explores each on its own.

`PROJECT.json` maps every definition to its source lines.

## 3. Abstractions

Radio:

- One radio program, one Palazzo instance and boot. A change of boot or
  instance, backoff delays and metrics are left out.
- In SongExecutionEngine playlists are flat, each item a leaf with its own audio
  URL and no declared duration; autoplay and shuffle are one mode, because a
  shuffled order is persisted. High rotation and similarity selection are off
  (PlaylistRotation has them), and no clocked flight log runs. The
  television-only timer branch is not modelled.
- In PlaylistRotation a command is answered and its track starts and ends in
  order: the races are SongExecutionEngine's. Identifiers are unique, every leaf
  is playable, and the similarity picker is a choice among the songs it may
  propose. Time moves in units (`Interval` stands for thirty minutes, `Retention`
  for a day). `aired`, `forgotten` and `place` are history variables: the plays
  that really happened, those whose record was lost, and where the playlist
  stands in the listener's ears, unknown after what no document settles.
- In RadioRundown a job is what generate and fill have read; the checks of the
  draft around them are left out, as are warnings and the wording of rejections.
  The time before a first fixed start is not filled: the preflight rejects a
  log that does not begin at zero.
- A locked mutation is one action. An operator mutation may run ahead of waiting
  tasks: that is the execution in which it took the lock first.
- A bumper is a delay of any length and an intro is the `await` before the post.
- A snapshot event and the gap fetch are one step with the state fetched; a poll
  is two, because the stream may recover in between.
- An audio-bus save writes either the mixer or the playlist; a request carrying
  both at once is not modelled.
- Palazzo plays under the request ID it was sent: the adoption of another one from
  the answer to a command (`song-execution.engine.ts:1738-1745`) is left out.
- Palazzo is assumed to remember playback IDs (a repeated one starts nothing),
  to send `track.ended` for a track that is interrupted or stopped, and to begin
  every stream connection with a snapshot: what the client and the engine rely
  on.

Flight:

- A database statement takes effect in the step that issues it; what it returned
  is used by a later step, after other calls may have run.
- The scheduler's preflight is merged with that of the activation that follows
  it; the pointer is read when a stop begins; the bounded chunks in which a long
  timer is re-armed are one timer.
- `generation` is `Date.now()` plus the advances since; it is modelled per
  runtime, because two starts never share one.
- Creating, generating and filling a log, and saves of its schedule, name and
  loop, are left out; so are failures of a clip and of a song command, and errors
  of the persistence of a runtime. The Play Next queue is empty.
- Time moves in units. It stands still at `MaxClock`, or at twice that while a
  timer is pending, so that every timer that was armed does fire.

Guests, preferences, realtime:

- One request at a time per caller; one poll per renderer; one heartbeat per
  page. Leases and expiry are two events (`Lapse`, `Expire`) without a clock.
- A database statement takes effect when issued and its answer is used in the
  caller's next step. Reads of the program state are answered in order except in
  instances with a `slow` budget.
- A claim of an invitation judges lease and expiry when it is issued. The code
  compares them with the `now` of the check before (`webrtc.service.ts:212`);
  nothing is awaited between that line and the statement, so the two differ by the
  statement's own way to the database: a lease that runs out on it is still
  respected, and an invitation that expires on it may still be claimed.
- A profile is the number of the edit that made it. The cache is written with
  each acknowledgement. The load of a shared layout
  (`operator-preferences.service.ts:264-293`) and the console's
  `adoptAcknowledged` of it (`ConsolePreferencesContext.tsx:351`) are left out.
- One operator changes scenes at a time (`Mutators`). The control page's
  WebSocket backup, its HTTP resynchronization loop and the application of its
  own mutation responses are left out, those of a scene-audio take and stop,
  which it shows without asking the watermark (`control.tsx:2092`, `2112`),
  included: `ConsoleIsCurrent` and `AudioIsCurrent` are about streams and polls.
- The background of a scene is known by its scene: a take of the scene on air with
  another asset than the configured one shows no difference. Neither black, which
  leaves the background playing, nor silence between two scenes is a promise of
  `BackgroundFollowsScene`. An off-air with nothing on air and no black returns
  early (`program.service.ts:2891`), so it announces nothing and leaves a
  background taken by hand.
- The deletion of a scene from the catalogue (`scenes.service.ts:320-343`) is left
  out. `clearActiveScene` stops its background only where the scene is on air
  (`program.service.ts:3054-3077`), so that one taken by hand plays on although
  its scene is gone.
- Session IDs, invitations and commands come from finite supplies, and a request
  that needs one is only made while one is left.

Broadcast:

- A selection is the function from chosen destinations to their pinned secret
  versions, so two selections are equal exactly when the request hash and the
  ordered IDs cannot tell them apart.
- Of `broadcastDestinationRuntime` only `nextSequence` is modelled: the other
  columns are written and never read. Creating and reordering catalogue
  entries, permissions and redaction are left out.
- `Begin` merges the call with its status read; nothing it decides is visible in
  between.
- Whether Alana comes to run exactly what it was sent is a choice (`partial`).

History variables (`claims`, `minted`, `accepted`, `order`, `claimed`, `refusal`,
`base`, `radio.aired`, `background.byHand`) are read by no guard except that `Enqueue` takes a fresh
ID. A budget per kind of environment step bounds how often operators act and
things fail; budgets are constants, so the theorems hold for every bound.

## 4. Runs, bounds and fairness

Engine instances use a looped automatic playlist of two songs and at most two
queue entries: two songs are the least with which the cursor's movement can be
told from its rest, two entries the least with which an order exists. The
budgets differ by question: failures of several kinds together with queued songs
in one run would only multiply interleavings that do not interact. A run with
several budgets has one initial state for each.

| run | environment | question |
|---|---|---|
| `quiet`, engine | 3 ends, 1 removal, 1 reordering, 2 entries | no request commanded twice, no track cut off, agreement once settled |
| `quiet`, rotation | eleven stations over five playlists (two favorites of four, with durations, nested, not looped, one favorite of two) with 4 or 5 songs and up to 6 units of time; each has one or two of: queued songs, an edit, a restart, a failed write, a lost start, a refused command, the picker | the playlist in order, the quota kept, never without a next song |
| `quiet`, rundown | 6 songs of 3 artists, one without a duration; 29 contents and 12 clocks of two slots, rests 0 to 2, with and without earlier logs; at most 6 events | the log is legal at every step |
| `failures` | 2 ends, a failed command, a failed write, a restart, 1 removal, 1 reordering, 2 entries; or 1 end, a broken stream, 2 polls, a failed poll | types; claims before commands; the active entry owns the stored head; entries leave only after their end |
| `operators` | 1 end and 1 entry with: a manual take and a save; or a Stop of either kind, a save, a failed command; or a failed command, a failed write and a restart; or a broken stream, a poll and a failed poll, which freezes the engine; or two broken streams | no step strands the engine in a transition; frozen, it takes no new turn; an idle snapshot ends the active song unless its end is noted already |
| `reconnects` | 2 ends, a broken stream, 1 removal, 1 entry | the rotation resumes (liveness) |
| `blocks` | one log of up to three cues out of five (songs, a fixed song, a clip with a fixed end, a clip before a stop, a held start), over a rotation; clock to 3; a failed command and a restart, or a failed command and a withdrawn medium | cues in order, awaited ends come, no filler skipped, rows and timers true, fixed starts taken, never silent for good |
| `requests` | two logs, clock to 2, five situations: one request beside a clocked log, a save beside one request, a restart, saves during a block of clips, two requests around a draft and a loop | logs claimed once and fresh; played items are kept by saves |
| `services` | guests: 2 invitations, 2 pages, 2 operators over 5 budgets; preferences: 2 consoles, 1 subject, 4 budgets; realtime: 2 scenes, one of them with a background of its own, a console and a renderer, 6 budgets, two of them with takes and stops of the scene audio | the properties of section 1, three of them temporal |
| `broadcasts` | 3 requests by 2 clients over 2 command IDs, 1 catalogue edit or state read, 1 fault | types, real successes, snapshots on air, effect in order |

`SettledAgreement` speaks of `Settled` states, those with nothing in flight; its
mutant shows that they are reached. The three properties of `operators` are what
the code keeps of stricter ones, `SettledRests`, `FrozenSendsNothing` and
`IdleEndsActiveSong`, which section 5 refutes: each excepts named causes, every
one of which occurs in the run, so that none can be left out. Three
requests are what it takes to Start, Stop and retry the Start; two clients and
two IDs give the concurrent duplicate, the conflicting reuse and the overtaking
call. `AlanaSequence = 1` starts Alana ahead of the database, so that allocation
above Alana's sequence differs from counting. `MaxEnded` is the code's 128 and is
never reached in a run. Three cues are the least with which a block has a
middle, two units of time the least in which a fixed start can fall inside a
cue; `Window` and `SongEndTimeout` are 1, so both run out. An `Interval` of 2 and two
favorites make the repeat gap 4, within a `Retention` of 5 and 6 units of time:
an opportunity, a rest, a repetition and a forgotten play all occur. Two pages are what a
session needs to be stolen, two operators what a slot needs to be raced for.

Deadlock is not checked: with its budgets spent and everything delivered, the
system rests.

**Fairness.** Node's event loop runs what is ready; nothing is ever assumed of
operators, of songs ending, or of failures.

- Engine, `FairSpec`: `WF_vars(Internal)`, every queued lock task, resolved
  `await` and answered command, and `WF_vars(Telemetry)`: `runStream` retries for
  ever with capped backoff and delivers what arrives. `RotationResumes` is
  checked without failed commands and writes: after a failed command
  `handleCommandFailure` retries nothing and the rotation rests until the next
  snapshot, which no document forbids.
- Flight, `FairSpec`: every call's own steps (`Proceeds`), the scheduler's poll
  (an interval timer), the chain of cue operations, timers that are due, the
  clock, and the report of an end. A song may play for ever, so
  `FixedStartsTaken` says that a fixed start is taken even then.
- Guests, `GuestFairness`: the heartbeat timer of a live page fires and accepted
  requests are carried out. Preferences, `PrefFairness`: the service answers and
  the consoles' debounce and retry timers fire.

## 5. Disagreements found

Runs expected to find a violation; `PROJECT.json` quotes the document for each.

| run | what happens |
|---|---|
| `restart_replays_head` | the track of a claimed head ends while the backend is down (or its removal is not yet written); after the restart the head is commanded again under the same playback ID |
| `state_read_rewinds_sequence` | `GET /broadcast/programs/{programId}` reads `nextSequence`, a command is stored, the read writes the old value back; the next command's sequence is already taken. The console polls this route every five seconds (`frontend/app/routes/broadcasts.tsx:149`). After a Reload, which never advances Alana's own sequence, every later command is rejected |
| `rewritten_log` | the guard of a save asks, when the save is prepared, whether a block runs on the program, whichever log it is of: a log that was already aired is rewritten |
| `snapshot_hides_transition` | a subscriber's snapshot is read before a transition and stamped with the version after it; the transition kept behind it is dropped as not newer |

Further disagreements, reproducible by changing the constants of a run's cfg
(`Budgets`, `Setups`, ... are given as the entries that are not zero).

*Engine* (from `restart_replays_head.cfg`):

| property | constants | what happens |
|---|---|---|
| `EntryLeavesAfterItsEnd` | `Budgets <- DropBudgets` | an idle snapshot taken before a command reached Palazzo is handled after the song became active; the claimed entry is consumed and the song plays with no entry behind it, against `docs/radio-telemetry.md:147-148` |
| `ActiveEntryOwnsHead` | `Entries = {e1}`; enqueue 1, song 1, drop 1, poll 1 | the same idle snapshot consumes the claim, and a late poll makes the entry active again while its removal waits for the lock: the song on air owns no row |
| `SettledRests` (an INVARIANT) | `Budgets <- FreezeBudgets` | the telemetry freezes during the bumper; the continuation returns with `transitioning` set and no snapshot resumes the rotation |
| `StopHolds` | `Budgets <- StopBudgets` | a claim waits for the lock while a Stop completes; afterwards it plays the head, against `docs/radio-station-workflow.md:81` |
| `NeverCommandsAgain` | two entries; enqueue 2, song 2, persistFail 1 | the removal of an ended entry is not written; `docs/radio-telemetry.md:92-95` promises to fail closed "instead of replaying a queue head", but the next operator mutation unblocks the queue and the head is commanded again |
| `FrozenSendsNothing` | enqueue 1, song 1, drop 1, poll 1, pollFail 1 | a claim that waited for the lock when the telemetry froze is played while frozen, against `docs/radio-telemetry.md:100-102` ("never ... sends another song"). `FrozenTakesNoTurn` of the run `operators` is what remains true |
| `IdleEndsActiveSong` | no entries; song 2, drop 1, poll 2 | a late poll makes an already ended request active again; the idle snapshot that follows is ignored because the request is remembered as ended, against `docs/radio-telemetry.md:104-105`. `IdleMissesOnlyNotedEnds` of the run `operators` is what remains true |
| `IdleEndsActiveSong` | no entries; song 1, drop 2, poll 1, pollFail 1 | an end reported while frozen is remembered and the song stays active; the idle snapshot of the recovery is then taken for a duplicate, and the engine keeps the song |
| `StoppedRowIsManual` (an INVARIANT) | no entries; `Edits <- DropsB`; stop 1, edit 1 | a save that overlaps a Stop writes the automatic rotation back, against `docs/radio-station-workflow.md:81` |
| `EntryLeavesAfterItsEnd` | `Edits <- MovesToB`; enqueue 1, edit 1 | a playlist save that overlaps an enqueue writes the old queue back, against `docs/radio-telemetry.md:147-148` |
| `ActiveEntryOwnsHead`, `EntryLeavesAfterItsEnd`, `SettledRests` | two entries; enqueue 2, song 2 with manual 2, or with a Stop, or with manual 1 and a failed command or write | a manual take or a Stop releases a claim or clears the transition while a release, a consumption or a cursor write waits for the lock, which then acts on an engine that has moved on; no document settles it |

*Playlist* (from `quiet.cfg`):

- `FollowsThePlaylist` without the exception of `Overdue`: when items declare
  durations, the cursor set before queued songs names the item that *would be*
  playing now, so a drained queue skips as many items as its songs lasted.
  `README.md:157-158` says that Autoplay "resumes from the playlist successor
  that would have played".
- A favorite chosen by the quota moves the cursor to it
  (`activateProgramSongLeaf`), so the rotation goes on from the favorite's place
  and skips or repeats the songs between. A playlist that is not looped starts
  over when the favorite precedes the cursor, against `README.md:155`.
  `FollowsThePlaylist` therefore measures the order from the last favorite.
- A nested sequence that is not looped keeps its old `startedAt` when the cursor
  enters it again; one that is looped is never left; one whose last item has
  passed by declared durations stays selected. After an edit or a restart while
  a song of it plays, an end moves only the inner cursor (`apart`).
- The opportunities of a day are 48 only if a song ends exactly when the interval
  does: each waits for the end of the song on air, against "guaranteeing at
  least four plays" (`README.md:163`).
- A start whose event was lost with a connection is not recorded, and a failed
  write followed by a restart forgets a play; the quota then repeats a favorite
  early, against `README.md:161-162` ("persists authoritative starts across
  restarts"). `QuotaIsKept` excepts such plays (`forgotten`).
- A playlist of favorites alone is silent between opportunities, until an event
  asks again.
- A playlist edited during the bumper is overwritten by the cursor that
  `persistPlaylistCursorForQueue` writes for a song queued meanwhile.
- After a reset the artist cycle of song similarity holds the artist of the new
  song alone, where `docs/song-similarity.md:67-70` starts it with the artist just
  played; that artist may come back after one song. `reloadSettings` replaces
  the cycle in memory by the stored one, whose write may be under way.

*Flight.* Requests of operators have no lock of their own; these follow from
`MC_FlightService` with two logs and one or two requests beside a clocked log
(`requests.cfg` with the property in place), and no document settles most of
them:

- A Stop while a block completes: `finishBlock` writes the automatic sequence it
  prepared after the Stop wrote the manual one.
- Go during the stop that completes a block starts a second `finishBlock`, and a
  filler is skipped. Go during a start executes the second cue, then the first.
- Deactivate, Reset or Stop overlapping the scheduler's start unmap the runtime
  just started, or leave a block waiting for an end that is ignored.
- The stop of the next block overlapping the persistence of a cue leaves the
  first row with `isRunning`.
- `CuesAirInOrder`, operate 1, edit 1: a save that overlaps the block moves it
  on twice, for instance by re-arming the timer of a clip that had queued the
  next cue.
- `PlaysSavedItems`, operate 1, edit 1: a save that overlaps a start is written,
  and the block airs the items read before.
- Two logs whose blocks overlap, without any request (one song at second 0, another
  at 1): the stop of the previous block, which `finishBlock` waits for, ends after
  the scheduler started the first song of the next block and takes that song for
  stopped (`radio.active = 0`). `AwaitedEndComes`, `RunningRowRuns` and
  `NoFillerSkipped` are violated; `CuesAirInOrder` and `TimersAreHeld` hold (the
  complete state space, 4.8 million states) and are proved for this case too.
- A block of clips of unknown length alone never cuts the rotation's track. If the
  stop that completes it is refused, or the process restarts between the write of
  the cursor and the resumption, the end of that track counts once more and a
  filler is skipped.
- A song-end time-out of a replaced runtime advances the one mapped by then. A
  failed song command leaves a block silent until its next fixed cue. The
  rotation's cursor is not persisted on a plain advancement, so a restart repeats
  fillers.

*Services* (from `snapshot_hides_transition.cfg`):

| property | budget | what happens |
|---|---|---|
| `SlotsAreReusable` | request 2, expire 1 | an expired invitation keeps its slot under the unique index, while `resolveSlot` calls it free: the creation fails with a server error, against `README.md:61` ("six reusable guest slots") |
| `AnswersStand` | request 1, join 1, command 1 | the guest's answer to a message is overwritten by the sender's `delivered` |
| `EndedGuestLeaves` (FairSpec) | request 2, join 2, device 1 | a page that connects after its invitation was revoked and whose device then fails stays in the room: `join` starts no heartbeat, so nothing ends it |
| `NeverSilentlyOverwritten` | edit 3, reset 1 | a reset starts versions over, so a save of version 1 matches a different profile of version 1, against `docs/operator-preferences.md:54` |
| `OneProfile` (an INVARIANT) | two linked subjects, edit 2 | two linked sign-ins that save for the first time together create two owned rows, and every later read fails as a collision |
| `RendererReconciles` | change 1, renderer 1, poll 2 | `program_scenes_changed` advances the renderer's watermark and shows nothing (`program.tsx:319`), so polls of the same version are dropped, against `docs/program-realtime.md:42-45` |
| `ConsoleIsCurrent` (an INVARIANT) | fade 1, console 2, drop 1 | a `fade_to_black` belongs to no topic and carries no version: lost with a broken stream it is not repaired by a snapshot of the version already seen |
| `AudioIsCurrent` (an INVARIANT) | change 2, renderer 2, restart 1 | versions start over with the backend while pages keep their watermarks, and later announcements are dropped |
| `BackgroundFollowsScene` (an INVARIANT) | two operators; change 2 | the handlers of two overlapping takes interleave at their awaits, and the background of a scene no longer on air stays; no document settles it |

Also observed: edits made while a save or the first read is out are overwritten
by its acknowledgement; a cut timer of the renderer undoes a fade or a snapshot
that arrived during the transition; two operators' overlapping scene changes
announce in another order than they wrote; a replacement that fails after its
revocation has lost the slot.

Observed while modelling the broadcast part and left to the code's owners:

- A retry of a stored, failed command does not ask `assertCurrentlySelectable`
  again, so a Start can be retried with a destination retired since, which
  `docs/broadcast-destinations.md` excludes for "an attempted replay".
- Two concurrent requests with one command ID both reach Alana. The fixture
  refuses the second as not newer, and `failCommand` overwrites the recorded
  success. The same follows from a lost answer. Whether the real Alana
  answers a repeated idempotency key with its earlier result is not in this
  repository.
- Replaying a succeeded Reload while the broadcast runs is answered `409`, not
  with the recorded result, because the status is asked first.

## 6. Theorems

The proof modules hold for every value of the constants: any sets of items,
entries, logs, cues, clients, commands, destinations, invitations, pages,
consoles, scenes and operators, any queue limit, any initial playlist, rows and
edits, and any budget.

**SongExecutionEngineProofs.** `TypeCorrect` is `TypeOK`; `ClaimedFirst` is
`ClaimedBeforeCommanded`: a song active for a queue entry carries a request that
was persisted as that entry's claim. That property alone is not inductive: the
engine activates a head because its *memory* shows a claim, and it reads claims
from the row, from a queued save or from an operator's stale copy. The invariant
says that no such copy holds a claim that was never persisted. It is stated as
types: `Backed(cl)` is the set of queue entries whose claim, if any, is in `cl`,
and the queues of the row, of the engine and of the saves in progress are
sequences over `Backed(claims)`. What a queue operation does to claims is then a
typing lemma about it, each handler has one lemma, each action one step, and
`claims` only grows.

`FrozenKeepsOut` (`FrozenTakesNoTurn`) holds of every execution and goes through
the handlers once more: all of them ask whether the telemetry is available before
they command a song or ask for the lock to do so, except the continuations of a
claim and of a cursor saved for the queue (`PlaysOn`). A frozen engine therefore
commands nothing but from a turn that gets the lock meanwhile, and no release,
failure, bumper, late reply or operator write adds such a turn. It is not what the
document says; section 5 has the execution in which such a turn plays.

`HeadIsOnAir` (`ActiveEntryOwnsHead`), `NoSongIsLost` (`EntryLeavesAfterItsEnd`)
and `SettledIsReady` (`NeverStranded`, `SettledRests`) are theorems about executions in which
operators use nothing but the queue (`OnlyTheQueue`): nobody takes a song by
hand, stops or saves another playlist, and an outage of the stream is over before
a poll is due. Songs end, the stream breaks and opens again, commands and writes
fail, the backend restarts and mixer saves overlap everything, as often as they
like. One thing is assumed of a reconnection (`FindsItsSong`): the snapshot the
engine reads finds its song on air, or finds that this song is over. Section 5
has a violation for each exclusion; the one with `DropBudgets` is a snapshot that
does neither, because the command had not arrived yet.
The inductive invariant is `Calm`:

- `Orderly`: the engine's memory is the stored queue, and there is *one turn at
  a time*. It is in a transition exactly while one task or one bumper will end
  it, and then no song is active; otherwise the active entry is the head, with
  the request of its claim. Without "exactly one", a second task could act on
  the next head.
- `Stocked`: the stored queue is `Tidy` (distinct entries, only the head
  claimed), so that normalization and every queue operation can be told apart by
  the head alone. That a reordering keeps the entries is a pigeonhole argument.
- `Spent`: an entry about to be consumed was claimed for a request that is over
  on Palazzo, which needs `Heard` (Palazzo knows what it plays) and
- `Wired`: an open stream either still has its snapshot ahead, or its frames
  follow the cursor in order and without a gap; what it announces as ended is
  over. Without it a frame of the connection before, or a gap, could end a song
  that plays.
- `Undisturbed`: none of the excluded requests is under way.

`NeverRepeated` (`NeverCommandsAgain`), `PlayedToTheEnd` (`NeverCutsOff`),
`SettledInStep` (`SettledAgreement`) and `IdleEndsItsSong` (`IdleEndsActiveSong`,
`IdleMissesOnlyNotedEnds`, and no note of the end of a song that is active, `Deaf`)
relate the engine to Palazzo, and assume in addition that commands are answered,
the backend stays up and the write that consumes an ended entry succeeds
(`Uninterrupted`), and that a reconnection comes `InTime`: its snapshot is read
while no command is on its way to Palazzo, and one that said idle is still true.
That it then finds the song of the engine (`FindsItsSong`) is proved, not
assumed. Section 5 shows why an unwritten end is excluded; a failed command or a
restart makes the engine forget a song that Palazzo plays or will play. Claims,
releases and cursors may still fail to be written, the stream may break at any
point of a song's life, and mixer saves overlap everything, which is more than
the run `quiet` explores. The inductive invariant adds `Quiet` to `Calm`: the life of
one request, from its number to its end.

- `Honest`: at most one command has not reached Palazzo, and it is that of the
  song on air with a request Palazzo has not seen; the request of a claim being
  written is new; what ended was seen and is not on air. Thus every command is
  for a new request, which is `NeverRepeated`.
- `Due`: a claimed head is on air, or its end waits to be written, or its request
  was never commanded. This is what the crash and failed-write executions of
  section 5 break: there a claim is left over from a request that was played.
- `InStep`: what Palazzo plays is the song on air, and if the song on air is over
  the engine is going to hear it (`EndComes`): a frame past the cursor announces
  the end, or a snapshot is ahead, or the stream is down and a snapshot will come.
  A command whose request Palazzo has not seen therefore arrives in silence, which
  is `PlayedToTheEnd`; with an open, empty wire and no command left a song on air
  is not over, which is `SettledInStep`.
- `IdleEndsItsSong` needs both halves: by `InStep` an idle snapshot finds the song
  of the engine over, and by `Honest` its end is not among the remembered ones, so
  `TrackEnded` does not take it for a duplicate. The late poll of section 5 breaks
  the second half.

**BroadcastDestinationsProofs.** The inductive invariant `IInv` has four groups,
and each action has a lemma that it keeps all of them.

- *Carrying*: an open request agrees with the command it stored, a call on the
  wire carries that command's sequence and a snapshot some stored command names,
  and so do the active and pending selections of Alana; a client waits for at most one
  call. `Grows` (selections are only appended, commands never lose their
  request, version or sequence) makes these facts stable. `SnapshotsRun`
  (`RunsTheSnapshot`) follows.
- *Sequenced*: the stored commands have exactly the sequences
  `AlanaSequence + 1, AlanaSequence + 2, ...` in the order stored, and nothing
  anyone has seen (`nextSequence`, a state read, a request's status read, Alana's
  last sequence) is past the last of them. The unique index is what closes the
  argument: a rewound `nextSequence` could repeat a sequence, but then `Store`
  rolls back, so a stored sequence is always the next one
  (`SequencesAreContiguous`). Alana takes only newer sequences, so `OrderKept`
  (`TakesEffectInOrder`) follows: the defect of `state_read_rewinds_sequence`
  costs availability, never order.
- *Answers*: a positive answer to a start says what Alana took. With it
  `SuccessesAreReal` (`SuccessIsReal`) is inductive.
- *TypeOK*, needed with the fact that a waiting client's request is open
  (`TypeCorrect`).

**RadioRundownProofs.** `LogsAreLegal` is `LogIsLegal` for any songs, lengths,
artists, contents, slots, rest and limit. What a log promises is not inductive:
that a filler may not repeat a song says nothing of content still to come, and a
gap is only covered when its boundary is reached. `Reserved` keeps the songs of
the content, placed or not, and every chosen song out of reach (`used`);
`Layout` says where the log so far
ends: at the cursor, before it only after a stop and past it only in a filler
(`Joined`); at the fixed start of the event placed next (`OnTime`); and short of
it while the gap before it is filled (`InGap`). Artist separation needs only `Rested` at each placement, because the
songs looked back at are the last ones of the log.

**ServicesProofs, guests.** `GuestTypeCorrect` is `GuestTypeOK`.
`SlotsStayExclusive` (`SlotsAreExclusive`): the slot a request carries was free
several awaits ago and may be taken by now, so nothing about the request is
invariant; what closes the argument is the row alone. `Insert` asks the unique
index of the rows as they are, every other action keeps a row's slot or clears
it, and no row takes a slot in any other way.
`LeaseImplemented` (`LeaseIsKept`) is the refinement `GuestSpec => LeaseSpec`
under the mapping session, unexpired lease, revoked. Its inductive part is
`ClaimsAreNamed` (a join about to claim carries a session), so its claim is a
`Take`. `Keeps(i)` says that the lease sees no change of row `i`, `Only(i)` that
it sees none of the others; one lemma per abstract action (`TakeMoves`,
`ExtendMoves`, `RunOutMoves`, `FreeMoves`) turns the change of one row into a
step of the lease, and `LeaseStep` goes through the actions: each is `Take`
(`Claim`), `Extend` (`Renew`, which may come after the lease ran out or passed
to another session), `RunOut` (`Lapse`), `Free` (`ReleaseSession`), `Close`
(`RevokeRow`) or a stutter.

**FlightServiceProofs.** `FlightTypeCorrect` is `TypeOK`. The invariant behind it,
`TypeInv`, types a call by its stage (a call that works on a log names one, one
that executes a cue has a runtime and a cue in its list) and an armed timer by
its runtime, because nearly every step looks up what an earlier one left in the
call. On top of it:

- `LogsAreClaimedFresh` (`ClaimsAreFresh`) by `ClaimInv`: what was claimed is
  marked as started in its row, the runtime of a clocked log has a started row,
  and what a call launches is what it read of the row. A row's mark is never
  taken back and its start never changes, so the conditional claim cannot
  succeed twice, nor after anything of the log ran.
- `PlayedItemsAreKept` (`PlayedItemsKept`) by `SaveInv`: a save between its check
  and its write holds the items the row has unless the revision moved on, and the
  runtime it found still plays within what it kept. The lock of cue operations is
  what keeps the cue from moving on; the revision is what makes a stale save fail.
- `CuesAirInOrderUnattended` and `TimersAreHeldUnattended`, for executions without
  operators' requests (`Unattended`; sections 4 and 5 have the requests that break
  them), by `OrderInv`: at most one thing is pending for a runtime (an armed timer,
  an awaited end, the cue in execution, the scheduler's launch, or one request of
  the current generation), it leads to a cue that has not aired, and what aired is
  in order. The generation is what the argument turns on: a request that a skip or
  a time-out left behind carries an old one. Blocks may overlap as they like. It
  rests on an assumption the code enforces on save and on publication
  (`flight.service.ts:655`): a row with a scheduled start does not loop.

**FlightBlocksProofs.** What a block can rely on while no other overlaps it.
`AwaitedEndComesAlone` and `RunningRowRunsAlone` add two hypotheses to
`Unattended`: the scheduler claims a log while no block is in the map and no call
is under way (`OneByOne`; section 5 shows what an overlap does), and no row says
at first that it runs (`NoneRuns`: `onModuleInit` takes the marks of clocked logs
back, and those of manual rows stay). `BlockInv` has three parts:

- `AloneInv`: one call at most is under way and nothing is pending beside it; the
  runtime in the map runs and is of the log the program points to; and the stage
  of a call agrees with the map (`Fits`).
- `WaitInv`: a block that waits for the end of its song waits for the one the
  engine believes in, and it plays or its end is still to be delivered. This is
  `AwaitedEndComes`, and it is inductive only because no stop of another block
  is under way.
- `MarkInv`: a row is marked exactly if its runtime is in the map, except while a
  stop is ending (the row goes first) and before a launch is persisted.

**FlightRotationProofs.** `NoFillerSkippedAlone` (`NoFillerSkipped`) on the same
terms and `HandsBack`: no stop is refused and no restart comes from the moment a
completed block has written the rotation's cursor until the rotation resumes.
`FillerInv` has two parts.

- `DueInv`: what is in the map, or about to be, has reached its start. Hence
  whatever is in the map owns the air (`OwnsTheAir`) and the rotation stands still
  meanwhile, although `isClockedLogRunning` asks the clock each time.
- `AirInv`: what aired is in sequence; the row's cursor is at most the engine's,
  plus one while a resumption is being written (`Lag`); the engine's is at most
  that of the last filler, plus one from then until the rotation has resumed
  (`Lead`). A cursor that is not the engine's or a filler counted twice would show
  as a second step between the two, which is what happens without `HandsBack`.

**ServicesProofs, preferences.** `PrefTypeCorrect` is `PrefTypeOK`.
`SavesAreNeverSilent` (`NeverSilentlyOverwritten`) needs to know where every copy
of a version came from: `Provenance` says that any version a console, its cache,
a conflict or a request carries was shown with a profile that a row reachable
by the same sign-in either still has under this version or has left behind
(`Known`). Rows only advance (`Advances`: no version is rewound and none changes
its profile), so what is known stays known, and a save that matches the version
replaces the profile it names. Deleting rows starts versions over, which is the
hypothesis the theorem has and the violation of section 5.

**ProgramRealtimeProofs.** `RealtimeTypeCorrect` is `RealtimeTypeOK`.
`BackgroundFollows` (`BackgroundFollowsScene`, for one operator at a time,
`OneMutator`): `Handles` says for each handler and each of its awaits how far the
background may lag behind the scene on air, and which scene it can be of when the
handler announces. A take or a stop by hand is one of these handlers: what it
starts is marked `byHand`, and the theorem says that nothing else parts the two
and that the next take, off-air or removal sees to it. `AudioStaysCurrent`
(`AudioIsCurrent`): every payload on a stream, in a poll or in a page's view that
carries the current version says what the service believes is on air
(`Tracks`, `Heard`), and none is ahead. It holds in every execution without a
restart, which starts versions over.
`ConsolesStayCurrent` (`ConsoleIsCurrent`, for one operator at a time) looks at
the whole stream of a console: whatever it still carries, the rows the console
will show on the way form a `Chain` that ends at the service's version, and
every row of the chain that has that version, with no fade still to come, is the
program's or is repaired by the announcement in flight (`Lagging`). A console
whose stream is down or about to open already satisfies this for what it shows
(`Linked`), so nothing is lost with a broken stream that the next snapshot does
not repair. The exceptions are the theorem's hypotheses, and TLC finds
`ConsoleIsCurrent` violated when any one of them is dropped: versions start over
at a restart (`~RestartBackend`); a fade carries no version, so it is repaired
by nothing when it is announced while a console is away or breaks with its
stream (`FadesArrive`); the row read for a snapshot is older than the version it is
sent with when an announcement comes between the two (`ReadsAnswered`); and two
overlapping changes announce in another order than they wrote (`OneMutator`).

**ServicesProofs, side by side.** The lemma `SideBySide` says that `MC_Services` is the
conjunction of three specifications that share no variable, so the theorems of
its parts hold of the composition; `PagesTypeCorrect` is `PagesTypeOK` there.

Assumptions: only the named ones of the modules (`PlaylistAssumption`,
`QueueAssumption`, `EndedAssumption`, `EngineAssumption`,
`BroadcastAssumption`, `GuestAssumption`, `RundownAssumption`,
`FlightAssumption`, `RealtimeAssumption`, `NothingAssumption`, `PrefAssumption`,
`MissingAssumption`), which type the constants and keep `None`, `Nothing` and
`Missing` apart from what they stand beside; and the hypotheses on executions
named above: section 5 has what happens without each of them, and the
paragraphs above say it of the realtime delivery. Each invariant was first checked by TLC as an invariant of the
corresponding instance, `Calm` on instances of `OnlyTheQueue` and `FindsItsSong`
and `Quiet` on instances of `OnlyTheQueue`, `Uninterrupted` and `InTime`, with two
entries and up to two failures and three broken connections; on those a
reconnection does end a song the engine still believed on air.

## 7. What is only model-checked, and what is not modelled

Only model-checked:

- Everything about the rotation (`ChoicesTypeOK`, `AlwaysPlayable`,
  `FollowsThePlaylist`, `QuotaIsKept` and the others): PlaylistClock is recursive over the nesting of a
  playlist, which puts it and PlaylistRotation out of the prover's reach.
- Of the flight service, the liveness of a block below, and its safety under
  failures the theorems exclude: the run `blocks` has them with songs and with
  clips of known length.
- Liveness under fairness (`RotationResumes`, `NeverSilentForGood`,
  `FixedStartsTaken`, `EndedGuestLeaves`, `PreferencesSettle`), which the proof
  system does not handle, as it does not handle ENABLED or induction over data.

Some of these hold only for the runs that check them: the violations of section 5
are the reason they are not theorems of their specification.

Not modelled: the components of section 1 without a module. Media assets,
external sources, now-playing and backup are planned below; of song similarity
the scoring is numeric, and the artist cycle and the embedding jobs are left
out; catalogues, authentication, observability, most of the frontend and
deployment have no behaviour over time of their own; recording keeps no state.
Deliberately outside the modelled parts: the answer to an accepted command that
is lost (the engine clears the song Palazzo plays) is in the model, but no
document says what should happen, so no property is claimed for it.

## 8. Plan

Done: the radio automation with its surroundings, timed blocks over it, the
broadcast commands, guests, preferences and realtime delivery, the playlist's
rotation and the building of logs, and the theorems of section 6. Next, in this
order:

1. **Proofs about the core.** The engine's theorems for polls answered while
   nothing is on its way, as `InTime` has it for reconnections, and the flight
   service's theorems for requests that do not overlap.
2. **PlayNextQueue**, the abstract queue an operator is promised (enqueue,
   remove, play head, finish head, exactly once and in order), with the engine
   shown to implement it for the runs in which no disagreement applies.
3. **BroadcastDestinations**, second step: a property over retirement at the
   time of the request, and an abstract specification (a log of commands of
   which Alana applies a subsequence) implemented by it.
4. **PalazzoProgramClient** in detail: boots, instance mismatch, backoff, with
   the telemetry of SongExecutionEngine as its abstraction.
5. **SongSimilarity**: the artist cycle and the claims of the embedding jobs.
6. **NowPlaying**, **MediaAssets**, **ExternalSources**, **DatabaseBackup**:
   small modules, one per component.

Runs stay few: one per question. New modules get a run with their safety
properties and, where the code promises progress, one under fairness.
