------------------------------ MODULE RadioRundown -----------------------------
(***************************************************************************)
(* Building a radio log: generateRadioLog chooses tagged songs for the     *)
(* slots of a clock, fillRadioRundown fills the gaps between timed content *)
(* (backend/src/program/radio-log-generator.ts, radio-rundown-filler.ts).  *)
(* A step places one event.  The song chosen is the least of the eligible  *)
(* ones in the order of the pool, so a job has one outcome.                *)
(*                                                                         *)
(* An event of the content is [kind, song, ms, fixed]: "song", "clip" or   *)
(* "stop", its length (a song's own when it has one), and its fixed start  *)
(* or Unset.  The fillers of an earlier fill are not part of the content.  *)
(* The time before a first fixed start is not filled; the preflight of a   *)
(* published log rejects one that does not begin at zero.                  *)
(***************************************************************************)
EXTENDS Naturals, Sequences, FiniteSets

CONSTANTS
    Songs,       \* song IDs
    Artists,     \* artists, trimmed and in lower case
    Artist,      \* [Songs -> Artists]
    Length,      \* [Songs -> Nat], 0 when the song has no duration
    Unset,       \* undefined
    MaxEvents,   \* 120
    Jobs         \* the requests explored

CueKinds == {"song", "clip", "stop"}
Starts == Nat \cup {Unset}
Cue == [kind : CueKinds, song : Songs \cup {Unset}, ms : Nat, fixed : Starts]
Slot == [pool : SUBSET Songs, position : [Songs -> Nat], count : Nat \ {0}, fixed : Starts]

\* A request: rest songs between two of one artist, and the songs of the last
\* published logs, latest last.
Job == [kind : {"fill", "generate"}, rest : Nat, previous : Seq(Songs),
        content : Seq(Cue), tagged : SUBSET Songs, slots : Seq(Slot)]

ASSUME RundownAssumption ==
    /\ Songs \subseteq Nat /\ Unset \notin Nat
    /\ Artist \in [Songs -> Artists] /\ Length \in [Songs -> Nat]
    /\ MaxEvents \in Nat
    /\ Jobs \subseteq Job
    /\ \A j \in Jobs : \A i \in DOMAIN j.content :
        j.content[i].kind = "song" => /\ j.content[i].song \in Songs
                                      /\ j.content[i].ms = Length[j.content[i].song]

VARIABLES
    job,       \* the request
    stage,     \* placing the n-th event, filling before it, done or failed
    n,         \* the content event or slot in turn
    needed,    \* songs the slot still needs
    used,      \* songs that may not be chosen any more
    songs,     \* the songs of the log so far, [song, picked]
    items,     \* the log so far, with the start and length each event was given
    cursor     \* the time the log so far ends

rundownVars == <<job, stage, n, needed, used, songs, items, cursor>>

Item == [kind : CueKinds, filler : BOOLEAN, fixed : Starts, at : Nat, ms : Nat]

--------------------------------------------------------------------------------
\* The songs of the content are taken, those after a gap too.
ContentSongs(j) == {j.content[i].song : i \in {k \in DOMAIN j.content : j.content[k].kind = "song"}}

\* lastUse: the latest position in the earlier logs, 0 for a song in none.
UsedAt(j, s) == {i \in DOMAIN j.previous : j.previous[i] = s}
LastUse(j, s) == IF UsedAt(j, s) = {} THEN 0
                 ELSE CHOOSE i \in UsedAt(j, s) : \A k \in UsedAt(j, s) : k <= i

\* The pool's order: longest unused first, then by place under the tag, then by ID.
Before(j, place, s, t) ==
    \/ LastUse(j, s) < LastUse(j, t)
    \/ LastUse(j, s) = LastUse(j, t) /\ place[s] < place[t]
    \/ LastUse(j, s) = LastUse(j, t) /\ place[s] = place[t] /\ s <= t

\* Mutant of Rested: the songs looked back at are one short.
RestedShort(s) ==
    \A i \in DOMAIN songs : Len(songs) - i < job.rest - 1 => Artist[songs[i].song] # Artist[s]

\* Unset of the last job.rest songs is by the artist of s.
Rested(s) == \A i \in DOMAIN songs : Len(songs) - i < job.rest => Artist[songs[i].song] # Artist[s]

Eligible(pool) == {s \in pool \ used : Rested(s)}

\* The filler for what remains: the first that fits, else the shortest.
IsFiller(s, eligible, remaining) ==
    LET fits == {t \in eligible : Length[t] <= remaining}
        anywhere == [t \in Songs |-> 0]
    IN  /\ s \in eligible
        /\ fits # {} => s \in fits /\ \A t \in fits : Before(job, anywhere, s, t)
        /\ fits = {} => \A t \in eligible : Length[s] < Length[t] \/ (Length[s] = Length[t] /\ s <= t)

--------------------------------------------------------------------------------
RundownInit ==
    /\ job \in Jobs
    /\ stage = IF job.kind = "fill" /\ job.content = <<>> THEN "failed" ELSE "placing"
    /\ n = 1
    /\ needed = IF job.kind = "generate" /\ job.slots # <<>> THEN job.slots[1].count ELSE 0
    /\ used = IF job.kind = "fill" THEN ContentSongs(job) ELSE {}
    /\ songs = <<>> /\ items = <<>> /\ cursor = 0

\* A BadRequestException: nothing of the log is kept.
Rejected == stage' = "failed" /\ UNCHANGED <<job, n, needed, used, songs, items, cursor>>

Placed(kind, filler, fixed, at, ms) ==
    Append(items, [kind |-> kind, filler |-> filler, fixed |-> fixed, at |-> at, ms |-> ms])

\* Whether the n-th event of the content cannot follow what was placed.
Impossible(cue) ==
    \/ cue.fixed # Unset /\ cursor > cue.fixed
    \/ cue.kind \in {"song", "clip"} /\ cue.ms = 0
    \/ cue.kind = "song" /\ ~Rested(cue.song)

\* A fixed start later than the end of what was placed.
GapFollows(next, end) == next.fixed # Unset /\ end < next.fixed

\* One event of the content, at its fixed start or at the cursor.  A stop keeps
\* the air silent up to a fixed start that follows it.
PlaceContent ==
    LET cue   == job.content[n]
        at    == IF cue.fixed # Unset THEN cue.fixed ELSE cursor
        end   == at + (IF cue.kind = "stop" THEN 0 ELSE cue.ms)
        next  == job.content[n + 1]
        gap   == n < Len(job.content) /\ GapFollows(next, end)
        late  == n < Len(job.content) /\ next.fixed # Unset /\ end > next.fixed
    IN  /\ job.kind = "fill" /\ stage = "placing" /\ n <= Len(job.content)
        /\ IF Impossible(cue) \/ late THEN Rejected
           ELSE /\ items' = Placed(cue.kind, FALSE, cue.fixed, at, end - at)
                /\ songs' = IF cue.kind = "song"
                            THEN Append(songs, [song |-> cue.song, picked |-> FALSE]) ELSE songs
                /\ n' = n + 1
                /\ stage' = IF gap /\ cue.kind # "stop" THEN "filling" ELSE "placing"
                /\ cursor' = IF gap /\ cue.kind = "stop" THEN next.fixed ELSE end
                /\ UNCHANGED <<job, needed, used>>

\* One filler before the fixed start of the n-th event, cut there when longer.
PlaceFiller ==
    LET boundary == job.content[n].fixed
        eligible == Eligible({s \in job.tagged : Length[s] > 0})
    IN  /\ job.kind = "fill" /\ stage = "filling"
        /\ \/ eligible = {} /\ Rejected
           \/ \E s \in eligible :
                /\ IsFiller(s, eligible, boundary - cursor)
                /\ items' = Placed("song", TRUE, Unset, cursor, Length[s])
                /\ songs' = Append(songs, [song |-> s, picked |-> TRUE])
                /\ used' = used \cup {s}
                /\ cursor' = IF cursor + Length[s] < boundary THEN cursor + Length[s] ELSE boundary
                /\ stage' = IF Len(items) + 1 >= MaxEvents THEN "failed"
                            ELSE IF cursor + Length[s] < boundary THEN "filling" ELSE "placing"
                /\ UNCHANGED <<job, n, needed>>

\* One song of the n-th slot; the first of a slot carries its fixed start.
PlaceSlotSong ==
    LET slot == job.slots[n]
        eligible == Eligible(slot.pool)
    IN  /\ job.kind = "generate" /\ stage = "placing" /\ n <= Len(job.slots)
        /\ \/ eligible = {} /\ Rejected
           \/ \E s \in eligible :
                /\ \A t \in eligible : Before(job, slot.position, s, t)
                /\ items' = Placed("song", FALSE, IF needed = slot.count THEN slot.fixed ELSE Unset,
                                   cursor, Length[s])
                /\ songs' = Append(songs, [song |-> s, picked |-> TRUE])
                /\ used' = used \cup {s}
                /\ n' = IF needed = 1 THEN n + 1 ELSE n
                /\ needed' = IF needed > 1 THEN needed - 1
                           ELSE IF n < Len(job.slots) THEN job.slots[n + 1].count ELSE 0
                /\ UNCHANGED <<job, stage, cursor>>

Finish ==
    /\ stage = "placing"
    /\ n > Len(IF job.kind = "fill" THEN job.content ELSE job.slots)
    /\ IF job.kind = "fill" /\ Len(items) > MaxEvents THEN Rejected
       ELSE stage' = "done" /\ UNCHANGED <<job, n, needed, used, songs, items, cursor>>

RundownNext == PlaceContent \/ PlaceFiller \/ PlaceSlotSong \/ Finish

RundownSpec == RundownInit /\ [][RundownNext]_rundownVars

--------------------------------------------------------------------------------
(* Properties                                                              *)

\* Type correctness of a job under way.
RundownTypeOK ==
    /\ job \in Job
    /\ stage \in {"placing", "filling", "done", "failed"}
    /\ n \in Nat /\ needed \in Nat /\ cursor \in Nat
    /\ used \subseteq Songs
    /\ songs \in Seq([song : Songs, picked : BOOLEAN])
    /\ items \in Seq(Item)

\* A song the program chose is nowhere else in the log.
ChosenOnce ==
    \A i, j \in DOMAIN songs : i # j /\ songs[i].picked => songs[i].song # songs[j].song

\* At least job.rest songs lie between two of one artist.
ArtistsRest ==
    \A i, j \in DOMAIN songs :
        i < j /\ j - i <= job.rest => Artist[songs[i].song] # Artist[songs[j].song]

End(item) == item.at + item.ms

\* Nothing but an explicit stop leaves silence before the next event.
NoUnplannedSilence ==
    \A k \in 2..Len(items) : items[k - 1].kind = "stop" \/ items[k].at <= End(items[k - 1])

\* Only a filler is cut by what follows it.
OnlyFillersAreCut ==
    \A k \in 2..Len(items) : items[k - 1].filler \/ items[k].at >= End(items[k - 1])

\* Content with a fixed start is there when it comes.
FixedStartsAreKept ==
    \A k \in DOMAIN items : items[k].fixed # Unset => items[k].at = items[k].fixed

\* docs/radio-station-workflow.md:13 and 73-75: a log repeats no song it chose,
\* rests artists across content and fillers, covers every gap and cuts only
\* fillers (generateRadioLog, fillRadioRundown).
LogIsLegal ==
    /\ ChosenOnce /\ ArtistsRest
    /\ job.kind = "fill" => NoUnplannedSilence /\ OnlyFillersAreCut /\ FixedStartsAreKept
================================================================================
