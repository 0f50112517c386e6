--------------------------- MODULE RadioRundownProofs ---------------------------
(***************************************************************************)
(* Theorems about RadioRundown for every catalogue, pool, clock, content   *)
(* and separation: a log under way is well typed, and it is legal at every *)
(* step, so what is handed to the operator is.                             *)
(***************************************************************************)
EXTENDS RadioRundown, TLAPS

\* The request never changes and counting starts at one.
Counted == job \in Jobs /\ n \in Nat \ {0}

\* What the log has is taken; what was chosen is not among the content.
Reserved ==
    /\ \A i \in DOMAIN songs : songs[i].song \in used
    /\ job.kind = "fill" =>
        /\ ContentSongs(job) \subseteq used
        /\ \A i \in DOMAIN songs : songs[i].picked => songs[i].song \notin ContentSongs(job)

\* The cursor is where the last event ends, past it after a stop only, before
\* it in a filler only.
Joined ==
    items # <<>> =>
        /\ items[Len(items)].kind = "stop" \/ cursor <= End(items[Len(items)])
        /\ items[Len(items)].filler \/ cursor >= End(items[Len(items)])

\* The gap before a fixed start is closed when that event is placed.
OnTime ==
    (stage = "placing" /\ items # <<>> /\ n <= Len(job.content) /\ job.content[n].fixed # Unset)
        => cursor = job.content[n].fixed

\* A gap that is being filled ends at the fixed start of the next event.
InGap ==
    stage = "filling" =>
        /\ items # <<>> /\ n \in 2..Len(job.content)
        /\ job.content[n].fixed # Unset /\ cursor < job.content[n].fixed

Layout == job.kind = "fill" => Joined /\ OnTime /\ InGap

RundownInv == RundownTypeOK /\ Counted /\ Reserved /\ Layout /\ LogIsLegal

--------------------------------------------------------------------------------
\* What appending to a sequence keeps and adds.
LEMMA Appended ==
    ASSUME NEW S, NEW s \in Seq(S), NEW x \in S
    PROVE  /\ Append(s, x) \in Seq(S)
           /\ Append(s, x) # <<>>
           /\ Len(Append(s, x)) = Len(s) + 1
           /\ DOMAIN Append(s, x) = 1..(Len(s) + 1)
           /\ DOMAIN s = 1..Len(s)
           /\ Len(s) \in Nat
           /\ \A i \in 1..Len(s) : Append(s, x)[i] = s[i]
           /\ Append(s, x)[Len(s) + 1] = x
OBVIOUS

\* The parts of a request have their types.
LEMMA JobTypes ==
    ASSUME job \in Jobs
    PROVE  /\ job \in Job
           /\ job.rest \in Nat
           /\ job.content \in Seq(Cue) /\ job.slots \in Seq(Slot)
           /\ \A i \in DOMAIN job.content :
                /\ job.content[i] \in Cue
                /\ job.content[i].kind = "song" =>
                     /\ job.content[i].song \in Songs
                     /\ job.content[i].song \in ContentSongs(job)
           /\ \A i \in DOMAIN job.slots : job.slots[i] \in Slot
<1>1. job \in Job BY RundownAssumption
<1>2. job.content \in Seq(Cue) /\ job.slots \in Seq(Slot) /\ job.rest \in Nat BY <1>1 DEF Job
<1>3. \A i \in DOMAIN job.content : job.content[i] \in Cue BY <1>2
<1>4. \A i \in DOMAIN job.slots : job.slots[i] \in Slot BY <1>2
<1>5. \A i \in DOMAIN job.content :
        job.content[i].kind = "song" => job.content[i].song \in Songs
    BY RundownAssumption
<1>6. \A i \in DOMAIN job.content :
        job.content[i].kind = "song" => job.content[i].song \in ContentSongs(job)
    BY DEF ContentSongs
<1> QED BY <1>1, <1>2, <1>3, <1>4, <1>5, <1>6

\* The first state is well typed and its log is empty.
LEMMA InitInv == RundownInit => RundownInv
<1> SUFFICES ASSUME RundownInit PROVE RundownInv
    OBVIOUS
<1>1. job \in Jobs /\ job \in Job BY RundownAssumption DEF RundownInit
<1>2. ContentSongs(job) \subseteq Songs
    BY <1>1, JobTypes DEF ContentSongs
<1>3. needed \in Nat
  <2>1. CASE job.kind = "generate" /\ job.slots # <<>>
    <3>1. 1 \in DOMAIN job.slots BY <2>1, <1>1, JobTypes
    <3>2. job.slots[1].count \in Nat BY <3>1, <1>1, JobTypes DEF Slot
    <3> QED BY <2>1, <3>2 DEF RundownInit
  <2>2. CASE ~(job.kind = "generate" /\ job.slots # <<>>)
    BY <2>2 DEF RundownInit
  <2> QED BY <2>1, <2>2
<1>4. RundownTypeOK
    BY <1>1, <1>2, <1>3 DEF RundownInit, RundownTypeOK
<1>5. Counted /\ Reserved
    BY <1>1 DEF RundownInit, Counted, Reserved
<1>6. Layout
    BY DEF RundownInit, Layout, Joined, OnTime, InGap
<1>7. LogIsLegal
    BY DEF RundownInit, LogIsLegal, ChosenOnce, ArtistsRest, NoUnplannedSilence,
           OnlyFillersAreCut, FixedStartsAreKept
<1> QED BY <1>4, <1>5, <1>6, <1>7 DEF RundownInv

\* A rejected or finished log is needed as it is.
LEMMA Ended ==
    ASSUME RundownInv, stage' \in {"done", "failed"},
           UNCHANGED <<job, n, needed, used, songs, items, cursor>>
    PROVE  RundownInv'
<1>1. RundownTypeOK' BY DEF RundownInv, RundownTypeOK
<1>2. Counted' /\ Reserved' BY DEF RundownInv, Counted, Reserved, ContentSongs
<1>3. Layout' BY DEF RundownInv, Layout, Joined, OnTime, InGap, End
<1>4. LogIsLegal'
    BY DEF RundownInv, LogIsLegal, ChosenOnce, ArtistsRest, NoUnplannedSilence,
           OnlyFillersAreCut, FixedStartsAreKept, End
<1> QED BY <1>1, <1>2, <1>3, <1>4 DEF RundownInv

\* A song that was not taken, by an artist that has rested, may follow the songs of the log.
LEMMA SongFollows ==
    ASSUME RundownInv, job' = job, NEW s \in Songs, NEW picked \in BOOLEAN,
           songs' = Append(songs, [song |-> s, picked |-> picked]), Rested(s),
           picked => s \notin used,
           ~picked => job.kind = "fill" /\ s \in ContentSongs(job),
           used \subseteq used', s \in used'
    PROVE  songs' \in Seq([song : Songs, picked : BOOLEAN]) /\ Reserved' /\ ChosenOnce' /\ ArtistsRest'
<1> DEFINE new == [song |-> s, picked |-> picked]
<1>1. songs \in Seq([song : Songs, picked : BOOLEAN]) /\ new \in [song : Songs, picked : BOOLEAN]
    BY DEF RundownInv, RundownTypeOK
<1> HIDE DEF new
<1>2. /\ songs' \in Seq([song : Songs, picked : BOOLEAN])
      /\ DOMAIN songs' = 1..(Len(songs) + 1) /\ DOMAIN songs = 1..Len(songs) /\ Len(songs) \in Nat
      /\ \A i \in 1..Len(songs) : songs'[i] = songs[i]
      /\ songs'[Len(songs) + 1] = new
  <2>1. songs' = Append(songs, new) BY DEF new
  <2> QED BY <1>1, <2>1, Appended
<1>3. new.song = s /\ new.picked = picked BY DEF new
<1>4. job.rest \in Nat BY JobTypes DEF RundownInv, Counted
<1>5. Reserved'
    BY <1>2, <1>3 DEF RundownInv, Reserved, ContentSongs
<1>6. ChosenOnce'
  <2>1. \A i \in DOMAIN songs : songs[i].song \in used BY DEF RundownInv, Reserved
  <2>2. ~picked => \A i \in DOMAIN songs : songs[i].picked => songs[i].song # s
      BY DEF RundownInv, Reserved
  <2>3. \A i, j \in DOMAIN songs : i # j /\ songs[i].picked => songs[i].song # songs[j].song
      BY DEF RundownInv, LogIsLegal, ChosenOnce
  <2>4. SUFFICES ASSUME NEW i \in 1..(Len(songs) + 1), NEW j \in 1..(Len(songs) + 1),
                        i # j, songs'[i].picked
                 PROVE  songs'[i].song # songs'[j].song
      BY <1>2 DEF ChosenOnce
  <2>5. CASE i \in 1..Len(songs) /\ j \in 1..Len(songs) BY <2>5, <2>4, <2>3, <1>2
  <2>6. CASE i = Len(songs) + 1 BY <2>6, <2>4, <2>1, <1>2, <1>3
  <2>7. CASE i \in 1..Len(songs) /\ j = Len(songs) + 1 BY <2>7, <2>4, <2>1, <2>2, <1>2, <1>3
  <2> QED BY <2>5, <2>6, <2>7, <1>2
<1>7. ArtistsRest'
  <2>1. \A i \in 1..Len(songs) : Len(songs) - i < job.rest => Artist[songs[i].song] # Artist[s]
      BY <1>2 DEF Rested
  <2>2. \A i, j \in DOMAIN songs :
          i < j /\ j - i <= job.rest => Artist[songs[i].song] # Artist[songs[j].song]
      BY DEF RundownInv, LogIsLegal, ArtistsRest
  <2>3. SUFFICES ASSUME NEW i \in 1..(Len(songs) + 1), NEW j \in 1..(Len(songs) + 1),
                        i < j, j - i <= job.rest
                 PROVE  Artist[songs'[i].song] # Artist[songs'[j].song]
      BY <1>2 DEF ArtistsRest
  <2>4. CASE j \in 1..Len(songs) BY <2>4, <2>3, <2>2, <1>2, SMTT(30)
  <2>5. CASE j = Len(songs) + 1
    <3>1. i \in 1..Len(songs) /\ Len(songs) - i < job.rest BY <2>5, <2>3, <1>2, <1>4
    <3> QED BY <3>1, <2>5, <2>1, <1>2, <1>3
  <2> QED BY <2>4, <2>5, <1>2
<1> QED BY <1>2, <1>5, <1>6, <1>7

\* A log without a new song has the same songs.
LEMMA SameSongs ==
    ASSUME RundownInv, job' = job, songs' = songs, used' = used
    PROVE  songs' \in Seq([song : Songs, picked : BOOLEAN]) /\ Reserved' /\ ChosenOnce' /\ ArtistsRest'
BY DEF RundownInv, RundownTypeOK, Reserved, ContentSongs, LogIsLegal, ChosenOnce, ArtistsRest

\* An event placed at the cursor joins the one before it.
LEMMA ItemFollows ==
    ASSUME RundownInv, job.kind = "fill", NEW item \in Item, items' = Append(items, item),
           item.fixed # Unset => item.at = item.fixed,
           items # <<>> => item.at = cursor
    PROVE  NoUnplannedSilence' /\ OnlyFillersAreCut' /\ FixedStartsAreKept'
<1>1. items \in Seq(Item) BY DEF RundownInv, RundownTypeOK
<1>2. /\ DOMAIN items' = 1..(Len(items) + 1) /\ Len(items') = Len(items) + 1
      /\ DOMAIN items = 1..Len(items) /\ Len(items) \in Nat
      /\ \A i \in 1..Len(items) : items'[i] = items[i]
      /\ items'[Len(items) + 1] = item
    BY <1>1, Appended
<1>3. Joined /\ NoUnplannedSilence /\ OnlyFillersAreCut /\ FixedStartsAreKept
    BY DEF RundownInv, Layout, LogIsLegal
<1>4. Len(items) > 0 => items # <<>> /\ Len(items) \in 1..Len(items)
    BY <1>1, <1>2
<1>5. NoUnplannedSilence'
  <2> SUFFICES ASSUME NEW k \in 2..(Len(items) + 1)
               PROVE  items'[k - 1].kind = "stop" \/ items'[k].at <= End(items'[k - 1])
      BY <1>2 DEF NoUnplannedSilence, End
  <2>1. CASE k \in 2..Len(items)
    <3>1. k - 1 \in 1..Len(items) /\ k \in 1..Len(items) BY <2>1, <1>2
    <3> QED BY <3>1, <2>1, <1>2, <1>3 DEF NoUnplannedSilence
  <2>2. CASE k = Len(items) + 1
    <3>1. k - 1 = Len(items) /\ Len(items) \in 1..Len(items) /\ items # <<>> BY <2>2, <1>2, <1>4
    <3> QED BY <3>1, <2>2, <1>2, <1>3 DEF Joined
  <2> QED BY <2>1, <2>2, <1>2
<1>6. OnlyFillersAreCut'
  <2> SUFFICES ASSUME NEW k \in 2..(Len(items) + 1)
               PROVE  items'[k - 1].filler \/ items'[k].at >= End(items'[k - 1])
      BY <1>2 DEF OnlyFillersAreCut, End
  <2>1. CASE k \in 2..Len(items)
    <3>1. k - 1 \in 1..Len(items) /\ k \in 1..Len(items) BY <2>1, <1>2
    <3> QED BY <3>1, <2>1, <1>2, <1>3 DEF OnlyFillersAreCut
  <2>2. CASE k = Len(items) + 1
    <3>1. k - 1 = Len(items) /\ Len(items) \in 1..Len(items) /\ items # <<>> BY <2>2, <1>2, <1>4
    <3> QED BY <3>1, <2>2, <1>2, <1>3 DEF Joined
  <2> QED BY <2>1, <2>2, <1>2
<1>7. FixedStartsAreKept'
  <2> SUFFICES ASSUME NEW k \in 1..(Len(items) + 1), items'[k].fixed # Unset
               PROVE  items'[k].at = items'[k].fixed
      BY <1>2 DEF FixedStartsAreKept
  <2>1. CASE k \in 1..Len(items) BY <2>1, <1>2, <1>3 DEF FixedStartsAreKept
  <2>2. CASE k = Len(items) + 1 BY <2>2, <1>2
  <2> QED BY <2>1, <2>2, <1>2
<1> QED BY <1>5, <1>6, <1>7

\* Placing an event of the content keeps the log legal.
LEMMA ContentKeeps == ASSUME RundownInv, PlaceContent PROVE RundownInv'
<1> DEFINE cue == job.content[n]
           at  == IF cue.fixed # Unset THEN cue.fixed ELSE cursor
           end == at + (IF cue.kind = "stop" THEN 0 ELSE cue.ms)
           next == job.content[n + 1]
           gap == n < Len(job.content) /\ GapFollows(next, end)
           late == n < Len(job.content) /\ next.fixed # Unset /\ end > next.fixed
           item == [kind |-> cue.kind, filler |-> FALSE, fixed |-> cue.fixed, at |-> at, ms |-> end - at]
<1>1. CASE Impossible(cue) \/ late
    BY <1>1, Ended DEF PlaceContent, Rejected
<1>2. CASE ~Impossible(cue) /\ ~late
  <2>1. /\ job.kind = "fill" /\ stage = "placing" /\ n <= Len(job.content)
        /\ items' = Append(items, item)
        /\ songs' = IF cue.kind = "song"
                    THEN Append(songs, [song |-> cue.song, picked |-> FALSE]) ELSE songs
        /\ n' = n + 1
        /\ stage' = IF gap /\ cue.kind # "stop" THEN "filling" ELSE "placing"
        /\ cursor' = IF gap /\ cue.kind = "stop" THEN next.fixed ELSE end
        /\ job' = job /\ needed' = needed /\ used' = used
      BY <1>2 DEF PlaceContent, Placed
  <2>2. /\ job \in Jobs /\ job \in Job /\ n \in Nat \ {0} /\ cursor \in Nat /\ needed \in Nat
        /\ used \subseteq Songs /\ items \in Seq(Item)
      BY DEF RundownInv, RundownTypeOK, Counted
  <2>3. Len(job.content) \in Nat /\ DOMAIN job.content = 1..Len(job.content)
      BY <2>2, JobTypes
  <2>4. cue \in Cue /\ n \in DOMAIN job.content
      BY <2>1, <2>2, <2>3, JobTypes
  <2>5. cue.kind \in CueKinds /\ cue.ms \in Nat /\ cue.fixed \in Nat \cup {Unset}
      BY <2>4 DEF Cue, Starts
  <2>6. n < Len(job.content) => next.fixed \in Nat \cup {Unset} /\ n + 1 \in 1..Len(job.content)
    <3> SUFFICES ASSUME n < Len(job.content) PROVE next.fixed \in Nat \cup {Unset} /\ n + 1 \in 1..Len(job.content)
        OBVIOUS
    <3>1. n + 1 \in 1..Len(job.content) BY <2>2, <2>3
    <3>2. next \in Cue BY <3>1, <2>2, <2>3, JobTypes
    <3> QED BY <3>1, <3>2 DEF Cue, Starts
  <2>7. at \in Nat /\ end \in Nat /\ end >= at
      BY <2>2, <2>5
  <2>8. item \in Item
      BY <2>5, <2>7 DEF Item, Starts
  <2>9. /\ items' \in Seq(Item) /\ items' # <<>> /\ Len(items') = Len(items) + 1
        /\ items'[Len(items')] = item /\ Len(items) \in Nat
    <3> HIDE DEF item
    <3> QED BY <2>1, <2>2, <2>8, Appended
  <2>10. cursor' \in Nat /\ cursor' >= end
    <3>1. gap => next.fixed \in Nat /\ end < next.fixed BY <2>6 DEF GapFollows
    <3> QED BY <3>1, <2>1, <2>7
  <2>11. cue.kind = "song" => cue.song \in Songs /\ cue.song \in ContentSongs(job) /\ Rested(cue.song)
      BY <1>2, <2>2, <2>4, JobTypes DEF Impossible
  <2>12. songs' \in Seq([song : Songs, picked : BOOLEAN]) /\ Reserved' /\ ChosenOnce' /\ ArtistsRest'
    <3>1. CASE cue.kind = "song"
      <4>1. cue.song \in used BY <3>1, <2>1, <2>11 DEF RundownInv, Reserved
      <4> HIDE DEF cue
      <4> QED BY <3>1, <4>1, <2>1, <2>11, SongFollows
    <3>2. CASE cue.kind # "song" BY <3>2, <2>1, SameSongs
    <3> QED BY <3>1, <3>2
  <2>13. NoUnplannedSilence' /\ OnlyFillersAreCut' /\ FixedStartsAreKept'
    <3>1. item.fixed # Unset => item.at = item.fixed OBVIOUS
    <3>2. items # <<>> => item.at = cursor
        BY <2>1 DEF RundownInv, Layout, OnTime
    <3> HIDE DEF item
    <3> QED BY <2>1, <2>8, <3>1, <3>2, ItemFollows
  <2>14. stage' \in {"placing", "filling"} BY <2>1
  <2>15. RundownTypeOK'
      BY <2>1, <2>2, <2>9, <2>10, <2>12, <2>14 DEF RundownTypeOK
  <2>16. Counted' BY <2>1, <2>2 DEF Counted
  <2>17. Layout'
    <3>1. Joined'
      <4>1. item.at + item.ms = end BY <2>7
      <4>2. item.kind = "stop" \/ cursor' <= end BY <2>1, <2>7
      <4> HIDE DEF item
      <4> QED BY <4>1, <4>2, <2>9, <2>10, <2>7 DEF Joined, End
    <3>2. OnTime'
      <4> SUFFICES ASSUME stage' = "placing", n + 1 <= Len(job.content), next.fixed # Unset
                   PROVE  cursor' = next.fixed
          BY <2>1 DEF OnTime
      <4>1. next.fixed \in Nat /\ end <= next.fixed BY <1>2, <2>2, <2>3, <2>6, <2>7
      <4>2. CASE end = next.fixed BY <4>1, <4>2, <2>1 DEF GapFollows
      <4>3. CASE end < next.fixed
        <5>1. gap BY <4>3, <2>2, <2>3 DEF GapFollows
        <5> QED BY <5>1, <2>1
      <4> QED BY <4>1, <4>2, <4>3, <2>7
    <3>3. InGap'
      <4> SUFFICES ASSUME stage' = "filling"
                   PROVE  n + 1 \in 2..Len(job.content) /\ next.fixed # Unset /\ cursor' < next.fixed
          BY <2>1, <2>9 DEF InGap
      <4>1. gap /\ cursor' = end BY <2>1
      <4> QED BY <4>1, <2>2, <2>3, <2>6 DEF GapFollows
    <3> QED BY <3>1, <3>2, <3>3 DEF Layout
  <2> QED BY <2>12, <2>13, <2>15, <2>16, <2>17 DEF RundownInv, LogIsLegal
<1> QED BY <1>1, <1>2

\* Placing a filler keeps the log legal and closes the gap exactly.
LEMMA FillerKeeps == ASSUME RundownInv, PlaceFiller PROVE RundownInv'
<1> DEFINE boundary == job.content[n].fixed
           eligible == Eligible({s \in job.tagged : Length[s] > 0})
<1>1. CASE Rejected BY <1>1, Ended DEF Rejected
<1>2. CASE ~Rejected
  <2>1. PICK s \in eligible :
          /\ items' = Placed("song", TRUE, Unset, cursor, Length[s])
          /\ songs' = Append(songs, [song |-> s, picked |-> TRUE])
          /\ used' = used \cup {s}
          /\ cursor' = IF cursor + Length[s] < boundary THEN cursor + Length[s] ELSE boundary
          /\ stage' = IF Len(items) + 1 >= MaxEvents THEN "failed"
                      ELSE IF cursor + Length[s] < boundary THEN "filling" ELSE "placing"
          /\ UNCHANGED <<job, n, needed>>
      BY <1>2 DEF PlaceFiller
  <2>2. /\ job \in Jobs /\ job \in Job /\ n \in Nat \ {0} /\ cursor \in Nat /\ needed \in Nat
        /\ used \subseteq Songs /\ items \in Seq(Item)
        /\ job.kind = "fill" /\ stage = "filling"
      BY DEF RundownInv, RundownTypeOK, Counted, PlaceFiller
  <2>3. items # <<>> /\ n \in 2..Len(job.content) /\ boundary # Unset /\ cursor < boundary
      BY <2>2 DEF RundownInv, Layout, InGap
  <2>4. boundary \in Nat
    <3>1. Len(job.content) \in Nat /\ DOMAIN job.content = 1..Len(job.content) BY <2>2, JobTypes
    <3>2. job.content[n] \in Cue BY <3>1, <2>2, <2>3, JobTypes
    <3> QED BY <3>2, <2>3 DEF Cue, Starts
  <2>5. s \in Songs /\ s \notin used /\ Rested(s) /\ Length[s] \in Nat
    <3>1. s \in job.tagged /\ s \notin used /\ Rested(s) BY DEF Eligible
    <3>2. job.tagged \subseteq Songs BY <2>2 DEF Job
    <3> QED BY <3>1, <3>2, RundownAssumption
  <2> DEFINE item == [kind |-> "song", filler |-> TRUE, fixed |-> Unset, at |-> cursor, ms |-> Length[s]]
  <2>6. item \in Item BY <2>2, <2>5 DEF Item, CueKinds, Starts
  <2>7. items' = Append(items, item) BY <2>1 DEF Placed
  <2>8. /\ items' \in Seq(Item) /\ items' # <<>> /\ Len(items') = Len(items) + 1
        /\ items'[Len(items')] = item
    <3> HIDE DEF item
    <3> QED BY <2>2, <2>6, <2>7, Appended
  <2>9. songs' \in Seq([song : Songs, picked : BOOLEAN]) /\ Reserved' /\ ChosenOnce' /\ ArtistsRest'
    <3>1. used \subseteq used' /\ s \in used' /\ job' = job BY <2>1
    <3> HIDE DEF eligible
    <3> QED BY <3>1, <2>1, <2>5, SongFollows
  <2>10. NoUnplannedSilence' /\ OnlyFillersAreCut' /\ FixedStartsAreKept'
    <3>1. item.fixed = Unset /\ item.at = cursor OBVIOUS
    <3> HIDE DEF item
    <3> QED BY <3>1, <2>2, <2>6, <2>7, ItemFollows
  <2>11. cursor' \in Nat /\ cursor' <= cursor + Length[s] BY <2>1, <2>2, <2>4, <2>5
  <2>12. stage' \in {"placing", "filling", "failed"} BY <2>1
  <2>13. RundownTypeOK'
      BY <2>1, <2>2, <2>5, <2>8, <2>9, <2>11, <2>12 DEF RundownTypeOK
  <2>14. Counted' BY <2>1, <2>2 DEF Counted
  <2>15. Joined'
    <3>1. item.filler /\ item.at + item.ms = cursor + Length[s] OBVIOUS
    <3> HIDE DEF item
    <3> QED BY <3>1, <2>8, <2>11 DEF Joined, End
  <2>16. OnTime'
    <3>1. stage' = "placing" => cursor' = boundary BY <2>1
    <3> QED BY <3>1, <2>1 DEF OnTime
  <2>17. InGap'
    <3>1. stage' = "filling" => cursor' < boundary BY <2>1, <2>2, <2>4, <2>5
    <3> QED BY <3>1, <2>1, <2>3, <2>8 DEF InGap
  <2> QED BY <2>9, <2>10, <2>13, <2>14, <2>15, <2>16, <2>17 DEF RundownInv, LogIsLegal, Layout
<1> QED BY <1>1, <1>2

\* Placing a song of a slot keeps the log legal.
LEMMA SlotKeeps == ASSUME RundownInv, PlaceSlotSong PROVE RundownInv'
<1> DEFINE slot == job.slots[n]
<1>1. CASE Rejected BY <1>1, Ended DEF Rejected
<1>2. CASE ~Rejected
  <2>1. PICK s \in Eligible(slot.pool) :
          /\ items' = Placed("song", FALSE, IF needed = slot.count THEN slot.fixed ELSE Unset,
                             cursor, Length[s])
          /\ songs' = Append(songs, [song |-> s, picked |-> TRUE])
          /\ used' = used \cup {s}
          /\ n' = IF needed = 1 THEN n + 1 ELSE n
          /\ needed' = IF needed > 1 THEN needed - 1
                     ELSE IF n < Len(job.slots) THEN job.slots[n + 1].count ELSE 0
          /\ UNCHANGED <<job, stage, cursor>>
      BY <1>2 DEF PlaceSlotSong
  <2>2. /\ job \in Jobs /\ job \in Job /\ n \in Nat \ {0} /\ cursor \in Nat /\ needed \in Nat
        /\ used \subseteq Songs /\ items \in Seq(Item)
        /\ job.kind = "generate" /\ stage = "placing" /\ n <= Len(job.slots)
      BY DEF RundownInv, RundownTypeOK, Counted, PlaceSlotSong
  <2>3. Len(job.slots) \in Nat /\ DOMAIN job.slots = 1..Len(job.slots) BY <2>2, JobTypes
  <2>4. slot \in Slot BY <2>2, <2>3, JobTypes
  <2>5. slot.fixed \in Starts /\ slot.pool \subseteq Songs BY <2>4 DEF Slot
  <2>6. s \in Songs /\ s \notin used /\ Rested(s) /\ Length[s] \in Nat
      BY <2>5, RundownAssumption DEF Eligible
  <2>7. needed' \in Nat
    <3>1. n < Len(job.slots) => job.slots[n + 1].count \in Nat
      <4> SUFFICES ASSUME n < Len(job.slots) PROVE job.slots[n + 1].count \in Nat
          OBVIOUS
      <4>1. job.slots[n + 1] \in Slot BY <2>2, <2>3, JobTypes
      <4> QED BY <4>1 DEF Slot
    <3> QED BY <3>1, <2>1, <2>2
  <2> DEFINE item == [kind |-> "song", filler |-> FALSE,
                      fixed |-> IF needed = slot.count THEN slot.fixed ELSE Unset,
                      at |-> cursor, ms |-> Length[s]]
  <2>8. items' \in Seq(Item)
    <3>1. item \in Item BY <2>2, <2>5, <2>6 DEF Item, CueKinds, Starts
    <3>2. items' = Append(items, item) BY <2>1 DEF Placed
    <3> HIDE DEF item
    <3> QED BY <2>2, <3>1, <3>2, Appended
  <2>9. songs' \in Seq([song : Songs, picked : BOOLEAN]) /\ Reserved' /\ ChosenOnce' /\ ArtistsRest'
    <3>1. used \subseteq used' /\ s \in used' /\ job' = job BY <2>1
    <3> QED BY <3>1, <2>1, <2>6, SongFollows
  <2>10. Counted' BY <2>1, <2>2 DEF Counted
  <2>11. RundownTypeOK'
      BY <2>1, <2>2, <2>6, <2>7, <2>8, <2>9, <2>10 DEF RundownTypeOK, Counted
  <2>12. Layout' BY <2>1, <2>2 DEF Layout
  <2>13. job'.kind # "fill" BY <2>1, <2>2
  <2> QED BY <2>9, <2>10, <2>11, <2>12, <2>13 DEF RundownInv, LogIsLegal
<1> QED BY <1>1, <1>2

\* Every step keeps the invariant.
LEMMA NextInv == RundownInv /\ [RundownNext]_rundownVars => RundownInv'
<1> SUFFICES ASSUME RundownInv, [RundownNext]_rundownVars PROVE RundownInv'
    OBVIOUS
<1>1. CASE PlaceContent BY <1>1, ContentKeeps
<1>2. CASE PlaceFiller BY <1>2, FillerKeeps
<1>3. CASE PlaceSlotSong BY <1>3, SlotKeeps
<1>4. CASE Finish BY <1>4, Ended DEF Finish, Rejected
<1>5. CASE UNCHANGED rundownVars
  <2>1. RundownTypeOK' BY <1>5 DEF RundownInv, RundownTypeOK, rundownVars
  <2>2. Counted' /\ Reserved' BY <1>5 DEF RundownInv, Counted, Reserved, ContentSongs, rundownVars
  <2>3. Layout' BY <1>5 DEF RundownInv, Layout, Joined, OnTime, InGap, End, rundownVars
  <2>4. LogIsLegal'
      BY <1>5 DEF RundownInv, LogIsLegal, ChosenOnce, ArtistsRest, NoUnplannedSilence,
                  OnlyFillersAreCut, FixedStartsAreKept, End, rundownVars
  <2> QED BY <2>1, <2>2, <2>3, <2>4 DEF RundownInv
<1> QED BY <1>1, <1>2, <1>3, <1>4, <1>5 DEF RundownNext

--------------------------------------------------------------------------------
\* A log is built from well-typed parts for every request (generateRadioLog,
\* fillRadioRundown).
THEOREM RundownTypeCorrect == RundownSpec => []RundownTypeOK
<1>1. RundownInv => RundownTypeOK BY DEF RundownInv
<1> QED BY <1>1, InitInv, NextInv, PTL DEF RundownSpec

\* For every request the log repeats no song it chose and rests artists, and a
\* filled one covers every gap, cuts only fillers and keeps fixed starts
\* (generateRadioLog, fillRadioRundown).
THEOREM LogsAreLegal == RundownSpec => []LogIsLegal
<1>1. RundownInv => LogIsLegal BY DEF RundownInv
<1> QED BY <1>1, InitInv, NextInv, PTL DEF RundownSpec
================================================================================
