----------------------------- MODULE PlaylistClock -----------------------------
(***************************************************************************)
(* The whole playlist of a radio program and its cursor                    *)
(* (backend/src/radio/song-sequence.utils.ts): nested sequences, items     *)
(* with and without a declared duration, and the selection by the time     *)
(* elapsed since the cursor was set.  SongSequence is the flat case        *)
(* without durations that the execution engine is checked and proved with. *)
(*                                                                         *)
(* A sequence is [mode, items, active, loop, startedAt].  An item is a     *)
(* leaf [id, ms, fav], ms = 0 when no duration is declared, or a nested    *)
(* sequence [id, seq].  Identifiers are unique and every leaf is playable. *)
(* The depth limit of eight is never reached.                              *)
(***************************************************************************)
EXTENDS Integers, Sequences, FiniteSets

CONSTANT Null                      \* JavaScript null

IsNested(item) == "seq" \in DOMAIN item

\* The position of an item, 0 when the sequence does not have it.
IndexOf(seq, id) ==
    LET at == {i \in DOMAIN seq.items : seq.items[i].id = id}
    IN  IF at = {} THEN 0 ELSE CHOOSE i \in at : \A j \in at : i <= j

\* getSongItemPlaybackDurationMs: 0 is an unknown duration.
Duration(item) == IF IsNested(item) THEN 0 ELSE item.ms

\* getBaseIndex of a cursor that is not null: a stale one counts as the first.
BaseIndex(seq) == LET i == IndexOf(seq, seq.active) IN IF i = 0 THEN 1 ELSE i

\* The positions the clock walks over, from the cursor on; around a loop.
Walk(seq) ==
    LET n == Len(seq.items)
        b == BaseIndex(seq)
    IN  [k \in 1..(IF seq.loop THEN n ELSE n - b + 1) |-> ((b + k - 2) % n) + 1]

\* When the k-th position of a walk ends, counted from startedAt.
EndOf(seq, walk, k) ==
    LET ends[j \in 0..k] == IF j = 0 THEN 0 ELSE ends[j - 1] + Duration(seq.items[walk[j]])
    IN  ends[k]

\* The time since startedAt; a loop of known durations repeats.
Elapsed(seq, now) ==
    LET since == IF now > seq.startedAt THEN now - seq.startedAt ELSE 0
    IN  IF seq.loop /\ \A i \in DOMAIN seq.items : Duration(seq.items[i]) > 0
        THEN since % EndOf(seq, Walk(seq), Len(seq.items)) ELSE since

\* The first position of a walk that has not passed, one of unknown duration at
\* the latest.
Reached(seq, walk, elapsed) ==
    LET stops == {k \in DOMAIN walk : \/ Duration(seq.items[walk[k]]) = 0
                                      \/ elapsed < EndOf(seq, walk, k)
                                      \/ k = Len(walk)}
    IN  walk[CHOOSE k \in stops : \A j \in stops : k <= j]

\* getSelectedSongItem
Selected(seq, now) ==
    seq.items[IF seq.mode = "manual" THEN BaseIndex(seq)
              ELSE Reached(seq, Walk(seq), Elapsed(seq, now))]

\* resolveProgramSongLeaf: the leaf to play at a time, or Null.
RECURSIVE Resolve(_, _)
Resolve(seq, now) ==
    IF seq.items = <<>> \/ seq.active = Null THEN Null
    ELSE LET item == Selected(seq, now)
         IN  IF IsNested(item) THEN Resolve(item.seq, now) ELSE item

\* resetSequenceCursor: to the first item, inside it too; startedAt is left.
RECURSIVE ResetCursor(_)
ResetCursor(seq) ==
    IF seq.items = <<>> THEN [seq EXCEPT !.active = Null]
    ELSE [seq EXCEPT !.active = seq.items[1].id,
                     !.items[1] = IF IsNested(@) THEN [@ EXCEPT !.seq = ResetCursor(@)] ELSE @]

\* The cursor set on position i at a time; a sequence there starts over.
CursorAt(seq, i, now) ==
    [seq EXCEPT !.active = seq.items[i].id, !.startedAt = now,
                !.items[i] = IF IsNested(@) THEN [@ EXCEPT !.seq = ResetCursor(@)] ELSE @]

\* The end of advanceSequenceCursor: past position i, around a loop, or over.
StepPast(seq, i, now) ==
    IF i < Len(seq.items) THEN [result |-> "advanced", seq |-> CursorAt(seq, i + 1, now)]
    ELSE IF seq.loop
         THEN [result |-> "advanced", seq |-> [ResetCursor(seq) EXCEPT !.startedAt = now]]
         ELSE [result |-> "exhausted", seq |-> [seq EXCEPT !.active = Null]]

\* advanceSequenceCursor: past the leaf wherever it is, looking from position i.
RECURSIVE AdvanceCursor(_, _, _, _)
AdvanceCursor(seq, leaf, i, now) ==
    IF i > Len(seq.items) THEN [result |-> "not-found", seq |-> seq]
    ELSE LET item   == seq.items[i]
             inside == AdvanceCursor(item.seq, leaf, 1, now)
         IN  IF ~IsNested(item)
             THEN IF item.id = leaf THEN StepPast(seq, i, now)
                  ELSE AdvanceCursor(seq, leaf, i + 1, now)
             ELSE LET moved == [seq EXCEPT !.items[i].seq = inside.seq]
                  IN  CASE inside.result = "advanced"  -> [result |-> "advanced", seq |-> moved]
                        [] inside.result = "exhausted" -> StepPast(moved, i, now)
                        [] OTHER                       -> AdvanceCursor(seq, leaf, i + 1, now)

\* advanceProgramSongSequence: past the ended leaf, or past the cursor when the
\* playlist no longer has it; a loop recovers from a stale or empty cursor.
Advance(seq, leaf, now) ==
    LET byLeaf  == AdvanceCursor(seq, leaf, 1, now)
        at      == IndexOf(seq, seq.active)
        inner   == Resolve(seq, now)
        byInner == IF at # 0 /\ IsNested(seq.items[at]) /\ inner # Null
                   THEN AdvanceCursor(seq, inner.id, 1, now)
                   ELSE [result |-> "not-found", seq |-> seq]
        lost    == [more |-> FALSE, seq |-> seq]
        outcome(r) == [more |-> r.result = "advanced", seq |-> r.seq]
    IN  CASE byLeaf.result # "not-found"  -> outcome(byLeaf)
          [] at = 0 /\ (~seq.loop \/ seq.items = <<>>) -> lost
          [] at = 0                       -> outcome(StepPast(seq, Len(seq.items), now))
          [] byInner.result # "not-found" -> outcome(byInner)
          [] OTHER                        -> outcome(StepPast(seq, at, now))

\* activateProgramSongLeaf: every cursor on the way to the leaf is set on it.
RECURSIVE Holds(_, _)
Holds(item, leaf) ==
    IF IsNested(item) THEN \E i \in DOMAIN item.seq.items : Holds(item.seq.items[i], leaf)
    ELSE item.id = leaf

RECURSIVE Activate(_, _, _)
Activate(seq, leaf, now) ==
    LET at == {i \in DOMAIN seq.items : Holds(seq.items[i], leaf)}
        i  == CHOOSE j \in at : \A k \in at : j <= k
    IN  IF at = {} THEN seq
        ELSE [seq EXCEPT !.active = seq.items[i].id, !.startedAt = now,
                         !.items[i] = IF IsNested(@)
                                      THEN [@ EXCEPT !.seq = Activate(@, leaf, now)] ELSE @]

\* collectProgramSongLeaves: every leaf, in playing order.
RECURSIVE Leaves(_)
Leaves(seq) ==
    LET from[i \in 1..(Len(seq.items) + 1)] ==
            IF i > Len(seq.items) THEN <<>>
            ELSE LET item == seq.items[i]
                 IN  (IF IsNested(item) THEN Leaves(item.seq) ELSE <<item>>) \o from[i + 1]
    IN  from[1]

LeafIds(seq) == {Leaves(seq)[i].id : i \in DOMAIN Leaves(seq)}
================================================================================
