------------------------------ MODULE SongSequence ------------------------------
(***************************************************************************)
(* The playlist and its cursor (backend/src/radio/song-sequence.utils.ts)  *)
(* for a flat playlist: every item is a song leaf with an audio URL of its *)
(* own and without a declared duration, so that the cursor alone selects   *)
(* the song.  `mode` merges autoplay and shuffle into "auto": a shuffled   *)
(* order is persisted, so both walk the items in order.                    *)
(***************************************************************************)
EXTENDS Integers, Sequences

CONSTANTS Items,            \* playlist item IDs
          None,             \* JavaScript null
          Loop              \* sequence.loop

ASSUME PlaylistAssumption == None \notin Items /\ Loop \in BOOLEAN

Sequence == [mode : {"auto", "manual"}, items : Seq(Items), cursor : Items \cup {None}]

ItemsOf(seq) == {seq.items[i] : i \in 1..Len(seq.items)}
FirstItem(seq) == IF seq.items = <<>> THEN None ELSE seq.items[1]

\* normalizeProgramSongSequence: a cursor that names no item moves to the first.
NormalizeSequence(seq) ==
    IF seq.cursor = None \/ seq.cursor \in ItemsOf(seq) THEN seq
    ELSE [seq EXCEPT !.cursor = FirstItem(seq)]

\* resolveProgramSongLeaf: the item the cursor selects, None when it is null.
ResolveLeaf(seq) == NormalizeSequence(seq).cursor

\* The item after position i: the next one, the first when looping, or none.
SuccessorAt(seq, i) ==
    IF i < Len(seq.items) THEN seq.items[i + 1]
    ELSE IF Loop THEN FirstItem(seq) ELSE None

\* advanceProgramSongSequence: past the ended leaf when the playlist has it,
\* else past the cursor; a looped playlist recovers from a null cursor.
AdvanceSequence(seq, ended) ==
    LET from == IF ended \in ItemsOf(seq) THEN ended ELSE seq.cursor
        at   == {i \in 1..Len(seq.items) : seq.items[i] = from}
    IN  [seq EXCEPT !.cursor =
            IF at # {} THEN SuccessorAt(seq, CHOOSE i \in at : TRUE)
            ELSE IF Loop THEN FirstItem(seq) ELSE None]

\* findUniqueProgramSongLeafById / ...ByAudioUrl: playable only when present.
FindLeaf(seq, item) == IF item \in ItemsOf(seq) THEN item ELSE None
================================================================================
