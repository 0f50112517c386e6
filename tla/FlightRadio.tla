------------------------------ MODULE FlightRadio ------------------------------
(***************************************************************************)
(* The radio as FlightService sees it: an abstraction of                   *)
(* SongExecutionEngine and of stopProgramSong in ProgramService, reduced   *)
(* to who plays.  Every operator maps a radio state to the next one:       *)
(*                                                                         *)
(*   row     ProgramState.songSequence: automatic or manual, and its       *)
(*           cursor, counted instead of named                              *)
(*   mem     the engine's copy of it                                       *)
(*   aired   everything that went on the air (history), each entry the     *)
(*           runtime that asked for it (0: the rotation) and the cue or    *)
(*           cursor position                                               *)
(*   onAir   the entry the appliance plays, 0 when it is idle              *)
(*   active  the entry the engine believes to be playing                   *)
(*   ended   entries whose track.ended has not been delivered              *)
(***************************************************************************)
EXTENDS Naturals, Sequences

Sequencing == [auto : BOOLEAN, cursor : Nat]
Stopped == [auto |-> FALSE, cursor |-> 0]

Radio == [row : Sequencing, mem : Sequencing,
          aired : Seq([rt : Nat, pos : Nat]),
          onAir : Nat, active : Nat, ended : SUBSET Nat]

IdleRadio(auto) ==
    LET s == [auto |-> auto, cursor |-> 1]
    IN  [row |-> s, mem |-> s, aired |-> <<>>, onAir |-> 0, active |-> 0, ended |-> {}]

\* What stops playing is reported once, later.
Silenced(r) ==
    [r EXCEPT !.onAir = 0, !.ended = @ \cup ({r.onAir} \ {0})]

\* Mutant of Takes: the engine still believes in what it played before.
TakesUnnoticed(r, rt, pos) ==
    [Silenced(r) EXCEPT !.aired = Append(@, [rt |-> rt, pos |-> pos]),
                        !.onAir = Len(r.aired) + 1]

\* A song command: it replaces what plays.
Takes(r, rt, pos) ==
    LET n == Len(r.aired) + 1
    IN  [Silenced(r) EXCEPT !.aired = Append(@, [rt |-> rt, pos |-> pos]),
                            !.onAir = n, !.active = n]

\* maybeStartSequence, for a program that no clocked log owns.
RotationStarts(r) ==
    IF r.mem.auto /\ r.active = 0 THEN Takes(r, 0, r.mem.cursor) ELSE r

IsRotation(r, n) == n # 0 /\ r.aired[n].rt = 0

\* An authoritative end outside a clocked log: the cursor moves past a rotation
\* track and the successor is commanded.
Continues(r, n) ==
    RotationStarts([r EXCEPT !.active = 0,
                             !.mem.cursor = IF r.mem.auto /\ IsRotation(r, n) THEN @ + 1 ELSE @])

\* stopProgramSong without preserveRotation: the row, then the engine's copy.
RowStopped(r) == [r EXCEPT !.row = Stopped]
MemStopped(r) == [r EXCEPT !.mem = Stopped]

\* The engine restarts from the row; a track of the playlist is adopted, any
\* other is a foreign track it waits for.
Rebooted(r) ==
    [r EXCEPT !.mem = r.row, !.ended = {},
              !.active = IF IsRotation(r, r.onAir) THEN r.onAir ELSE 0]
================================================================================
