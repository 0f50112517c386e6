------------------------ MODULE MC_SongExecutionEngine ------------------------
(***************************************************************************)
(* Instances of SongExecutionEngine for TLC: a looped automatic playlist   *)
(* of two songs, up to two queue entries, and one budget per run.          *)
(***************************************************************************)
EXTENDS SongExecutionEngine

CONSTANTS A, B, e1, e2

Auto(items, cursor) == [mode |-> "auto", items |-> items, cursor |-> cursor]

MCInitialSequence == Auto(<<A, B>>, A)

\* What an operator may save: nothing, a playlist without B, another cursor.
NoEdits    == {}
DropsB     == {Auto(<<A>>, A)}
MovesToB   == {Auto(<<A, B>>, B)}

Allow(f) == [k \in Kinds |-> IF k \in DOMAIN f THEN f[k] ELSE 0]

\* Passing runs: one budget per situation
QuietBudgets      == {Allow([enqueue |-> 2, song |-> 3, remove |-> 1, reorder |-> 1])}
FailuresBudgets   ==
    {Allow([enqueue |-> 2, song |-> 2, remove |-> 1, reorder |-> 1, commandFail |-> 1,
            persistFail |-> 1, crash |-> 1]),
     Allow([song |-> 1, drop |-> 1, poll |-> 2, pollFail |-> 1])}
OperatorsBudgets  ==
    {Allow([enqueue |-> 1, song |-> 1, manual |-> 1, edit |-> 1]),
     Allow([enqueue |-> 1, song |-> 1, stop |-> 1, edit |-> 1, commandFail |-> 1]),
     Allow([enqueue |-> 1, song |-> 1, commandFail |-> 1, persistFail |-> 1, crash |-> 1]),
     Allow([enqueue |-> 1, song |-> 1, drop |-> 1, poll |-> 1, pollFail |-> 1]),
     Allow([enqueue |-> 1, song |-> 1, drop |-> 2])}
ReconnectsBudgets == {Allow([enqueue |-> 1, song |-> 2, drop |-> 1, remove |-> 1])}

\* Violation runs
DropBudgets       == {Allow([enqueue |-> 1, song |-> 1, drop |-> 1])}
CrashBudgets      == {Allow([enqueue |-> 1, song |-> 1, crash |-> 1])}
FreezeBudgets     == {Allow([song |-> 1, drop |-> 1, poll |-> 1, pollFail |-> 1])}
StopBudgets       == {Allow([enqueue |-> 1, song |-> 1, stop |-> 1])}
================================================================================
