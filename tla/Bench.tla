------------------------------- MODULE Bench --------------------------------
(***************************************************************************)
(* The frame the pure algorithms run in: a state holds one task and, once  *)
(* the code ran on it, its result.                                         *)
(***************************************************************************)
VARIABLES
  task,              \* [kind, ...]: what the code is given
  result             \* what it returned, or <<>> before it ran

\* The code run on a task of one kind.
Run(kind, value) ==
  /\ task.kind = kind /\ result = <<>>
  /\ result' = value
  /\ UNCHANGED task

Ran(kind) == task.kind = kind /\ result # <<>>
=============================================================================
