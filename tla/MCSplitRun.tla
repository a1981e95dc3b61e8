----------------------------- MODULE MCSplitRun -----------------------------
(***************************************************************************)
(* SplitRun is checked as it is; the bounds are in the configurations.     *)
(***************************************************************************)
EXTENDS SplitRun
=============================================================================
