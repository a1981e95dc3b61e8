---------------------------- MODULE SharedState -----------------------------
(***************************************************************************)
(* What the calls on one Dianome (sdk/src/index.ts) share: the runtimes of *)
(* its runs, and the store of its loads. The two have no variable in       *)
(* common: a run's own loads ask for the store like any other's.           *)
(***************************************************************************)
EXTENDS SharedRuns, SharedStore

DianomeSpec == SRSpec /\ STSpec

\* What is kept is what it says, and is lost only where calls met: both.
SharedStateIsKept == RuntimesAreShared /\ StoreIsTheLastWord
=============================================================================
