---------------------------- MODULE MCStreamLoad ----------------------------
(***************************************************************************)
(* A plan with every shape the manifests have: two groups that share a     *)
(* chunk, a tied group that reuses the first group's chunk, and a group    *)
(* that needs none.                                                        *)
(***************************************************************************)
EXTENDS StreamLoad

TiedPlan == << <<"a", "b">>, <<"b", "c">>, <<"d">>, <<"a">>, <<>> >>
=============================================================================
