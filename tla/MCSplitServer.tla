---------------------------- MODULE MCSplitServer ----------------------------
(***************************************************************************)
(* Three connections: two with the same token (a client that reconnects),  *)
(* one with the static bearer.                                             *)
(***************************************************************************)
EXTENDS SplitServer, TLC

Tokens == ("c1" :> "A") @@ ("c2" :> "A") @@ ("c3" :> Bearer)
Contexts == ("c1" :> 1) @@ ("c2" :> 1) @@ ("c3" :> 2)

\* Three with the same token.
OneToken == [c \in Conns |-> "A"]
OnePosition == [c \in Conns |-> 1]
==============================================================================
