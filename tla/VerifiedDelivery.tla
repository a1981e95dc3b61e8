-------------------------- MODULE VerifiedDelivery --------------------------
(***************************************************************************)
(* What a chunk download promises its consumer, with nothing said about    *)
(* workers, retries or caches: every chunk is handed over at most once and *)
(* only with verified bytes; the delivery closes on the first failure or   *)
(* on the caller's abort, and hands nothing over after that; it ends       *)
(* "done" only when it never closed and every chunk has been handed over.  *)
(*                                                                         *)
(* FetchLoop implements this specification (packages/sdk/src/fetcher.ts);  *)
(* StreamLoad (packages/sdk/src/index.ts) is written against it.           *)
(***************************************************************************)
EXTENDS Sequences

CONSTANT Chunks      \* the chunks of one load plan, each listed once

VARIABLES
  handed,            \* handed[c]: the buffers given to the consumer for chunk c, in order
  closed,            \* TRUE once the delivery was aborted or has failed
  outcome            \* how the promise settled, "running" while it has not

deliveryVars == <<handed, closed, outcome>>

Outcomes == {"running", "done", "failed", "aborted"}

DeliveryInit ==
  /\ handed = [c \in Chunks |-> <<>>]
  /\ closed \in BOOLEAN          \* the caller may abort before the first chunk
  /\ outcome = "running"

\* One verified chunk reaches the consumer.
Deliver(c) ==
  /\ outcome = "running"
  /\ ~closed
  /\ handed[c] = <<>>
  /\ handed' = [handed EXCEPT ![c] = <<"good">>]
  /\ UNCHANGED <<closed, outcome>>

\* A chunk failed for good, or the caller aborted.
Close ==
  /\ outcome = "running"
  /\ ~closed
  /\ closed' = TRUE
  /\ UNCHANGED <<handed, outcome>>

\* The promise settles.
Settle ==
  /\ outcome = "running"
  /\ \/ closed /\ outcome' \in {"failed", "aborted"}
     \/ /\ ~closed
        /\ \A c \in Chunks : handed[c] = <<"good">>
        /\ outcome' = "done"
  /\ UNCHANGED <<handed, closed>>

DeliveryNext ==
  \/ \E c \in Chunks : Deliver(c)
  \/ Close
  \/ Settle

DeliverySpec == DeliveryInit /\ [][DeliveryNext]_deliveryVars
=============================================================================
