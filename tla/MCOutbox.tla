------------------------------ MODULE MCOutbox ------------------------------
(***************************************************************************)
(* Outbox on small instances: two workers, one or two events. The runs     *)
(* differ in the bounds on attempts and crashes.                           *)
(***************************************************************************)
EXTENDS Outbox

MCBatchSize == 2   \* every available event fits into one claim
MCOneByOne == 1    \* a claim leaves events for the other worker
=============================================================================
