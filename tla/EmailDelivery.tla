---------------------------- MODULE EmailDelivery ----------------------------
(***************************************************************************)
(* What the outbox promises a notification that asks for an email, without *)
(* workers, claims, leases or clocks: an email may go out only while the   *)
(* request is open, at most MaxSends of them; the request is closed as     *)
(* done only after an email went out; given up is final. A request that is *)
(* done may be reopened by a late failure report: delivery is at least     *)
(* once, never exactly once.                                               *)
(***************************************************************************)
EXTENDS Naturals

CONSTANTS Requests, MaxSends

VARIABLES outcome, sends

vars == <<outcome, sends>>

Init ==
  /\ outcome = [r \in Requests |-> "none"]
  /\ sends = [r \in Requests |-> 0]

\* The outcomes a request may move to from the one it has.
Follows ==
  [none |-> {"open"}, open |-> {"done", "dead"}, done |-> {"open", "dead"}, dead |-> {}]

Send(r) ==
  /\ outcome[r] = "open"
  /\ sends[r] < MaxSends
  /\ sends' = [sends EXCEPT ![r] = @ + 1]
  /\ UNCHANGED outcome

Move(r, o) ==
  /\ o \in Follows[outcome[r]]
  /\ o = "done" => sends[r] > 0
  /\ outcome' = [outcome EXCEPT ![r] = o]
  /\ UNCHANGED sends

Next == \E r \in Requests : Send(r) \/ \E o \in {"open", "done", "dead"} : Move(r, o)

Spec == Init /\ [][Next]_vars
=============================================================================
