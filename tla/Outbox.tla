------------------------------- MODULE Outbox -------------------------------
(***************************************************************************)
(* The durable outbox of the server and the workers that drain it, with    *)
(* the notification-email handler they run (workers/outbox.py,             *)
(* workers/notifications.py, modules/outbox, modules/notifications).       *)
(*                                                                         *)
(* Every worker step is one database transaction or one call of the email  *)
(* provider: claiming a batch, locking the next event's row, sending,      *)
(* committing, and recording a failure are separate, so claims of several  *)
(* workers, expired leases and crashes interleave with them.               *)
(*                                                                         *)
(* Only differences of instants decide anything, so available_at and       *)
(* locked_until are kept as the time left until they are reached, 0 once   *)
(* they are, and a worker keeps how long ago its tick read the clock.      *)
(***************************************************************************)
EXTENDS Integers, FiniteSets

CONSTANTS
  Events,       \* rows of outbox_events, one per notification that asks for an email
  Workers,      \* worker processes
  Nobody,       \* locked_by IS NULL, and a row lock nobody holds
  NoEvent,      \* a worker that is not at any event
  MaxAttempts,  \* outbox_events.max_attempts
  LockTicks,    \* lock_seconds: the length of a lease
  MaxBackoff,   \* max_backoff_seconds
  BatchSize,    \* batch_size: LIMIT of the claim
  MaxCrashes    \* bound on worker crashes

ASSUME OutboxAssumption ==
  /\ IsFiniteSet(Workers)
  /\ Nobody \notin Workers
  /\ NoEvent \notin Events
  /\ MaxAttempts \in Nat \ {0}
  /\ LockTicks \in Nat \ {0}
  /\ MaxBackoff \in Nat \ {0}
  /\ BatchSize \in Nat \ {0}
  /\ MaxCrashes \in Nat

VARIABLES
  status,    \* outbox_events.status, "absent" before the row is inserted
  attempts,  \* outbox_events.attempts
  wait,      \* time left until available_at
  lockedBy,  \* outbox_events.locked_by
  lease,     \* time left until locked_until
  delivery,  \* notifications.email_delivery_status
  sent,      \* emails the provider accepted for the event's notification
  rowLock,   \* session holding the row's FOR UPDATE lock
  pc,        \* where each worker is in run_once
  batch,     \* claimed events the worker has not come to yet
  cur,       \* the event being handled
  lag,       \* time since the worker's tick read the clock
  crashes    \* crashes so far

rowVars == <<status, attempts, wait, lockedBy, lease, delivery>>
workerVars == <<pc, batch, cur, lag>>
vars == <<rowVars, sent, rowLock, workerVars, crashes>>

Horizon == IF LockTicks > MaxBackoff THEN LockTicks ELSE MaxBackoff
Least(a, b) == IF a < b THEN a ELSE b

\* retry_backoff: 1, 2, 4, ... capped at max_backoff_seconds.
RetryBackoff(n) == Least(2 ^ (IF n > 1 THEN n - 1 ELSE 0), MaxBackoff)

\* What is left at this instant of a delay counted from the tick's clock reading.
Remaining(delay, elapsed) == IF delay > elapsed THEN delay - elapsed ELSE 0

InHandler(w) == pc[w] \in {"handling", "sent"}

-----------------------------------------------------------------------------
Init ==
  /\ status = [e \in Events |-> "absent"]
  /\ attempts = [e \in Events |-> 0]
  /\ wait = [e \in Events |-> 0]
  /\ lockedBy = [e \in Events |-> Nobody]
  /\ lease = [e \in Events |-> 0]
  /\ delivery = [e \in Events |-> "absent"]
  /\ sent = [e \in Events |-> 0]
  /\ rowLock = [e \in Events |-> Nobody]
  /\ pc = [w \in Workers |-> "idle"]
  /\ batch = [w \in Workers |-> {}]
  /\ cur = [w \in Workers |-> NoEvent]
  /\ lag = [w \in Workers |-> 0]
  /\ crashes = 0

\* create_notification(request_email=True): the notification and its event are
\* inserted in one transaction; available_at defaults to now().
CreateNotification(e) ==
  /\ status[e] = "absent"
  /\ status' = [status EXCEPT ![e] = "pending"]
  /\ delivery' = [delivery EXCEPT ![e] = "pending"]
  /\ UNCHANGED <<attempts, wait, lockedBy, lease, sent, rowLock, workerVars, crashes>>

\* The rows the claim's WHERE clause accepts, less those SKIP LOCKED passes over.
Available ==
  {e \in Events :
     /\ status[e] \in {"pending", "processing"}
     /\ wait[e] = 0
     /\ attempts[e] < MaxAttempts
     /\ status[e] = "pending" \/ lease[e] = 0
     /\ rowLock[e] = Nobody}

\* Mutant of Claim: reclaiming an expired row does not count as an attempt.
ClaimCountsFirstOnly(w) ==
  /\ pc[w] = "idle"
  /\ \E e \in Available :
       /\ status' = [status EXCEPT ![e] = "processing"]
       /\ attempts' = [attempts EXCEPT ![e] = IF status[e] = "pending" THEN @ + 1 ELSE @]
       /\ lockedBy' = [lockedBy EXCEPT ![e] = w]
       /\ lease' = [lease EXCEPT ![e] = LockTicks]
       /\ batch' = [batch EXCEPT ![w] = {e}]
  /\ pc' = [pc EXCEPT ![w] = "batch"]
  /\ lag' = [lag EXCEPT ![w] = 0]
  /\ UNCHANGED <<wait, delivery, sent, rowLock, cur, crashes>>

\* claim_events: one transaction that marks up to BatchSize rows, whichever come
\* first in (available_at, id).
Claim(w) ==
  /\ pc[w] = "idle"
  /\ \E claimed \in SUBSET Available :
       /\ claimed # {}
       /\ \/ Cardinality(claimed) = BatchSize
          \/ claimed = Available /\ Cardinality(claimed) < BatchSize
       /\ status' = [e \in Events |-> IF e \in claimed THEN "processing" ELSE status[e]]
       /\ attempts' = [e \in Events |->
                         IF e \in claimed THEN attempts[e] + 1 ELSE attempts[e]]
       /\ lockedBy' = [e \in Events |-> IF e \in claimed THEN w ELSE lockedBy[e]]
       /\ lease' = [e \in Events |-> IF e \in claimed THEN LockTicks ELSE lease[e]]
       /\ batch' = [batch EXCEPT ![w] = claimed]
  /\ pc' = [pc EXCEPT ![w] = "batch"]
  /\ lag' = [lag EXCEPT ![w] = 0]
  /\ UNCHANGED <<wait, delivery, sent, rowLock, cur, crashes>>

\* What process_event does with an event it goes on to handle.
StartHandler(w, e) ==
  /\ pc[w] = "batch"
  /\ e \in batch[w]
  /\ rowLock' = [rowLock EXCEPT ![e] = w]
  /\ batch' = [batch EXCEPT ![w] = @ \ {e}]
  /\ cur' = [cur EXCEPT ![w] = e]
  /\ pc' = [pc EXCEPT ![w] = "handling"]
  /\ UNCHANGED <<rowVars, sent, lag, crashes>>

\* Mutants of BeginEvent: the row is read without FOR UPDATE; its status is not looked at.
BeginUnlocked(w, e) == status[e] = "processing" /\ StartHandler(w, e)
BeginAnyStatus(w, e) == rowLock[e] = Nobody /\ StartHandler(w, e)

\* process_event up to the handler, for an event still in processing: the worker
\* keeps the row locked. It never compares locked_by with itself.
BeginEvent(w, e) ==
  /\ rowLock[e] = Nobody
  /\ status[e] = "processing"
  /\ StartHandler(w, e)

\* process_event for an event that is no longer in processing: roll back, return.
SkipEvent(w, e) ==
  /\ pc[w] = "batch"
  /\ e \in batch[w]
  /\ rowLock[e] = Nobody
  /\ status[e] # "processing"
  /\ batch' = [batch EXCEPT ![w] = @ \ {e}]
  /\ UNCHANGED <<rowVars, sent, rowLock, pc, cur, lag, crashes>>

\* The batch is exhausted: run_once returns and poll_forever sleeps.
EndTick(w) ==
  /\ pc[w] = "batch"
  /\ batch[w] = {}
  /\ pc' = [pc EXCEPT ![w] = "idle"]
  /\ lag' = [lag EXCEPT ![w] = 0]
  /\ UNCHANGED <<rowVars, sent, rowLock, batch, cur, crashes>>

\* The handler's call of EmailAdapter.send, accepted by the provider.
SendEmail(w) ==
  /\ pc[w] = "handling"
  /\ sent' = [sent EXCEPT ![cur[w]] = @ + 1]
  /\ pc' = [pc EXCEPT ![w] = "sent"]
  /\ UNCHANGED <<rowVars, rowLock, batch, cur, lag, crashes>>

\* The handler raises before anything is sent, or the commit after the send
\* fails: the transaction is rolled back, which frees the row.
HandlerRaises(w) ==
  /\ pc[w] \in {"handling", "sent"}
  /\ rowLock' = [rowLock EXCEPT ![cur[w]] = Nobody]
  /\ pc' = [pc EXCEPT ![w] = "failing"]
  /\ UNCHANGED <<rowVars, sent, batch, cur, lag, crashes>>

\* The rest of process_event: the handler's mark_notification_email_sent and the
\* event's new status are committed together.
MarkProcessed(w) ==
  LET e == cur[w] IN
  /\ status' = [status EXCEPT ![e] = "processed"]
  /\ lockedBy' = [lockedBy EXCEPT ![e] = Nobody]
  /\ lease' = [lease EXCEPT ![e] = 0]
  /\ delivery' = [delivery EXCEPT ![e] = "sent"]
  /\ rowLock' = [rowLock EXCEPT ![e] = Nobody]
  /\ cur' = [cur EXCEPT ![w] = NoEvent]
  /\ pc' = [pc EXCEPT ![w] = "batch"]
  /\ UNCHANGED <<attempts, wait, sent, batch, lag, crashes>>

\* Mutant of CommitProcessed: an error of the handler is swallowed.
CommitUnsent(w) == InHandler(w) /\ MarkProcessed(w)

CommitProcessed(w) == pc[w] = "sent" /\ MarkProcessed(w)

\* record_failure: a transaction of its own, whatever the row's status is by now.
Reschedule(w, terminal) ==
  LET e == cur[w] IN
  /\ pc[w] = "failing"
  /\ rowLock[e] = Nobody
  /\ status' = [status EXCEPT ![e] = IF terminal THEN "failed" ELSE "pending"]
  /\ wait' = [wait EXCEPT ![e] =
                IF terminal THEN 0 ELSE Remaining(RetryBackoff(attempts[e]), lag[w])]
  /\ lockedBy' = [lockedBy EXCEPT ![e] = Nobody]
  /\ lease' = [lease EXCEPT ![e] = 0]
  /\ cur' = [cur EXCEPT ![w] = NoEvent]
  /\ pc' = [pc EXCEPT ![w] = "batch"]
  /\ UNCHANGED <<attempts, delivery, sent, rowLock, batch, lag, crashes>>

\* Mutant of RecordFailure: terminal one attempt late.
FailLate(w) == Reschedule(w, attempts[cur[w]] > MaxAttempts)
RecordFailure(w) == Reschedule(w, attempts[cur[w]] >= MaxAttempts)

\* The worker process dies, or an error of claim_events or record_failure ends
\* poll_forever; its open transaction is rolled back and a new process starts.
Crash(w) ==
  /\ pc[w] # "idle"
  /\ crashes < MaxCrashes
  /\ crashes' = crashes + 1
  /\ rowLock' = [e \in Events |-> IF rowLock[e] = w THEN Nobody ELSE rowLock[e]]
  /\ pc' = [pc EXCEPT ![w] = "idle"]
  /\ batch' = [batch EXCEPT ![w] = {}]
  /\ cur' = [cur EXCEPT ![w] = NoEvent]
  /\ lag' = [lag EXCEPT ![w] = 0]
  /\ UNCHANGED <<rowVars, sent>>

\* Time passes.
Tick ==
  /\ wait' = [e \in Events |-> Remaining(wait[e], 1)]
  /\ lease' = [e \in Events |-> Remaining(lease[e], 1)]
  /\ lag' = [w \in Workers |-> IF pc[w] = "idle" THEN 0 ELSE Least(lag[w] + 1, Horizon)]
  /\ UNCHANGED <<status, attempts, lockedBy, delivery, sent, rowLock, pc, batch, cur, crashes>>

WorkerStep(w) ==
  \/ Claim(w)
  \/ \E e \in Events : BeginEvent(w, e) \/ SkipEvent(w, e)
  \/ EndTick(w)
  \/ SendEmail(w)
  \/ HandlerRaises(w)
  \/ CommitProcessed(w)
  \/ RecordFailure(w)

Next ==
  \/ \E e \in Events : CreateNotification(e)
  \/ \E w \in Workers : WorkerStep(w) \/ Crash(w)
  \/ Tick

Spec == Init /\ [][Next]_vars

\* A running worker keeps taking steps (poll_forever never returns), and time
\* passes. Nothing is promised of the provider: every handler call may raise.
FairSpec == Spec /\ WF_vars(Tick) /\ \A w \in Workers : WF_vars(WorkerStep(w))

-----------------------------------------------------------------------------
Statuses == {"absent", "pending", "processing", "processed", "failed"}

\* The values every column and every worker variable may take.
TypeOK ==
  /\ status \in [Events -> Statuses]
  /\ attempts \in [Events -> 0 .. MaxAttempts]
  /\ wait \in [Events -> Nat]
  /\ lockedBy \in [Events -> Workers \cup {Nobody}]
  /\ lease \in [Events -> 0 .. LockTicks]
  /\ delivery \in [Events -> {"absent", "pending", "sent"}]
  /\ sent \in [Events -> Nat]
  /\ rowLock \in [Events -> Workers \cup {Nobody}]
  /\ pc \in [Workers -> {"idle", "batch", "handling", "sent", "failing"}]
  /\ batch \in [Workers -> SUBSET Events]
  /\ cur \in [Workers -> Events \cup {NoEvent}]
  /\ lag \in [Workers -> 0 .. Horizon]
  /\ crashes \in 0 .. MaxCrashes

\* Workers that may still send an email for the attempts they claimed.
Pending(e) == {w \in Workers : e \in batch[w] \/ (pc[w] = "handling" /\ cur[w] = e)}

\* However leases expire, handlers raise and workers crash, the provider is never
\* asked to deliver an email more often than the event has been claimed, hence at
\* most max_attempts times (claim_available increments attempts with every claim).
EmailsWithinAttempts == \A e \in Events : sent[e] <= attempts[e]

\* Two workers that both hold the event in their batches never run its handler at
\* the same time: the FOR UPDATE lock of get_locked_by_id is kept until the commit.
HandlerExclusive ==
  \A v, w \in Workers : v # w /\ InHandler(v) /\ InHandler(w) => cur[v] # cur[w]

\* The event's "processed" and the notification's "sent" are committed together
\* and only after the provider took the email, also when several workers and
\* several attempts were involved.
ProcessedIsDelivered ==
  \A e \in Events :
    /\ status[e] = "processed" => delivery[e] = "sent"
    /\ delivery[e] = "sent" => sent[e] > 0

\* Lease columns describe a claim in progress and nothing else: success, retry and
\* terminal failure all clear them, whichever worker gets there first.
LeaseIffProcessing ==
  \A e \in Events :
    /\ status[e] = "processing" <=> lockedBy[e] # Nobody
    /\ status[e] # "processing" => lease[e] = 0

\* An event is given up only when its attempts are spent, and then for good: a
\* worker that still holds the event in its batch cannot revive or repeat it.
FailedOnlyWhenSpent == \A e \in Events : status[e] = "failed" => attempts[e] = MaxAttempts
FailedIsFinal == [][\A e \in Events : status[e] = "failed" => status'[e] = "failed"]_vars

\* A processing row whose lease has run out and that no worker still works on can
\* be claimed again.
ExpiredLeaseIsReclaimable ==
  \A e \in Events :
    status[e] = "processing" /\ lease[e] = 0
      => \/ e \in Available
         \/ \E w \in Workers : cur[w] = e \/ e \in batch[w]

\* The inductive invariant behind the safety properties: who holds a row lock is in
\* that row's handler and the row is in processing, and every attempt of an event is
\* an email sent, a worker that may still send one, or an attempt that came to nothing.
LocksMatch ==
  /\ \A w \in Workers : pc[w] \in {"idle", "batch"} <=> cur[w] = NoEvent
  /\ \A w \in Workers :
       InHandler(w) => rowLock[cur[w]] = w /\ status[cur[w]] = "processing"
  /\ \A e \in Events, w \in Workers : rowLock[e] = w => InHandler(w) /\ cur[w] = e
WorkIsInserted ==
  \A e \in Events, w \in Workers :
    /\ e \in batch[w] \/ cur[w] = e => status[e] # "absent"
    /\ cur[w] = e => e \notin batch[w]
AttemptsAccountFor ==
  /\ \A e \in Events : sent[e] + Cardinality(Pending(e)) <= attempts[e]
  /\ \A w \in Workers : pc[w] = "sent" => sent[cur[w]] > 0
IInv ==
  /\ TypeOK
  /\ LocksMatch
  /\ WorkIsInserted
  /\ AttemptsAccountFor
  /\ ProcessedIsDelivered
  /\ LeaseIffProcessing
  /\ FailedOnlyWhenSpent

\* What a notification's email request has come to, as EmailDelivery tells it.
Outcome ==
  [e \in Events |->
     CASE status[e] = "absent" -> "none"
       [] status[e] \in {"pending", "processing"} -> "open"
       [] status[e] = "processed" -> "done"
       [] status[e] = "failed" -> "dead"]

Promise == INSTANCE EmailDelivery
             WITH Requests <- Events, MaxSends <- MaxAttempts,
                  outcome <- Outcome, sends <- sent

\* The outbox, however its workers interleave, crash and retry, implements the
\* promise of EmailDelivery: bounded at-least-once delivery, final failure.
ImplementsPromise == Promise!Spec

\* However often its email is refused and its lease runs out, every event comes to
\* rest as processed or failed, unless a worker has crashed: one that dies during
\* the last attempt strands the event in processing.
EventuallySettled ==
  \A e \in Events :
    status[e] # "absent" ~> crashes > 0 \/ [](status[e] \in {"processed", "failed"})
=============================================================================
