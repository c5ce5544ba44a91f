------------------------- MODULE NotificationProofs -------------------------
(***************************************************************************)
(* What holds of the outbox, for any number of events and workers and      *)
(* every bound, and of what a user reads of the notifications, for any     *)
(* notifications, sizes of pages and windows, and requests.                *)
(*                                                                         *)
(* The outbox: IInv is inductive, it implies the safety properties the     *)
(* runs check, and the outbox implements the promise of EmailDelivery.     *)
(*                                                                         *)
(* The feed: the order of the list is total and every set of rows can be   *)
(* listed in it; FeedInv says what a list has brought down to its cursor,  *)
(* what a stream has sent, and what a request to mark all rows knew.       *)
(***************************************************************************)
EXTENDS Outbox, Feed, Sums

-----------------------------------------------------------------------------
\* The outbox

\* The back-off of every attempt count is a natural number: 2 ^ n is the number of
\* subsets of an interval of n numbers.
LEMMA BackoffType == \A n \in Nat : RetryBackoff(n) \in Nat
  <1> TAKE n \in Nat
  <1> DEFINE k == IF n > 1 THEN n - 1 ELSE 0
  <1>1. k \in Nat
    OBVIOUS
  <1>2. IsFiniteSet(1 .. k) /\ Cardinality(1 .. k) = k
    <2>1. Cardinality(1 .. k) = IF 1 > k THEN 0 ELSE k - 1 + 1
      BY <1>1, FS_Interval
    <2>2. QED
      BY <1>1, <2>1, FS_Interval
  <1>3. 2 ^ k \in Nat
    BY <1>2, FS_SUBSET, FS_CardinalityType
  <1> HIDE DEF k
  <1>4. Least(2 ^ k, MaxBackoff) \in Nat
    BY <1>3, OutboxAssumption DEF Least
  <1>5. QED
    BY <1>4 DEF RetryBackoff, k

\* The time left of a delay never exceeds it and is a natural number.
LEMMA RemainingType ==
  ASSUME NEW d \in Nat, NEW l \in Nat
  PROVE  Remaining(d, l) \in Nat /\ Remaining(d, l) <= d
  BY DEF Remaining

LEMMA HorizonType == Horizon \in Nat
  BY OutboxAssumption DEF Horizon

\* Workers are finitely many, so those that may still send for an event can be counted.
LEMMA PendingFinite ==
  ASSUME NEW e
  PROVE  IsFiniteSet(Pending(e)) /\ Cardinality(Pending(e)) \in Nat
  BY OutboxAssumption, FS_Subset, FS_CardinalityType DEF Pending

\* A set of workers that only loses members does not grow; one that gains at most one
\* worker grows by at most one; one that loses a member it has shrinks.
LEMMA Counting ==
  ASSUME NEW S, IsFiniteSet(S), NEW T, NEW w
  PROVE  /\ T \subseteq S => Cardinality(T) <= Cardinality(S)
         /\ T \subseteq S \cup {w} => Cardinality(T) <= Cardinality(S) + 1
         /\ w \in S /\ T \subseteq S \ {w} => Cardinality(T) <= Cardinality(S) - 1
         /\ T \subseteq S \cup {w} => IsFiniteSet(T)
  <1>1. T \subseteq S => Cardinality(T) <= Cardinality(S)
    BY FS_Subset
  <1>2. T \subseteq S \cup {w} => Cardinality(T) <= Cardinality(S) + 1 /\ IsFiniteSet(T)
    <2>1. IsFiniteSet(S \cup {w})
      BY FS_AddElement
    <2>2. Cardinality(S \cup {w}) <= Cardinality(S) + 1
      <3>1. Cardinality(S) \in Nat
        BY FS_CardinalityType
      <3>2. Cardinality(S \cup {w}) = IF w \in S THEN Cardinality(S) ELSE Cardinality(S) + 1
        BY FS_AddElement
      <3>3. QED
        BY <3>1, <3>2
    <2>3. T \subseteq S \cup {w} => Cardinality(T) <= Cardinality(S \cup {w}) /\ IsFiniteSet(T)
      BY <2>1, FS_Subset
    <2>4. T \subseteq S \cup {w} => Cardinality(T) \in Nat /\ Cardinality(S \cup {w}) \in Nat
      BY <2>1, <2>3, FS_CardinalityType
    <2>5. QED
      BY <2>2, <2>3, <2>4, FS_CardinalityType
  <1>3. w \in S /\ T \subseteq S \ {w} => Cardinality(T) <= Cardinality(S) - 1
    <2>1. IsFiniteSet(S \ {w}) /\ (w \in S => Cardinality(S \ {w}) = Cardinality(S) - 1)
      BY FS_RemoveElement
    <2>2. T \subseteq S \ {w} => Cardinality(T) <= Cardinality(S \ {w})
      BY <2>1, FS_Subset
    <2>3. QED
      BY <2>1, <2>2
  <1>4. QED
    BY <1>1, <1>2, <1>3

\* A claim as a fact about one set of rows.
LEMMA ClaimEffect ==
  ASSUME NEW w, Claim(w)
  PROVE  \E claimed \in SUBSET Available :
           /\ status' = [e \in Events |-> IF e \in claimed THEN "processing" ELSE status[e]]
           /\ attempts' = [e \in Events |->
                             IF e \in claimed THEN attempts[e] + 1 ELSE attempts[e]]
           /\ lockedBy' = [e \in Events |-> IF e \in claimed THEN w ELSE lockedBy[e]]
           /\ lease' = [e \in Events |-> IF e \in claimed THEN LockTicks ELSE lease[e]]
           /\ batch' = [batch EXCEPT ![w] = claimed]
  BY DEF Claim

-----------------------------------------------------------------------------
\* Every step keeps every variable within its type.
LEMMA TypeStep == ASSUME TypeOK, [Next]_vars PROVE TypeOK'
  <1> USE DEF TypeOK, Statuses
  <1>0. ASSUME NEW e PROVE [lease EXCEPT ![e] = 0] \in [Events -> 0 .. LockTicks]
    <2>1. 0 \in 0 .. LockTicks
      BY OutboxAssumption
    <2>2. QED
      BY <2>1
  <1>1. ASSUME NEW e \in Events, CreateNotification(e) PROVE TypeOK'
    BY <1>1 DEF CreateNotification, workerVars
  <1>2. ASSUME NEW w \in Workers, Claim(w) PROVE TypeOK'
    <2>1. PICK claimed \in SUBSET Available :
            /\ status' = [e \in Events |-> IF e \in claimed THEN "processing" ELSE status[e]]
            /\ attempts' = [e \in Events |->
                              IF e \in claimed THEN attempts[e] + 1 ELSE attempts[e]]
            /\ lockedBy' = [e \in Events |-> IF e \in claimed THEN w ELSE lockedBy[e]]
            /\ lease' = [e \in Events |-> IF e \in claimed THEN LockTicks ELSE lease[e]]
            /\ batch' = [batch EXCEPT ![w] = claimed]
      BY ONLY <1>2, ClaimEffect
    <2>2. claimed \subseteq Events /\ \A e \in claimed : attempts[e] < MaxAttempts
      BY DEF Available
    <2>3. attempts' \in [Events -> 0 .. MaxAttempts]
      BY <2>1, <2>2, OutboxAssumption
    <2>4. lease' \in [Events -> 0 .. LockTicks] /\ lag' \in [Workers -> 0 .. Horizon]
      BY <1>2, <2>1, HorizonType, OutboxAssumption DEF Claim
    <2>5. QED
      BY <1>2, <2>1, <2>2, <2>3, <2>4 DEF Claim
  <1>3. ASSUME NEW w \in Workers, NEW e \in Events, BeginEvent(w, e) PROVE TypeOK'
    BY <1>3 DEF BeginEvent, StartHandler, rowVars
  <1>4. ASSUME NEW w \in Workers, NEW e \in Events, SkipEvent(w, e) PROVE TypeOK'
    BY <1>4 DEF SkipEvent, rowVars
  <1>5. ASSUME NEW w \in Workers, EndTick(w) PROVE TypeOK'
    BY <1>5, HorizonType DEF EndTick, rowVars
  <1>6. ASSUME NEW w \in Workers, SendEmail(w) PROVE TypeOK'
    <2>1. sent' \in [Events -> Nat]
      <3>1. CASE cur[w] \in Events
        BY <1>6, <3>1 DEF SendEmail
      <3>2. CASE cur[w] \notin Events
        BY <1>6, <3>2 DEF SendEmail
      <3>3. QED
        BY <3>1, <3>2
    <2>2. QED
      BY <1>6, <2>1 DEF SendEmail, rowVars
  <1>7. ASSUME NEW w \in Workers, HandlerRaises(w) PROVE TypeOK'
    BY <1>7 DEF HandlerRaises, rowVars
  <1>8. ASSUME NEW w \in Workers, CommitProcessed(w) PROVE TypeOK'
    <2>1. lease' \in [Events -> 0 .. LockTicks]
      BY <1>8, <1>0 DEF CommitProcessed, MarkProcessed
    <2>2. QED
      BY <1>8, <2>1 DEF CommitProcessed, MarkProcessed
  <1>9. ASSUME NEW w \in Workers, RecordFailure(w) PROVE TypeOK'
    <2>1. wait' \in [Events -> Nat]
      <3>1. \A e \in Events : RetryBackoff(attempts[e]) \in Nat
        BY BackoffType, OutboxAssumption
      <3>2. lag[w] \in Nat
        BY HorizonType
      <3>3. \A e \in Events : Remaining(RetryBackoff(attempts[e]), lag[w]) \in Nat
        BY <3>1, <3>2, RemainingType
      <3>4. QED
        BY <1>9, <3>3 DEF RecordFailure, Reschedule
    <2>2. lease' \in [Events -> 0 .. LockTicks]
      BY <1>9, <1>0 DEF RecordFailure, Reschedule
    <2>3. QED
      BY <1>9, <2>1, <2>2 DEF RecordFailure, Reschedule
  <1>10. ASSUME NEW w \in Workers, Crash(w) PROVE TypeOK'
    BY <1>10, HorizonType, OutboxAssumption DEF Crash, rowVars
  <1>11. ASSUME Tick PROVE TypeOK'
    <2>1. wait' \in [Events -> Nat]
      BY <1>11 DEF Tick, Remaining
    <2>2. lease' \in [Events -> 0 .. LockTicks]
      BY <1>11, OutboxAssumption DEF Tick, Remaining
    <2>3. lag' \in [Workers -> 0 .. Horizon]
      BY <1>11, HorizonType DEF Tick, Least
    <2>4. QED
      BY <1>11, <2>1, <2>2, <2>3 DEF Tick
  <1>12. CASE UNCHANGED vars
    BY <1>12 DEF vars, rowVars, workerVars
  <1>13. QED
    BY <1>1, <1>2, <1>3, <1>4, <1>5, <1>6, <1>7, <1>8, <1>9, <1>10, <1>11, <1>12
       DEF Next, WorkerStep

LEMMA InitTypeOK == Init => TypeOK
  BY HorizonType, OutboxAssumption DEF Init, TypeOK, Statuses

\* Type correctness: every column and every worker variable keeps its type.
THEOREM TypeCorrect == Spec => []TypeOK
  <1>1. TypeOK /\ [Next]_vars => TypeOK'
    BY TypeStep
  <1>2. QED
    BY InitTypeOK, <1>1, PTL DEF Spec

-----------------------------------------------------------------------------
\* Holding a row lock, being in the row's handler and the row being in processing
\* stay together through every step.
LEMMA LocksStep == ASSUME TypeOK, LocksMatch, [Next]_vars PROVE LocksMatch'
  <1> USE OutboxAssumption DEF TypeOK, LocksMatch, InHandler
  <1>1. ASSUME NEW e \in Events, CreateNotification(e) PROVE LocksMatch'
    BY <1>1 DEF CreateNotification, workerVars
  <1>2. ASSUME NEW w \in Workers, Claim(w) PROVE LocksMatch'
    <2>1. PICK claimed \in SUBSET Available :
            /\ status' = [e \in Events |-> IF e \in claimed THEN "processing" ELSE status[e]]
            /\ attempts' = [e \in Events |->
                              IF e \in claimed THEN attempts[e] + 1 ELSE attempts[e]]
            /\ lockedBy' = [e \in Events |-> IF e \in claimed THEN w ELSE lockedBy[e]]
            /\ lease' = [e \in Events |-> IF e \in claimed THEN LockTicks ELSE lease[e]]
            /\ batch' = [batch EXCEPT ![w] = claimed]
      BY ONLY <1>2, ClaimEffect
    <2>2. \A v \in Workers : InHandler(v)' => status'[cur'[v]] = "processing"
      BY <1>2, <2>1 DEF Claim
    <2>3. QED
      BY <1>2, <2>2 DEF Claim
  <1>3. ASSUME NEW w \in Workers, NEW e \in Events, BeginEvent(w, e) PROVE LocksMatch'
    BY <1>3 DEF BeginEvent, StartHandler, rowVars
  <1>4. ASSUME NEW w \in Workers, NEW e \in Events, SkipEvent(w, e) PROVE LocksMatch'
    BY <1>4 DEF SkipEvent, rowVars
  <1>5. ASSUME NEW w \in Workers, EndTick(w) PROVE LocksMatch'
    BY <1>5 DEF EndTick, rowVars
  <1>6. ASSUME NEW w \in Workers, SendEmail(w) PROVE LocksMatch'
    BY <1>6 DEF SendEmail, rowVars
  <1>7. ASSUME NEW w \in Workers, HandlerRaises(w) PROVE LocksMatch'
    BY <1>7 DEF HandlerRaises, rowVars
  <1>8. ASSUME NEW w \in Workers, CommitProcessed(w) PROVE LocksMatch'
    BY <1>8 DEF CommitProcessed, MarkProcessed
  <1>9. ASSUME NEW w \in Workers, RecordFailure(w) PROVE LocksMatch'
    BY <1>9 DEF RecordFailure, Reschedule
  <1>10. ASSUME NEW w \in Workers, Crash(w) PROVE LocksMatch'
    BY <1>10 DEF Crash, rowVars
  <1>11. CASE Tick
    BY <1>11 DEF Tick
  <1>12. CASE UNCHANGED vars
    BY <1>12 DEF vars, rowVars, workerVars
  <1>13. QED
    BY <1>1, <1>2, <1>3, <1>4, <1>5, <1>6, <1>7, <1>8, <1>9, <1>10, <1>11, <1>12
       DEF Next, WorkerStep

\* Workers only ever hold events whose row was inserted.
LEMMA WorkStep == ASSUME TypeOK, LocksMatch, WorkIsInserted, [Next]_vars PROVE WorkIsInserted'
  <1> USE OutboxAssumption DEF TypeOK, WorkIsInserted
  <1>1. ASSUME NEW e \in Events, CreateNotification(e) PROVE WorkIsInserted'
    BY <1>1 DEF CreateNotification, workerVars
  <1>2. ASSUME NEW w \in Workers, Claim(w) PROVE WorkIsInserted'
    <2>1. PICK claimed \in SUBSET Available :
            /\ status' = [e \in Events |-> IF e \in claimed THEN "processing" ELSE status[e]]
            /\ batch' = [batch EXCEPT ![w] = claimed]
      BY ONLY <1>2, ClaimEffect
    <2>2. cur' = cur /\ cur[w] = NoEvent
      BY <1>2 DEF Claim, LocksMatch
    <2>3. QED
      BY <2>1, <2>2 DEF Available
  <1>3. ASSUME NEW w \in Workers, NEW e \in Events, BeginEvent(w, e) PROVE WorkIsInserted'
    BY <1>3 DEF BeginEvent, StartHandler, rowVars
  <1>4. ASSUME NEW w \in Workers, NEW e \in Events, SkipEvent(w, e) PROVE WorkIsInserted'
    BY <1>4 DEF SkipEvent, rowVars
  <1>5. ASSUME NEW w \in Workers, EndTick(w) \/ SendEmail(w) \/ HandlerRaises(w)
        PROVE WorkIsInserted'
    BY <1>5 DEF EndTick, SendEmail, HandlerRaises, rowVars
  <1>6. ASSUME NEW w \in Workers, CommitProcessed(w) PROVE WorkIsInserted'
    BY <1>6 DEF CommitProcessed, MarkProcessed
  <1>7. ASSUME NEW w \in Workers, RecordFailure(w) PROVE WorkIsInserted'
    BY <1>7 DEF RecordFailure, Reschedule
  <1>8. ASSUME NEW w \in Workers, Crash(w) PROVE WorkIsInserted'
    BY <1>8 DEF Crash, rowVars
  <1>9. CASE Tick
    BY <1>9 DEF Tick
  <1>10. CASE UNCHANGED vars
    BY <1>10 DEF vars, rowVars, workerVars
  <1>11. QED
    BY <1>1, <1>2, <1>3, <1>4, <1>5, <1>6, <1>7, <1>8, <1>9, <1>10 DEF Next, WorkerStep

\* What a worker that leaves the event alone, drops it or goes down adds to the
\* account of the event's attempts: nothing.
LEMMA FewerPending ==
  ASSUME TypeOK, AttemptsAccountFor, sent' = sent, attempts' = attempts,
         NEW e \in Events, Pending(e)' \subseteq Pending(e)
  PROVE  sent'[e] + Cardinality(Pending(e)') <= attempts'[e]
  <1>1. Cardinality(Pending(e)') <= Cardinality(Pending(e)) /\ Cardinality(Pending(e)') \in Nat
    BY PendingFinite, FS_Subset, FS_CardinalityType
  <1>2. QED
    BY <1>1, PendingFinite DEF TypeOK, AttemptsAccountFor

\* Every attempt stays accounted for: a claim adds one attempt and at most one worker
\* that may send, a send moves one worker from the account to the count of emails.
LEMMA AttemptsStep ==
  ASSUME TypeOK, LocksMatch, WorkIsInserted, AttemptsAccountFor, [Next]_vars
  PROVE  AttemptsAccountFor'
  <1> USE OutboxAssumption
  <1> DEFINE Account == \A e \in Events : sent[e] + Cardinality(Pending(e)) <= attempts[e]
             SentCount == \A w \in Workers : pc[w] = "sent" => sent[cur[w]] > 0
  <1>1. SUFFICES Account' /\ SentCount'
    BY DEF AttemptsAccountFor
  <1>2. ASSUME sent' = sent, attempts' = attempts,
               \A e \in Events : Pending(e)' \subseteq Pending(e)
        PROVE  Account'
    BY <1>2, FewerPending
  <1>3. ASSUME NEW e \in Events, CreateNotification(e) PROVE Account' /\ SentCount'
    <2>1. sent' = sent /\ attempts' = attempts /\ pc' = pc /\ cur' = cur /\ batch' = batch
      BY <1>3 DEF CreateNotification, workerVars
    <2>2. QED
      BY <2>1, <1>2 DEF AttemptsAccountFor, Pending
  <1>4. ASSUME NEW w \in Workers, Claim(w) PROVE Account' /\ SentCount'
    <2>0. PICK claimed \in SUBSET Available :
            /\ attempts' = [e \in Events |->
                              IF e \in claimed THEN attempts[e] + 1 ELSE attempts[e]]
            /\ batch' = [batch EXCEPT ![w] = claimed]
      BY <1>4, ClaimEffect
    <2>1. sent' = sent /\ cur' = cur /\ pc' = [pc EXCEPT ![w] = "batch"]
      BY <1>4 DEF Claim
    <2>2. ASSUME NEW e \in Events
          PROVE  sent'[e] + Cardinality(Pending(e)') <= attempts'[e]
      <3>1. CASE e \in claimed
        <4>1. Pending(e)' \subseteq Pending(e) \cup {w}
          BY <2>0, <2>1, <3>1 DEF Pending, TypeOK
        <4>2. Cardinality(Pending(e)') <= Cardinality(Pending(e)) + 1 /\ IsFiniteSet(Pending(e)')
          BY <4>1, PendingFinite, Counting
        <4>3. Cardinality(Pending(e)') \in Nat /\ Cardinality(Pending(e)) \in Nat
          BY <4>2, PendingFinite, FS_CardinalityType
        <4>4. attempts'[e] = attempts[e] + 1 /\ sent'[e] = sent[e]
          BY <2>0, <2>1, <3>1
        <4>5. QED
          BY <4>2, <4>3, <4>4 DEF AttemptsAccountFor, TypeOK
      <3>2. CASE e \notin claimed
        <4>1. Pending(e)' \subseteq Pending(e)
          BY <2>0, <2>1, <3>2 DEF Pending, TypeOK
        <4>2. Cardinality(Pending(e)') <= Cardinality(Pending(e)) /\ IsFiniteSet(Pending(e)')
          BY <4>1, PendingFinite, FS_Subset
        <4>3. Cardinality(Pending(e)') \in Nat /\ Cardinality(Pending(e)) \in Nat
          BY <4>2, PendingFinite, FS_CardinalityType
        <4>4. attempts'[e] = attempts[e] /\ sent'[e] = sent[e]
          BY <2>0, <2>1, <3>2
        <4>5. QED
          BY <4>2, <4>3, <4>4 DEF AttemptsAccountFor, TypeOK
      <3>3. QED
        BY <3>1, <3>2
    <2>3. QED
      BY <2>1, <2>2 DEF AttemptsAccountFor, TypeOK
  <1>5. ASSUME NEW w \in Workers, NEW e \in Events, BeginEvent(w, e)
        PROVE  Account' /\ SentCount'
    <2>1. sent' = sent /\ attempts' = attempts
      BY <1>5 DEF BeginEvent, StartHandler, rowVars
    <2>2. \A f \in Events : Pending(f)' \subseteq Pending(f)
      BY <1>5 DEF BeginEvent, StartHandler, Pending, TypeOK
    <2>3. SentCount'
      BY <1>5 DEF BeginEvent, StartHandler, AttemptsAccountFor, TypeOK
    <2>4. QED
      BY <2>1, <2>2, <2>3, <1>2
  <1>6. ASSUME NEW w \in Workers, NEW e \in Events, SkipEvent(w, e)
        PROVE  Account' /\ SentCount'
    <2>1. sent' = sent /\ attempts' = attempts
      BY <1>6 DEF SkipEvent, rowVars
    <2>2. \A f \in Events : Pending(f)' \subseteq Pending(f)
      BY <1>6 DEF SkipEvent, Pending, TypeOK
    <2>3. SentCount'
      BY <1>6 DEF SkipEvent, AttemptsAccountFor, TypeOK
    <2>4. QED
      BY <2>1, <2>2, <2>3, <1>2
  <1>7. ASSUME NEW w \in Workers, EndTick(w) PROVE Account' /\ SentCount'
    <2>1. sent' = sent /\ attempts' = attempts
      BY <1>7 DEF EndTick, rowVars
    <2>2. \A f \in Events : Pending(f)' \subseteq Pending(f)
      BY <1>7 DEF EndTick, Pending, TypeOK
    <2>3. SentCount'
      BY <1>7 DEF EndTick, AttemptsAccountFor, TypeOK
    <2>4. QED
      BY <2>1, <2>2, <2>3, <1>2
  <1>8. ASSUME NEW w \in Workers, SendEmail(w) PROVE Account' /\ SentCount'
    <2>1. cur[w] \in Events
      BY <1>8 DEF SendEmail, LocksMatch, TypeOK
    <2>2. /\ sent' = [sent EXCEPT ![cur[w]] = sent[cur[w]] + 1]
          /\ attempts' = attempts /\ cur' = cur /\ batch' = batch
          /\ pc[w] = "handling" /\ pc' = [pc EXCEPT ![w] = "sent"]
      BY <1>8 DEF SendEmail, rowVars
    <2>3. \A v \in Workers : pc[v] = "handling" /\ cur[v] = cur[w] => v = w
      BY <2>1, <2>2 DEF LocksMatch, InHandler
    <2>4. ASSUME NEW e \in Events
          PROVE  sent'[e] + Cardinality(Pending(e)') <= attempts'[e]
      <3>1. CASE e = cur[w]
        <4>1. w \in Pending(e) /\ Pending(e)' \subseteq Pending(e) \ {w}
          BY <2>2, <3>1 DEF Pending, TypeOK, WorkIsInserted
        <4>2. Cardinality(Pending(e)') <= Cardinality(Pending(e)) - 1
          BY <4>1, PendingFinite, Counting
        <4>3. Cardinality(Pending(e)') \in Nat /\ Cardinality(Pending(e)) \in Nat
          <5>1. Pending(e)' \subseteq Pending(e)
            BY <4>1
          <5>2. QED
            BY <5>1, PendingFinite, FS_Subset, FS_CardinalityType
        <4>4. sent'[e] = sent[e] + 1 /\ attempts'[e] = attempts[e]
          BY <2>2, <3>1 DEF TypeOK
        <4>5. QED
          BY <4>2, <4>3, <4>4 DEF AttemptsAccountFor, TypeOK
      <3>2. CASE e # cur[w]
        <4>1. Pending(e)' \subseteq Pending(e)
          BY <2>2, <3>2 DEF Pending, TypeOK
        <4>2. Cardinality(Pending(e)') <= Cardinality(Pending(e)) /\ IsFiniteSet(Pending(e)')
          BY <4>1, PendingFinite, FS_Subset
        <4>3. Cardinality(Pending(e)') \in Nat /\ Cardinality(Pending(e)) \in Nat
          BY <4>2, PendingFinite, FS_CardinalityType
        <4>4. sent'[e] = sent[e] /\ attempts'[e] = attempts[e]
          BY <2>2, <3>2 DEF TypeOK
        <4>5. QED
          BY <4>2, <4>3, <4>4 DEF AttemptsAccountFor, TypeOK
      <3>3. QED
        BY <3>1, <3>2
    <2>5. QED
      BY <2>1, <2>2, <2>4 DEF AttemptsAccountFor, TypeOK
  <1>9. ASSUME NEW w \in Workers, HandlerRaises(w) PROVE Account' /\ SentCount'
    <2>1. sent' = sent /\ attempts' = attempts
      BY <1>9 DEF HandlerRaises, rowVars
    <2>2. \A f \in Events : Pending(f)' \subseteq Pending(f)
      BY <1>9 DEF HandlerRaises, Pending, TypeOK
    <2>3. SentCount'
      BY <1>9 DEF HandlerRaises, AttemptsAccountFor, TypeOK
    <2>4. QED
      BY <2>1, <2>2, <2>3, <1>2
  <1>10. ASSUME NEW w \in Workers, CommitProcessed(w) \/ RecordFailure(w)
         PROVE  Account' /\ SentCount'
    <2>1. /\ sent' = sent /\ attempts' = attempts /\ batch' = batch
          /\ pc' = [pc EXCEPT ![w] = "batch"] /\ cur' = [cur EXCEPT ![w] = NoEvent]
      BY <1>10 DEF CommitProcessed, MarkProcessed, RecordFailure, Reschedule
    <2>2. \A f \in Events : Pending(f)' \subseteq Pending(f)
      BY <2>1 DEF Pending, TypeOK
    <2>3. SentCount'
      BY <2>1 DEF AttemptsAccountFor, TypeOK
    <2>4. QED
      BY <2>1, <2>2, <2>3, <1>2
  <1>11. ASSUME NEW w \in Workers, Crash(w) PROVE Account' /\ SentCount'
    <2>1. sent' = sent /\ attempts' = attempts
      BY <1>11 DEF Crash, rowVars
    <2>2. \A f \in Events : Pending(f)' \subseteq Pending(f)
      BY <1>11 DEF Crash, Pending, TypeOK
    <2>3. SentCount'
      BY <1>11 DEF Crash, AttemptsAccountFor, TypeOK
    <2>4. QED
      BY <2>1, <2>2, <2>3, <1>2
  <1>12. ASSUME Tick \/ UNCHANGED vars PROVE Account' /\ SentCount'
    <2>1. sent' = sent /\ attempts' = attempts /\ pc' = pc /\ cur' = cur /\ batch' = batch
      BY <1>12 DEF Tick, vars, rowVars, workerVars
    <2>2. QED
      BY <2>1, <1>2 DEF AttemptsAccountFor, Pending
  <1>13. QED
    BY <1>3, <1>4, <1>5, <1>6, <1>7, <1>8, <1>9, <1>10, <1>11, <1>12 DEF Next, WorkerStep

\* A processed event's notification was delivered, after every step.
LEMMA DeliveredStep ==
  ASSUME TypeOK, LocksMatch, AttemptsAccountFor, ProcessedIsDelivered, [Next]_vars
  PROVE  ProcessedIsDelivered'
  <1> USE DEF TypeOK, ProcessedIsDelivered
  <1>1. ASSUME NEW e \in Events, CreateNotification(e) PROVE ProcessedIsDelivered'
    BY <1>1 DEF CreateNotification
  <1>2. ASSUME NEW w \in Workers, Claim(w) PROVE ProcessedIsDelivered'
    <2>1. PICK claimed \in SUBSET Available :
            status' = [e \in Events |-> IF e \in claimed THEN "processing" ELSE status[e]]
      BY ONLY <1>2, ClaimEffect
    <2>2. delivery' = delivery /\ sent' = sent
      BY <1>2 DEF Claim
    <2>3. QED
      BY <2>1, <2>2
  <1>3. ASSUME NEW w \in Workers, SendEmail(w) PROVE ProcessedIsDelivered'
    <2>1. cur[w] \in Events
      BY <1>3 DEF SendEmail, LocksMatch
    <2>2. QED
      BY <1>3, <2>1 DEF SendEmail, rowVars
  <1>4. ASSUME NEW w \in Workers, CommitProcessed(w) PROVE ProcessedIsDelivered'
    BY <1>4 DEF CommitProcessed, MarkProcessed, AttemptsAccountFor
  <1>5. ASSUME NEW w \in Workers, RecordFailure(w) PROVE ProcessedIsDelivered'
    BY <1>5 DEF RecordFailure, Reschedule
  <1>6. CASE UNCHANGED <<status, delivery, sent>>
    BY <1>6
  <1>7. ASSUME NEW w \in Workers, NEW e \in Events,
               \/ BeginEvent(w, e) \/ SkipEvent(w, e) \/ EndTick(w)
               \/ HandlerRaises(w) \/ Crash(w)
        PROVE  UNCHANGED <<status, delivery, sent>>
    BY <1>7 DEF BeginEvent, StartHandler, SkipEvent, EndTick, HandlerRaises, Crash, rowVars
  <1>8. QED
    BY <1>1, <1>2, <1>3, <1>4, <1>5, <1>6, <1>7
       DEF Next, WorkerStep, Tick, vars, rowVars, EndTick, HandlerRaises, Crash

\* The lease columns keep describing a claim in progress.
LEMMA LeaseStep ==
  ASSUME TypeOK, LocksMatch, LeaseIffProcessing, [Next]_vars PROVE LeaseIffProcessing'
  <1> USE OutboxAssumption DEF TypeOK, LeaseIffProcessing
  <1>1. ASSUME NEW e \in Events, CreateNotification(e) PROVE LeaseIffProcessing'
    BY <1>1 DEF CreateNotification
  <1>2. ASSUME NEW w \in Workers, Claim(w) PROVE LeaseIffProcessing'
    <2>1. PICK claimed \in SUBSET Available :
            /\ status' = [e \in Events |-> IF e \in claimed THEN "processing" ELSE status[e]]
            /\ lockedBy' = [e \in Events |-> IF e \in claimed THEN w ELSE lockedBy[e]]
            /\ lease' = [e \in Events |-> IF e \in claimed THEN LockTicks ELSE lease[e]]
      BY ONLY <1>2, ClaimEffect
    <2>2. QED
      BY <2>1
  <1>3. ASSUME NEW w \in Workers, CommitProcessed(w) PROVE LeaseIffProcessing'
    BY <1>3 DEF CommitProcessed, MarkProcessed
  <1>4. ASSUME NEW w \in Workers, RecordFailure(w) PROVE LeaseIffProcessing'
    BY <1>4 DEF RecordFailure, Reschedule
  <1>5. CASE Tick
    BY <1>5 DEF Tick, Remaining
  <1>6. ASSUME NEW w \in Workers, NEW e \in Events,
               \/ BeginEvent(w, e) \/ SkipEvent(w, e) \/ EndTick(w)
               \/ SendEmail(w) \/ HandlerRaises(w) \/ Crash(w)
        PROVE  UNCHANGED <<status, lockedBy, lease>>
    BY <1>6
       DEF BeginEvent, StartHandler, SkipEvent, EndTick, SendEmail, HandlerRaises, Crash, rowVars
  <1>7. CASE UNCHANGED <<status, lockedBy, lease>>
    BY <1>7
  <1>8. QED
    BY <1>1, <1>2, <1>3, <1>4, <1>5, <1>6, <1>7
       DEF Next, WorkerStep, vars, rowVars, EndTick, SendEmail, HandlerRaises, Crash

\* A failed event has spent its attempts and stays failed, in every step.
LEMMA SpentStep ==
  ASSUME TypeOK, LocksMatch, FailedOnlyWhenSpent, [Next]_vars
  PROVE  /\ FailedOnlyWhenSpent'
         /\ \A e \in Events : status[e] = "failed" => status'[e] = "failed"
  <1> USE OutboxAssumption DEF TypeOK, FailedOnlyWhenSpent
  <1> DEFINE Goal == /\ FailedOnlyWhenSpent'
                     /\ \A e \in Events : status[e] = "failed" => status'[e] = "failed"
  <1>1. ASSUME NEW e \in Events, CreateNotification(e) PROVE Goal
    BY <1>1 DEF CreateNotification
  <1>2. ASSUME NEW w \in Workers, Claim(w) PROVE Goal
    <2>1. PICK claimed \in SUBSET Available :
            /\ status' = [e \in Events |-> IF e \in claimed THEN "processing" ELSE status[e]]
            /\ attempts' = [e \in Events |->
                              IF e \in claimed THEN attempts[e] + 1 ELSE attempts[e]]
      BY ONLY <1>2, ClaimEffect
    <2>2. \A e \in claimed : status[e] # "failed"
      BY DEF Available
    <2>3. QED
      BY <2>1, <2>2
  <1>3. ASSUME NEW w \in Workers, CommitProcessed(w) PROVE Goal
    BY <1>3 DEF CommitProcessed, MarkProcessed, LocksMatch, InHandler
  <1>4. ASSUME NEW w \in Workers, RecordFailure(w) PROVE Goal
    <2>1. /\ attempts' = attempts
          /\ status' = [status EXCEPT ![cur[w]] =
                           IF attempts[cur[w]] >= MaxAttempts THEN "failed" ELSE "pending"]
      BY <1>4 DEF RecordFailure, Reschedule
    <2>2. ASSUME NEW e \in Events, e = cur[w]
          PROVE  /\ status'[e] = "failed" => attempts[e] = MaxAttempts
                 /\ status[e] = "failed" => status'[e] = "failed"
      <3>1. status'[e] = IF attempts[e] >= MaxAttempts THEN "failed" ELSE "pending"
        BY <2>1, <2>2
      <3>2. attempts[e] \in 0 .. MaxAttempts
        OBVIOUS
      <3>3. QED
        BY <3>1, <3>2
    <2>3. \A e \in Events : e # cur[w] => status'[e] = status[e]
      BY <2>1
    <2>4. QED
      BY <2>1, <2>2, <2>3
  <1>5. ASSUME NEW w \in Workers, NEW e \in Events,
               \/ BeginEvent(w, e) \/ SkipEvent(w, e) \/ EndTick(w)
               \/ SendEmail(w) \/ HandlerRaises(w) \/ Crash(w)
        PROVE  UNCHANGED <<status, attempts>>
    BY <1>5
       DEF BeginEvent, StartHandler, SkipEvent, EndTick, SendEmail, HandlerRaises, Crash, rowVars
  <1>6. CASE UNCHANGED <<status, attempts>>
    BY <1>6
  <1>7. QED
    BY <1>1, <1>2, <1>3, <1>4, <1>5, <1>6
       DEF Next, WorkerStep, Tick, vars, rowVars, EndTick, SendEmail, HandlerRaises, Crash

LEMMA InitIInv == Init => IInv
  <1> SUFFICES ASSUME Init PROVE IInv
    OBVIOUS
  <1>1. \A e \in Events : Pending(e) = {}
    BY OutboxAssumption DEF Init, Pending
  <1>2. \A e \in Events : sent[e] + Cardinality(Pending(e)) <= attempts[e]
    BY <1>1, FS_EmptySet DEF Init
  <1>3. AttemptsAccountFor
    BY <1>2 DEF Init, AttemptsAccountFor
  <1>4. LocksMatch /\ WorkIsInserted
    BY OutboxAssumption DEF Init, LocksMatch, WorkIsInserted, InHandler
  <1>5. ProcessedIsDelivered /\ LeaseIffProcessing /\ FailedOnlyWhenSpent
    BY DEF Init, ProcessedIsDelivered, LeaseIffProcessing, FailedOnlyWhenSpent
  <1>6. QED
    BY <1>3, <1>4, <1>5, InitTypeOK DEF IInv

LEMMA IInvStep == ASSUME IInv, [Next]_vars PROVE IInv'
  BY TypeStep, LocksStep, WorkStep, AttemptsStep, DeliveredStep, LeaseStep, SpentStep DEF IInv

\* IInv is inductive: it holds of every reachable state.
THEOREM Invariance == Spec => []IInv
  <1>1. IInv /\ [Next]_vars => IInv'
    BY IInvStep
  <1>2. QED
    BY InitIInv, <1>1, PTL DEF Spec

\* No event's email is sent more often than the event was claimed, so never more than
\* MaxAttempts times, for any number of workers, leases, crashes and failures.
THEOREM EmailsBounded ==
  Spec => [](EmailsWithinAttempts /\ \A e \in Events : sent[e] <= MaxAttempts)
  <1>1. IInv => EmailsWithinAttempts /\ \A e \in Events : sent[e] <= MaxAttempts
    <2> SUFFICES ASSUME IInv, NEW e \in Events
                 PROVE  sent[e] <= attempts[e] /\ sent[e] <= MaxAttempts
      BY DEF EmailsWithinAttempts
    <2>1. sent[e] \in Nat /\ attempts[e] \in 0 .. MaxAttempts
      BY DEF IInv, TypeOK
    <2>2. sent[e] + Cardinality(Pending(e)) <= attempts[e]
      BY DEF IInv, AttemptsAccountFor
    <2>3. Cardinality(Pending(e)) \in Nat
      BY PendingFinite
    <2>4. QED
      BY <2>1, <2>2, <2>3, OutboxAssumption
  <1>2. QED
    BY Invariance, <1>1, PTL

\* One event is never in two handlers at once.
THEOREM HandlersExclude == Spec => []HandlerExclusive
  <1>1. IInv => HandlerExclusive
    BY DEF IInv, LocksMatch, HandlerExclusive
  <1>2. QED
    BY Invariance, <1>1, PTL

\* Processed implies delivered; lease columns belong to processing rows; failed rows
\* have spent their attempts.
THEOREM RowsConsistent ==
  Spec => [](ProcessedIsDelivered /\ LeaseIffProcessing /\ FailedOnlyWhenSpent)
  <1>1. IInv => ProcessedIsDelivered /\ LeaseIffProcessing /\ FailedOnlyWhenSpent
    BY DEF IInv
  <1>2. QED
    BY Invariance, <1>1, PTL

\* Giving up is final.
THEOREM FailureFinal == Spec => FailedIsFinal
  <1>1. IInv /\ [Next]_vars =>
          [\A e \in Events : status[e] = "failed" => status'[e] = "failed"]_vars
    BY SpentStep DEF IInv
  <1>2. QED
    BY Invariance, <1>1, PTL DEF Spec, FailedIsFinal

-----------------------------------------------------------------------------
\* A step that changes the outcome of one event by a move EmailDelivery allows, or of
\* none, and sends nothing, is a step or a stutter of the promise.
LEMMA MoveMaps ==
  ASSUME TypeOK, UNCHANGED sent, NEW r \in Events, NEW o \in {"open", "done", "dead"},
         o \in Promise!Follows[Outcome[r]], o = "done" => sent[r] > 0,
         Outcome' = [Outcome EXCEPT ![r] = o]
  PROVE  Promise!Next
  BY DEF Promise!Next, Promise!Move

\* Every step of the outbox is a step of EmailDelivery or leaves its state alone.
LEMMA StepMaps == ASSUME IInv, [Next]_vars PROVE [Promise!Next]_(Promise!vars)
  <1> USE DEF IInv, TypeOK, Statuses
  <1> SUFFICES ASSUME ~ UNCHANGED <<Outcome, sent>> PROVE Promise!Next
    BY DEF Promise!vars
  <1>1. ASSUME UNCHANGED <<status, sent>> PROVE FALSE
    BY <1>1 DEF Outcome
  <1>2. ASSUME NEW e \in Events, CreateNotification(e) PROVE Promise!Next
    <2>1. status[e] = "absent" /\ status' = [status EXCEPT ![e] = "pending"] /\ sent' = sent
      BY <1>2 DEF CreateNotification
    <2>2. Outcome' = [Outcome EXCEPT ![e] = "open"]
      BY <2>1 DEF Outcome
    <2>3. "open" \in Promise!Follows[Outcome[e]]
      BY <2>1 DEF Outcome, Promise!Follows
    <2>4. QED
      BY <2>1, <2>2, <2>3, MoveMaps
  <1>3. ASSUME NEW w \in Workers, Claim(w) PROVE FALSE
    <2>1. PICK claimed \in SUBSET Available :
            status' = [e \in Events |-> IF e \in claimed THEN "processing" ELSE status[e]]
      BY ONLY <1>3, ClaimEffect
    <2>2. \A e \in claimed : status[e] \in {"pending", "processing"}
      BY DEF Available
    <2>3. Outcome' = Outcome
      BY <2>1, <2>2 DEF Outcome
    <2>4. QED
      BY <1>3, <2>3 DEF Claim
  <1>4. ASSUME NEW w \in Workers, SendEmail(w) PROVE Promise!Next
    <2>1. /\ pc[w] = "handling" /\ status' = status
          /\ sent' = [sent EXCEPT ![cur[w]] = sent[cur[w]] + 1]
      BY <1>4 DEF SendEmail, rowVars
    <2>2. cur[w] \in Events /\ status[cur[w]] = "processing"
      BY <2>1 DEF LocksMatch, InHandler
    <2>3. sent[cur[w]] < MaxAttempts
      <3>1. w \in Pending(cur[w])
        BY <2>1 DEF Pending
      <3>2. Cardinality(Pending(cur[w])) # 0 /\ Cardinality(Pending(cur[w])) \in Nat
        BY <3>1, PendingFinite, FS_EmptySet
      <3>3. sent[cur[w]] + Cardinality(Pending(cur[w])) <= attempts[cur[w]]
        BY <2>2 DEF AttemptsAccountFor
      <3>4. attempts[cur[w]] \in 0 .. MaxAttempts /\ sent[cur[w]] \in Nat
        BY <2>2
      <3>5. QED
        BY <3>2, <3>3, <3>4, OutboxAssumption
    <2>4. Outcome[cur[w]] = "open" /\ Outcome' = Outcome
      BY <2>1, <2>2 DEF Outcome
    <2>5. Promise!Send(cur[w])
      BY <2>1, <2>3, <2>4 DEF Promise!Send
    <2>6. QED
      BY <2>2, <2>5 DEF Promise!Next
  <1>5. ASSUME NEW w \in Workers, CommitProcessed(w) PROVE Promise!Next
    <2>1. pc[w] = "sent" /\ status' = [status EXCEPT ![cur[w]] = "processed"] /\ sent' = sent
      BY <1>5 DEF CommitProcessed, MarkProcessed
    <2>2. cur[w] \in Events /\ status[cur[w]] = "processing" /\ sent[cur[w]] > 0
      BY <2>1 DEF LocksMatch, InHandler, AttemptsAccountFor
    <2>3. Outcome' = [Outcome EXCEPT ![cur[w]] = "done"]
      BY <2>1, <2>2 DEF Outcome
    <2>4. "done" \in Promise!Follows[Outcome[cur[w]]]
      BY <2>2 DEF Outcome, Promise!Follows
    <2>5. QED
      BY <2>1, <2>2, <2>3, <2>4, MoveMaps
  <1>6. ASSUME NEW w \in Workers, RecordFailure(w) PROVE Promise!Next
    <2> DEFINE e == cur[w]
               s == IF attempts[e] >= MaxAttempts THEN "failed" ELSE "pending"
               o == IF attempts[e] >= MaxAttempts THEN "dead" ELSE "open"
    <2>1. pc[w] = "failing" /\ status' = [status EXCEPT ![e] = s] /\ sent' = sent
      BY <1>6 DEF RecordFailure, Reschedule
    <2>2. e \in Events /\ status[e] # "absent"
      BY <2>1 DEF LocksMatch, WorkIsInserted
    <2>3. Outcome' = [Outcome EXCEPT ![e] = o]
      BY <2>1, <2>2 DEF Outcome
    <2>4. status[e] = "failed" => attempts[e] >= MaxAttempts
      BY <2>2, OutboxAssumption DEF FailedOnlyWhenSpent
    <2>5. Outcome[e] # o
      BY <2>1, <2>2, <2>3 DEF Outcome
    <2>6. o \in Promise!Follows[Outcome[e]]
      BY <2>2, <2>4, <2>5 DEF Outcome, Promise!Follows
    <2>7. QED
      BY <2>1, <2>2, <2>3, <2>6, MoveMaps
  <1>7. ASSUME NEW w \in Workers, NEW e \in Events,
               \/ BeginEvent(w, e) \/ SkipEvent(w, e) \/ EndTick(w)
               \/ HandlerRaises(w) \/ Crash(w)
        PROVE  UNCHANGED <<status, sent>>
    BY <1>7 DEF BeginEvent, StartHandler, SkipEvent, EndTick, HandlerRaises, Crash, rowVars
  <1>8. QED
    BY <1>1, <1>2, <1>3, <1>4, <1>5, <1>6, <1>7
       DEF Next, WorkerStep, Tick, vars, rowVars, EndTick, HandlerRaises, Crash

\* The outbox implements bounded at-least-once delivery with final failure.
THEOREM DeliveryRefinement == Spec => ImplementsPromise
  <1>1. Init => Promise!Init
    BY DEF Init, Promise!Init, Outcome
  <1>2. IInv /\ [Next]_vars => [Promise!Next]_(Promise!vars)
    BY StepMaps
  <1>3. QED
    BY Invariance, <1>1, <1>2, PTL DEF Spec, ImplementsPromise, Promise!Spec

-----------------------------------------------------------------------------
\* The feed

\* The ids break the ties of created_at: notifications are totally ordered.
LEMMA BeforeOrders ==
  ASSUME created \in [Notes -> Nat]
  PROVE  /\ \A m, n \in Notes : ~ (Before(m, n) /\ Before(n, m))
         /\ \A m, n \in Notes : m = n \/ Before(m, n) \/ Before(n, m)
         /\ \A l, m, n \in Notes : Before(l, m) /\ Before(m, n) => Before(l, n)
  <1>1. /\ \A n \in Notes : created[n] \in Nat /\ IdOrder[n] \in Nat
        /\ \A m, n \in Notes : IdOrder[m] = IdOrder[n] => m = n
    BY FeedAssumption
  <1>2. \A m, n \in Notes : ~ (Before(m, n) /\ Before(n, m))
    BY <1>1 DEF Before
  <1>3. \A m, n \in Notes : m = n \/ Before(m, n) \/ Before(n, m)
    BY <1>1 DEF Before
  <1>4. \A l, m, n \in Notes : Before(l, m) /\ Before(m, n) => Before(l, n)
    BY <1>1 DEF Before
  <1>5. QED
    BY <1>2, <1>3, <1>4

\* Among notifications there is an oldest one.
LEMMA OldestExists ==
  ASSUME created \in [Notes -> Nat], NEW rows \in SUBSET Notes, rows # {}
  PROVE  \E x \in rows : \A y \in rows \ {x} : Before(x, y)
  <1> DEFINE Oldest(x, u) == \A y \in u \ {x} : Before(x, y)
             good == {u \in SUBSET rows : u = {} \/ \E x \in u : Oldest(x, u)}
  <1>1. {} \in good
    OBVIOUS
  <1>2. ASSUME NEW u \in SUBSET rows, NEW x \in u, u \ {x} \in good
        PROVE  u \in good
    <2>1. CASE u \ {x} = {}
      BY <2>1
    <2>2. CASE \E w \in u \ {x} : Oldest(w, u \ {x})
      <3>1. PICK w \in u \ {x} : Oldest(w, u \ {x})
        BY <2>2
      <3>2. Before(w, x) \/ Before(x, w)
        BY <3>1, BeforeOrders
      <3>3. CASE Before(w, x)
        <4>1. Oldest(w, u)
          BY <3>1, <3>3
        <4>2. QED
          BY <4>1
      <3>4. CASE Before(x, w)
        <4>1. \A y \in u \ {x} : Before(x, y)
          BY <3>1, <3>4, BeforeOrders
        <4>2. QED
          BY <4>1
      <3>5. QED
        BY <3>2, <3>3, <3>4
    <2>3. QED
      BY <1>2, <2>1, <2>2
  <1>3. rows \in good
    <2>1. IsFiniteSet(rows)
      BY FeedAssumption, FS_Subset
    <2> HIDE DEF good
    <2>2. QED
      BY <1>1, <1>2, <2>1, FiniteInduction
  <1>4. QED
    BY <1>3

\* s lists each of the rows once, newest first.
Lists(s, rows) ==
  /\ s \in [1 .. Cardinality(rows) -> rows]
  /\ Range(s) = rows
  /\ \A i, j \in 1 .. Cardinality(rows) : i < j => Before(s[j], s[i])

\* Every set of notifications can be listed so.
LEMMA ListExists ==
  ASSUME created \in [Notes -> Nat], NEW rows \in SUBSET Notes
  PROVE  \E s : Lists(s, rows)
  <1> DEFINE bad == {u \in SUBSET rows : ~ \E s : Lists(s, u)}
  <1>1. SUFFICES ASSUME bad # {} PROVE FALSE
    OBVIOUS
  <1>2. IsFiniteSet(rows)
    BY FeedAssumption, FS_Subset
  <1>3. PICK u \in bad : \A v \in bad : v \subseteq u => v = u
    <2>1. bad \subseteq SUBSET rows
      OBVIOUS
    <2> HIDE DEF bad
    <2>2. QED
      BY <1>1, <1>2, <2>1, MinimalSubset
  <1>4. IsFiniteSet(u) /\ u \subseteq Notes
    BY <1>2, FS_Subset
  <1>5. u # {}
    <2>1. SUFFICES ASSUME u = {} PROVE FALSE
      OBVIOUS
    <2>2. Cardinality(u) = 0
      BY <2>1, FS_EmptySet
    <2>3. Lists(<<>>, u)
      BY <2>1, <2>2 DEF Lists, Range
    <2>4. QED
      BY <2>3
  <1>6. PICK x \in u : \A y \in u \ {x} : Before(x, y)
    BY <1>4, <1>5, OldestExists
  <1> DEFINE k == Cardinality(u)
  <1>7. /\ k \in Nat \ {0}
        /\ Cardinality(u \ {x}) = k - 1
    BY <1>4, <1>5, FS_CardinalityType, FS_EmptySet, FS_RemoveElement
  <1>8. PICK s : Lists(s, u \ {x})
    BY <1>3
  <1> DEFINE t == [i \in 1 .. k |-> IF i = k THEN x ELSE s[i]]
  <1> HIDE DEF k
  <1>9. /\ s \in [1 .. k - 1 -> u \ {x}] /\ Range(s) = u \ {x}
        /\ \A i, j \in 1 .. k - 1 : i < j => Before(s[j], s[i])
    BY <1>7, <1>8 DEF Lists
  <1>10. t \in [1 .. k -> u]
    BY <1>7, <1>9
  <1>11. Range(t) = u
    <2>1. \A y \in u : \E i \in 1 .. k : t[i] = y
      <3> SUFFICES ASSUME NEW y \in u PROVE \E i \in 1 .. k : t[i] = y
        OBVIOUS
      <3>1. CASE y = x
        BY <1>7, <3>1
      <3>2. CASE y # x
        <4>1. PICK i \in 1 .. k - 1 : s[i] = y
          BY <1>9, <3>2 DEF Range
        <4>2. i \in 1 .. k /\ i # k
          BY <1>7
        <4>3. QED
          BY <4>1, <4>2
      <3>3. QED
        BY <3>1, <3>2
    <2>2. QED
      BY <1>10, <2>1 DEF Range
  <1>12. ASSUME NEW i \in 1 .. k, NEW j \in 1 .. k, i < j
         PROVE  Before(t[j], t[i])
    <2>1. i # k /\ i \in 1 .. k - 1 /\ t[i] = s[i] /\ t[i] \in u \ {x}
      BY <1>7, <1>9, <1>12
    <2>2. CASE j = k
      BY <1>6, <2>1, <2>2
    <2>3. CASE j # k
      <3>1. j \in 1 .. k - 1 /\ t[j] = s[j]
        BY <1>7, <2>3
      <3>2. QED
        BY <1>9, <1>12, <2>1, <3>1
    <2>4. QED
      BY <2>2, <2>3
  <1>13. Lists(t, u)
    <2> HIDE DEF t
    <2>1. QED
      BY <1>10, <1>11, <1>12 DEF Lists, k
  <1>14. QED
    BY <1>13

\* The order of list_owned is one.
LEMMA OrderedLists ==
  ASSUME created \in [Notes -> Nat], NEW rows \in SUBSET Notes
  PROVE  Lists(Ordered(rows), rows)
  <1>1. PICK s : Lists(s, rows)
    BY ListExists
  <1>2. QED
    BY <1>1 DEF Lists, Ordered

\* What list_owned returns: rows in descending order, each once, all of them or as many as
\* the limit says, and then the others sort behind.
LEMMA NewestAre ==
  ASSUME created \in [Notes -> Nat], NEW rows \in SUBSET Notes, NEW limit \in Nat,
         NEW s, s = Newest(rows, limit)
  PROVE  /\ s \in Seq(rows)
         /\ Len(s) <= limit
         /\ Len(s) < limit => Range(s) = rows
         /\ \A i, j \in 1 .. Len(s) : i < j => Before(s[j], s[i])
         /\ \A n \in rows \ Range(s) : \A i \in 1 .. Len(s) : Before(n, s[i])
  <1> DEFINE k == Cardinality(rows)
             t == Ordered(rows)
  <1>1. k \in Nat
    BY FeedAssumption, FS_Subset, FS_CardinalityType
  <1>2. Lists(t, rows)
    BY OrderedLists
  <1> HIDE DEF t
  <1>3. /\ t \in [1 .. k -> rows] /\ Range(t) = rows
        /\ \A i, j \in 1 .. k : i < j => Before(t[j], t[i])
    BY <1>2 DEF Lists
  <1>4. t \in Seq(rows) /\ Len(t) = k
    BY <1>1, <1>3
  <1>5. s = IF k <= limit THEN t ELSE SubSeq(t, 1, limit)
    BY DEF Newest, t
  <1> HIDE DEF k
  <1>6. CASE k <= limit
    BY <1>1, <1>3, <1>4, <1>5, <1>6
  <1>7. CASE ~ (k <= limit)
    <2>1. s \in Seq(rows) /\ Len(s) = limit /\ \A i \in 1 .. limit : i \in 1 .. k /\ s[i] = t[i]
      BY <1>1, <1>4, <1>5, <1>7
    <2>2. ASSUME NEW n \in rows \ Range(s), NEW i \in 1 .. limit
          PROVE  Before(n, s[i])
      <3>1. PICK j \in 1 .. k : t[j] = n
        BY <1>3 DEF Range
      <3>2. ~ (j \in 1 .. limit)
        BY <2>1, <2>2, <3>1 DEF Range
      <3>3. i < j
        BY <1>1, <3>2
      <3>4. QED
        BY <1>3, <2>1, <3>1, <3>3
    <2>3. QED
      BY <1>3, <2>1, <2>2
  <1>8. QED
    BY <1>6, <1>7

-----------------------------------------------------------------------------
\* Stored rows stay stored, keep their instant, and stay read when they are.
RowsKept ==
  \A n \in Visible(FALSE) :
    /\ state'[n] = "stored"
    /\ created'[n] = created[n]
    /\ read[n] => read'[n]

\* What a view has to do with rows survives what others do to them.
LEMMA ViewKept ==
  ASSUME FeedInv, RowsKept, UNCHANGED viewVars
  PROVE  ViewSettled' /\ NothingTwice' /\ PagesComplete'
  <1>1. /\ \A n \in Visible(FALSE) : n \in Visible(FALSE)'
        /\ \A m, n \in Visible(FALSE) : Before(m, n)' <=> Before(m, n)
    BY DEF RowsKept, Visible, Before
  <1>2. \A n \in Visible(FALSE), b \in BOOLEAN : n \in Visible(b)' => n \in Visible(b)
    BY DEF RowsKept, Visible
  <1>3. Range(got) \cup Range(out) \cup owed \cup ({cursor} \ {None}) \subseteq Visible(FALSE)
    BY DEF FeedInv, ViewSettled
  <1>4. unread \in BOOLEAN /\ cursor \in Notes \cup {None}
    BY DEF FeedInv, FeedTypeOK, ViewTypes
  <1>5. (Range(got) \cup Range(out) \cup owed \cup ({cursor} \ {None}) \subseteq Visible(FALSE))'
    BY <1>1, <1>3 DEF viewVars
  <1>6. PagesSettled => PagesSettled'
    <2>1. SUFFICES ASSUME PagesSettled PROVE PagesSettled'
      OBVIOUS
    <2>2. cursor' # None => \A n \in Range(got)' : ~ Before(n, cursor)'
      BY <1>1, <1>3, <2>1 DEF PagesSettled, viewVars
    <2>3. ASSUME NEW n \in owed, n \in Visible(unread)'
          PROVE  n \in Range(got) \/ Behind(n, cursor)'
      BY <1>1, <1>2, <1>3, <1>4, <2>1, <2>3 DEF PagesSettled, Behind, viewVars
    <2>4. QED
      BY <2>1, <2>2, <2>3 DEF PagesSettled, viewVars
  <1>7. StreamSettled => StreamSettled'
    BY DEF StreamSettled, viewVars
  <1>8. ViewSettled'
    BY <1>5, <1>6, <1>7 DEF FeedInv, ViewSettled, viewVars
  <1>9. PagesComplete'
    BY <1>2, <1>3, <1>4 DEF FeedInv, PagesComplete, viewVars
  <1>10. QED
    BY <1>8, <1>9 DEF FeedInv, NothingTwice, viewVars

\* What a request has to do with rows survives what others do to them.
LEMMA MarkKept ==
  ASSUME FeedInv, RowsKept, NEW r \in Marks,
         target'[r] = target[r], phase'[r] = phase[r], at'[r] = at[r],
         known'[r] = known[r], reply'[r] = reply[r]
  PROVE  MarkSettled(r)'
  <1>1. \A n \in Visible(FALSE) : n \in Visible(FALSE)'
    BY DEF RowsKept, Visible
  <1>2. MarkSettled(r)
    BY DEF FeedInv
  <1>3. known[r] \subseteq Visible(FALSE)
    BY <1>2 DEF MarkSettled
  <1>4. (known[r] \subseteq Visible(FALSE))'
    BY <1>1, <1>3
  <1>5. reply[r] = "error" => \E n \in Visible(FALSE)' \ known'[r] : created'[n] > at'[r]
    BY <1>1, <1>2 DEF MarkSettled, RowsKept
  <1>6. phase[r] = "update" => \A n \in known[r] : created'[n] <= at'[r]
    BY <1>2, <1>3 DEF MarkSettled, RowsKept
  <1>7. target[r] = All /\ reply[r] = "ok" => \A n \in known[r] : read'[n]
    BY <1>2, <1>3 DEF MarkSettled, RowsKept
  <1>8. QED
    BY <1>2, <1>4, <1>5, <1>6, <1>7 DEF MarkSettled

\* What creates notifications keeps the invariant.
LEMMA RowsInv ==
  ASSUME FeedInv,
         Later \/ \E n \in Notes : Create(n) \/ EndCreate(n, "stored") \/ EndCreate(n, "dropped")
  PROVE  FeedInv'
  <1>1. UNCHANGED viewVars /\ UNCHANGED markVars
    BY DEF Later, Create, EndCreate
  <1>2. FeedTypeOK'
    <2>1. RowTypes /\ ViewTypes /\ MarkTypes
      BY DEF FeedInv, FeedTypeOK
    <2>2. RowTypes'
      <3>1. CASE Later
        BY <2>1, <3>1, FeedAssumption DEF RowTypes, Later
      <3>2. CASE \E n \in Notes : Create(n) \/ EndCreate(n, "stored") \/ EndCreate(n, "dropped")
        BY <2>1, <3>2 DEF RowTypes, Create, EndCreate
      <3>3. QED
        BY <3>1, <3>2
    <2>3. ViewTypes' /\ MarkTypes'
      BY <1>1, <2>1 DEF ViewTypes, MarkTypes, viewVars, markVars
    <2>4. QED
      BY <2>2, <2>3 DEF FeedTypeOK
  <1>3. RowsSettled'
    <2>1. now \in Nat /\ created \in [Notes -> Nat] /\ \A n \in Notes : created[n] <= now
      BY FeedAssumption DEF FeedInv, FeedTypeOK, RowTypes, RowsSettled
    <2>2. QED
      BY <2>1 DEF RowsSettled, Later, Create, EndCreate
  <1>4. RowsKept
    BY DEF FeedInv, FeedTypeOK, RowTypes, RowsKept, Visible, Later, Create, EndCreate
  <1>5. ViewSettled' /\ NothingTwice' /\ PagesComplete'
    BY <1>1, <1>4, ViewKept
  <1>6. \A r \in Marks : MarkSettled(r)'
    BY <1>1, <1>4, MarkKept DEF markVars
  <1>7. QED
    BY <1>2, <1>3, <1>5, <1>6 DEF FeedInv

\* The steps of a view leave rows and requests alone: what is left to show of them.
LEMMA ViewStep ==
  ASSUME FeedInv, UNCHANGED noteVars, UNCHANGED markVars,
         ViewTypes', ViewSettled', NothingTwice', PagesComplete'
  PROVE  FeedInv'
  <1>1. FeedTypeOK' /\ RowsSettled'
    BY DEF FeedInv, FeedTypeOK, RowTypes, MarkTypes, RowsSettled, noteVars, markVars
  <1>2. RowsKept
    BY DEF RowsKept, Visible, noteVars
  <1>3. \A r \in Marks : MarkSettled(r)'
    BY <1>2, MarkKept DEF markVars
  <1>4. QED
    BY <1>1, <1>3 DEF FeedInv

\* A view opens: the invariant is kept.
LEMMA OpenInv ==
  ASSUME FeedInv, Connect \/ \E unreadOnly \in BOOLEAN : OpenList(unreadOnly)
  PROVE  FeedInv'
  <1>1. UNCHANGED noteVars /\ UNCHANGED markVars
    BY DEF Connect, OpenList
  <1>2. ViewTypes'
    <2>1. ViewTypes /\ MaxVisits \in Nat
      BY FeedAssumption DEF FeedInv, FeedTypeOK
    <2>2. QED
      BY <2>1 DEF ViewTypes, Connect, OpenList, Visible
  <1>3. Visible(FALSE)' = Visible(FALSE) /\ \A b \in BOOLEAN : Visible(b) \subseteq Visible(FALSE)
    BY <1>1 DEF Visible, noteVars
  <1>4. got = <<>> /\ cursor = None /\ seen = {} /\ out = <<>>
    BY DEF FeedInv, ViewSettled, Connect, OpenList
  <1>5. Range(<<>>) = {} /\ IsInjective(<<>>)
    BY DEF Range, IsInjective
  <1>6. ViewSettled'
    <2>1. CASE Connect
      <3>1. view' = "stream" /\ UNCHANGED <<got, cursor, seen, out, owed>>
        BY <2>1 DEF Connect
      <3>2. StreamSettled'
        BY <1>4, <1>5, <3>1 DEF StreamSettled
      <3>3. owed \subseteq Visible(FALSE)
        BY DEF FeedInv, ViewSettled
      <3>4. QED
        BY <1>3, <1>4, <1>5, <3>1, <3>2, <3>3 DEF ViewSettled
    <2>2. ASSUME NEW b \in BOOLEAN, OpenList(b) PROVE ViewSettled'
      <3>1. view' = "pages" /\ owed' = Visible(b) /\ UNCHANGED <<got, cursor, seen, out>>
        BY <2>2 DEF OpenList
      <3>2. PagesSettled'
        BY <1>4, <1>5, <3>1 DEF PagesSettled, Behind
      <3>3. QED
        BY <1>3, <1>4, <1>5, <3>1, <3>2 DEF ViewSettled
    <2>3. QED
      BY <2>1, <2>2
  <1>7. NothingTwice' /\ PagesComplete'
    BY <1>4, <1>5 DEF NothingTwice, PagesComplete, Connect, OpenList
  <1>8. QED
    BY <1>1, <1>2, <1>6, <1>7, ViewStep

\* A view closes: the invariant is kept.
LEMMA LeaveInv ==
  ASSUME FeedInv, Leave
  PROVE  FeedInv'
  <1>1. UNCHANGED noteVars /\ UNCHANGED markVars
    BY DEF Leave
  <1>2. ViewTypes'
    <2>1. ViewTypes
      BY DEF FeedInv, FeedTypeOK
    <2>2. <<>> \in Seq(Notes) /\ UNCHANGED visits
      BY DEF Leave
    <2>3. QED
      BY <2>1, <2>2 DEF ViewTypes, Leave
  <1>3. /\ view' = "none" /\ cursor' = None /\ got' = <<>>
        /\ owed' = {} /\ seen' = {} /\ out' = <<>>
    BY DEF Leave
  <1>4. Range(<<>>) = {} /\ IsInjective(<<>>)
    BY DEF Range, IsInjective
  <1>5. ViewSettled' /\ NothingTwice' /\ PagesComplete'
    BY <1>3, <1>4 DEF ViewSettled, NothingTwice, PagesComplete
  <1>6. QED
    BY <1>1, <1>2, <1>5, ViewStep

\* A sequence over S has its elements in S.
LEMMA RangeInside ==
  ASSUME NEW S, NEW s \in Seq(S)
  PROVE  Range(s) \subseteq S
  BY DEF Range

\* Two sequences in a row.
LEMMA ConcatRange ==
  ASSUME NEW S, NEW s \in Seq(S), NEW t \in Seq(S)
  PROVE  /\ s \o t \in Seq(S)
         /\ Range(s \o t) = Range(s) \cup Range(t)
         /\ IsInjective(s) /\ IsInjective(t) /\ Range(s) \cap Range(t) = {} =>
              IsInjective(s \o t)
  <1> DEFINE u == s \o t
  <1>1. /\ u \in Seq(S) /\ Len(u) = Len(s) + Len(t)
        /\ \A i \in 1 .. Len(s) : u[i] = s[i]
        /\ \A i \in 1 .. Len(t) : u[Len(s) + i] = t[i]
    OBVIOUS
  <1>2. /\ Len(s) \in Nat /\ Len(t) \in Nat /\ DOMAIN u = 1 .. Len(s) + Len(t)
        /\ DOMAIN s = 1 .. Len(s) /\ DOMAIN t = 1 .. Len(t)
    BY <1>1
  <1> HIDE DEF u
  <1>3. ASSUME NEW i \in DOMAIN u
        PROVE  \/ i \in 1 .. Len(s) /\ u[i] = s[i]
               \/ i - Len(s) \in 1 .. Len(t) /\ u[i] = t[i - Len(s)] /\ ~ (i \in 1 .. Len(s))
    <2>1. CASE i <= Len(s)
      BY <1>1, <1>2, <2>1
    <2>2. CASE ~ (i <= Len(s))
      <3>1. i - Len(s) \in 1 .. Len(t) /\ Len(s) + (i - Len(s)) = i
        BY <1>2, <2>2
      <3>2. u[Len(s) + (i - Len(s))] = t[i - Len(s)]
        BY <1>1, <3>1
      <3>3. QED
        BY <1>2, <2>2, <3>1, <3>2
    <2>3. QED
      BY <2>1, <2>2
  <1>4. Range(u) \subseteq Range(s) \cup Range(t)
    BY <1>2, <1>3 DEF Range
  <1>5. Range(s) \subseteq Range(u)
    <2>1. \A i \in 1 .. Len(s) : i \in DOMAIN u
      BY <1>2
    <2>2. QED
      BY <1>1, <1>2, <2>1 DEF Range
  <1>6. Range(t) \subseteq Range(u)
    <2>1. \A i \in 1 .. Len(t) : Len(s) + i \in DOMAIN u
      BY <1>2
    <2>2. QED
      BY <1>1, <1>2, <2>1 DEF Range
  <1>7. ASSUME IsInjective(s), IsInjective(t), Range(s) \cap Range(t) = {},
               NEW i \in DOMAIN u, NEW j \in DOMAIN u, u[i] = u[j]
        PROVE  i = j
    <2>1. CASE i \in 1 .. Len(s) /\ j \in 1 .. Len(s)
      BY <1>1, <1>2, <1>7, <2>1 DEF IsInjective
    <2>2. CASE ~ (i \in 1 .. Len(s)) /\ ~ (j \in 1 .. Len(s))
      <3>1. /\ i - Len(s) \in 1 .. Len(t) /\ u[i] = t[i - Len(s)]
            /\ j - Len(s) \in 1 .. Len(t) /\ u[j] = t[j - Len(s)]
        BY <1>3, <2>2
      <3>2. i - Len(s) = j - Len(s)
        BY <1>2, <1>7, <3>1 DEF IsInjective
      <3>3. QED
        BY <1>2, <3>2
    <2>3. CASE (i \in 1 .. Len(s)) # (j \in 1 .. Len(s))
      <3>1. u[i] \in Range(s) \cap Range(t)
        <4>1. CASE i \in 1 .. Len(s)
          BY <1>2, <1>3, <1>7, <2>3, <4>1 DEF Range
        <4>2. CASE ~ (i \in 1 .. Len(s))
          BY <1>2, <1>3, <1>7, <2>3, <4>2 DEF Range
        <4>3. QED
          BY <4>1, <4>2
      <3>2. QED
        BY <1>7, <3>1
    <2>4. QED
      BY <2>1, <2>2, <2>3
  <1>8. QED
    BY <1>1, <1>4, <1>5, <1>6, <1>7 DEF IsInjective, u

\* The page of a list, of the rows s that the query returned.
PageOf(s) == IF Len(s) > PageSize THEN SubSeq(s, 1, PageSize) ELSE s

\* The page has rows of those behind the cursor, each once, and all of them unless there is
\* another page; then it ends with a row that the others sort behind.
IsPage(page, rows, hasMore) ==
  /\ page \in Seq(rows) /\ IsInjective(page)
  /\ ~ hasMore => Range(page) = rows
  /\ hasMore =>
       /\ page[Len(page)] \in Range(page)
       /\ \A n \in Range(page) : ~ Before(n, page[Len(page)])
       /\ \A n \in rows : n \in Range(page) \/ Before(n, page[Len(page)])

\* The pages of list_notifications are such.
LEMMA PageIs ==
  ASSUME created \in [Notes -> Nat], NEW rows \in SUBSET Notes,
         NEW s, s = Newest(rows, PageSize + 1)
  PROVE  IsPage(PageOf(s), rows, Len(s) > PageSize)
  <1> DEFINE page == PageOf(s)
  <1>1. PageSize \in Nat \ {0}
    BY FeedAssumption
  <1>2. /\ s \in Seq(rows) /\ Len(s) \in Nat
        /\ Len(s) <= PageSize + 1
        /\ Len(s) < PageSize + 1 => Range(s) = rows
        /\ \A i, j \in 1 .. Len(s) : i < j => Before(s[j], s[i])
        /\ \A n \in rows \ Range(s) : \A i \in 1 .. Len(s) : Before(n, s[i])
    <2> DEFINE limit == PageSize + 1
    <2>1. limit \in Nat /\ s = Newest(rows, limit)
      BY <1>1
    <2> HIDE DEF limit
    <2>2. /\ s \in Seq(rows)
          /\ Len(s) <= limit
          /\ Len(s) < limit => Range(s) = rows
          /\ \A i, j \in 1 .. Len(s) : i < j => Before(s[j], s[i])
          /\ \A n \in rows \ Range(s) : \A i \in 1 .. Len(s) : Before(n, s[i])
      BY <2>1, NewestAre
    <2>3. QED
      BY <2>2 DEF limit
  <1>3. /\ page \in Seq(rows) /\ Len(page) \in Nat
        /\ Len(page) <= Len(s)
        /\ \A i \in 1 .. Len(page) : i \in 1 .. Len(s) /\ page[i] = s[i]
        /\ DOMAIN page = 1 .. Len(page)
        /\ Len(s) > PageSize => Len(page) = PageSize
    BY <1>1, <1>2 DEF PageOf
  <1> HIDE DEF page
  <1>4. \A i, j \in 1 .. Len(page) : i < j => Before(page[j], page[i])
    BY <1>2, <1>3
  <1>5. \A i \in 1 .. Len(page) : page[i] \in Notes
    BY <1>3
  <1>6. \A m, n \in Notes : ~ (Before(m, n) /\ Before(n, m))
    BY BeforeOrders
  <1>7. IsInjective(page)
    <2>1. SUFFICES ASSUME NEW i \in 1 .. Len(page), NEW j \in 1 .. Len(page), page[i] = page[j]
                   PROVE  i = j
      BY <1>3 DEF IsInjective
    <2>2. ~ (i < j) /\ ~ (j < i)
      BY <1>4, <1>5, <1>6, <2>1
    <2>3. QED
      BY <1>3, <2>2
  <1>8. CASE ~ (Len(s) > PageSize)
    <2>1. Len(s) < PageSize + 1
      BY <1>1, <1>2, <1>8
    <2>2. page = s
      BY <1>8 DEF PageOf, page
    <2>3. QED
      BY <1>2, <1>3, <1>7, <1>8, <2>1, <2>2 DEF IsPage, page
  <1>9. CASE Len(s) > PageSize
    <2> DEFINE last == Len(page)
    <2>1. last \in 1 .. Len(page) /\ last = PageSize /\ Len(s) = PageSize + 1
      BY <1>1, <1>2, <1>3, <1>9
    <2>2. page[last] \in Range(page)
      BY <1>3, <2>1 DEF Range
    <2>3. ASSUME NEW n \in Range(page) PROVE ~ Before(n, page[last])
      <3>1. PICK i \in 1 .. Len(page) : n = page[i]
        BY <1>3 DEF Range
      <3>2. i < last \/ i = last
        <4>1. last \in Nat /\ i \in 1 .. last
          BY <1>3, <3>1
        <4> HIDE DEF last
        <4>2. QED
          BY <4>1
      <3>3. QED
        BY <1>4, <1>5, <1>6, <2>1, <3>1, <3>2
    <2>4. ASSUME NEW n \in rows PROVE n \in Range(page) \/ Before(n, page[last])
      <3>1. CASE n \in Range(s)
        <4>1. PICK i \in 1 .. Len(s) : n = s[i]
          BY <1>2, <3>1 DEF Range
        <4>2. i \in 1 .. Len(page) \/ i = PageSize + 1
          BY <1>1, <1>2, <2>1
        <4>3. CASE i \in 1 .. Len(page)
          BY <1>3, <4>1, <4>3 DEF Range
        <4>4. CASE i = PageSize + 1
          <5>1. last < i /\ last \in 1 .. Len(s) /\ page[last] = s[last]
            BY <1>1, <1>3, <2>1, <4>4
          <5>2. Before(s[i], s[last])
            BY <1>2, <4>1, <5>1
          <5>3. QED
            BY <4>1, <5>1, <5>2
        <4>5. QED
          BY <4>2, <4>3, <4>4
      <3>2. CASE n \notin Range(s)
        BY <1>2, <1>3, <2>1, <3>2
      <3>3. QED
        BY <3>1, <3>2
    <2>5. QED
      BY <1>3, <1>7, <1>9, <2>2, <2>3, <2>4 DEF IsPage, page
  <1>10. QED
    BY <1>8, <1>9

\* A page is listed: the invariant is kept.
LEMMA ListPageInv ==
  ASSUME FeedInv, ListPage
  PROVE  FeedInv'
  <1> DEFINE avail == {n \in Visible(unread) : Behind(n, cursor)}
             s == Newest(avail, PageSize + 1)
             page == PageOf(s)
  <1>1. /\ view = "pages" /\ got' = got \o page
        /\ cursor' = NextCursor(page, Len(s) > PageSize)
        /\ view' = IF Len(s) > PageSize THEN "pages" ELSE "listed"
        /\ UNCHANGED <<noteVars, unread, owed, seen, out, visits, markVars>>
    BY DEF ListPage, PageOf
  <1>2. /\ created \in [Notes -> Nat] /\ unread \in BOOLEAN /\ cursor \in Notes \cup {None}
        /\ got \in Seq(Notes) /\ ViewTypes
    BY FeedAssumption DEF FeedInv, FeedTypeOK, RowTypes, ViewTypes
  <1>3. avail \subseteq Visible(FALSE) /\ Visible(FALSE) \subseteq Notes
    BY <1>2 DEF Visible
  <1>4. /\ page \in Seq(avail) /\ IsInjective(page)
        /\ ~ (Len(s) > PageSize) => Range(page) = avail
        /\ Len(s) > PageSize =>
             /\ page[Len(page)] \in Range(page)
             /\ \A n \in Range(page) : ~ Before(n, page[Len(page)])
             /\ \A n \in avail : n \in Range(page) \/ Before(n, page[Len(page)])
    <2>1. avail \in SUBSET Notes
      BY <1>3
    <2>2. s = Newest(avail, PageSize + 1)
      OBVIOUS
    <2> HIDE DEF avail, s
    <2>3. IsPage(page, avail, Len(s) > PageSize)
      BY <1>2, <2>1, <2>2, PageIs
    <2>4. QED
      BY <2>3 DEF IsPage
  <1>5. Range(page) \subseteq avail
    BY <1>4 DEF Range
  <1>6. /\ PagesSettled /\ IsInjective(got)
        /\ Range(got) \cup Range(out) \cup owed \cup ({cursor} \ {None}) \subseteq Visible(FALSE)
        /\ seen = {} /\ out = <<>>
    BY <1>1 DEF FeedInv, ViewSettled, NothingTwice
  <1>7. Range(got) \cap Range(page) = {}
    <2>1. CASE cursor = None
      BY <1>6, <2>1 DEF PagesSettled, Range
    <2>2. CASE cursor # None
      BY <1>5, <1>6, <2>2 DEF PagesSettled, Behind
    <2>3. QED
      BY <2>1, <2>2
  <1>8. \A n \in Visible(unread) : n \in avail \/ ~ Behind(n, cursor)
    OBVIOUS
  <1>9. \A n \in owed \cap Visible(unread) : n \in Range(got) \/ n \in avail
    BY <1>6 DEF PagesSettled
  <1>10. avail \in SUBSET Notes
    BY <1>3
  <1> HIDE DEF avail, s, page
  <1>11. /\ got' \in Seq(Notes) /\ IsInjective(got') /\ Range(got') = Range(got) \cup Range(page)
    <2>1. page \in Seq(Notes)
      BY <1>4, <1>10
    <2>2. QED
      BY <1>1, <1>2, <1>4, <1>6, <1>7, <2>1, ConcatRange
  <1>12. /\ Visible(FALSE)' = Visible(FALSE) /\ Visible(unread)' = Visible(unread)
         /\ \A m, n : Before(m, n)' <=> Before(m, n)
    BY <1>1 DEF Visible, Before, noteVars
  <1>13. CASE Len(s) > PageSize
    <2> DEFINE last == page[Len(page)]
    <2>1. view' = "pages" /\ cursor' = last /\ last \in Range(page) /\ last # None
      BY <1>1, <1>4, <1>5, <1>10, <1>13, FeedAssumption DEF NextCursor
    <2>2. ASSUME NEW n \in Range(got) PROVE ~ Before(n, last)
      <3>1. cursor # None /\ ~ Before(n, cursor)
        BY <1>6 DEF PagesSettled, Range
      <3>2. Before(last, cursor)
        BY <1>5, <2>1, <3>1 DEF avail, Behind
      <3>3. n \in Notes /\ last \in Notes /\ cursor \in Notes
        BY <1>2, <1>3, <1>5, <1>6, <1>10, <2>1, <3>1
      <3>4. n = cursor \/ Before(cursor, n)
        BY <1>2, <3>1, <3>3, BeforeOrders
      <3>5. Before(last, n)
        BY <1>2, <3>2, <3>3, <3>4, BeforeOrders
      <3>6. QED
        BY <1>2, <3>3, <3>5, BeforeOrders
    <2>3. \A n \in Range(got') : ~ Before(n, last)
      BY <1>4, <1>11, <1>13, <2>2
    <2>4. \A n \in owed \cap Visible(unread) : n \in Range(got') \/ Before(n, last)
      BY <1>4, <1>9, <1>11, <1>13
    <2> HIDE DEF last
    <2>5. PagesSettled'
      BY <1>1, <1>12, <2>1, <2>3, <2>4 DEF PagesSettled, Behind
    <2>6. ViewTypes'
      BY <1>1, <1>2, <1>5, <1>10, <1>11, <2>1 DEF ViewTypes
    <2>7. ViewSettled'
      <3>1. Range(got') \cup Range(out) \cup owed \cup {last} \subseteq Visible(FALSE)
        BY <1>3, <1>5, <1>6, <1>11, <2>1
      <3>2. view' = "pages" /\ cursor' = last /\ UNCHANGED <<seen, out, owed>>
        BY <1>1, <2>1
      <3>3. QED
        BY <1>6, <1>12, <2>5, <3>1, <3>2 DEF ViewSettled
    <2>8. NothingTwice' /\ PagesComplete'
      BY <1>11, <2>1 DEF NothingTwice, PagesComplete
    <2>9. QED
      BY <1>1, <2>6, <2>7, <2>8, ViewStep
  <1>14. CASE ~ (Len(s) > PageSize)
    <2>1. view' = "listed" /\ cursor' = None /\ Range(page) = avail
      BY <1>1, <1>4, <1>14 DEF NextCursor
    <2>2. ViewTypes'
      BY <1>1, <1>2, <1>11, <2>1 DEF ViewTypes
    <2>3. ViewSettled'
      BY <1>1, <1>3, <1>5, <1>6, <1>11, <1>12, <2>1 DEF ViewSettled
    <2>4. NothingTwice'
      BY <1>11 DEF NothingTwice
    <2>5. PagesComplete'
      BY <1>1, <1>9, <1>11, <1>12, <2>1 DEF PagesComplete
    <2>6. QED
      BY <1>1, <2>2, <2>3, <2>4, <2>5, ViewStep
  <1>15. QED
    BY <1>13, <1>14

\* The stream asks for rows: the invariant is kept.
LEMMA PollInv ==
  ASSUME FeedInv, Poll
  PROVE  FeedInv'
  <1> DEFINE newest == Newest(Visible(TRUE), Window)
             rows == Range(newest) \ seen
  <1>1. /\ view = "stream" /\ out' = Ordered(rows)
        /\ UNCHANGED <<noteVars, view, unread, cursor, got, owed, seen, visits, markVars>>
    BY DEF Poll, Polling
  <1>2. created \in [Notes -> Nat] /\ ViewTypes
    BY FeedAssumption DEF FeedInv, FeedTypeOK, RowTypes
  <1>3. Range(newest) \subseteq Visible(TRUE)
    <2>1. Visible(TRUE) \in SUBSET Notes /\ Window \in Nat
      BY FeedAssumption DEF Visible
    <2>2. newest = Newest(Visible(TRUE), Window)
      OBVIOUS
    <2> HIDE DEF newest
    <2>3. newest \in Seq(Visible(TRUE))
      BY <1>2, <2>1, <2>2, NewestAre
    <2>4. QED
      BY <2>3, RangeInside
  <1>4. rows \in SUBSET Notes /\ rows \subseteq Visible(FALSE) /\ rows \cap seen = {}
    BY <1>3 DEF Visible
  <1> HIDE DEF rows
  <1>5. Lists(out', rows)
    BY <1>1, <1>2, <1>4, OrderedLists
  <1>6. out' \in Seq(Notes) /\ Range(out') = rows
    <2>1. Cardinality(rows) \in Nat
      BY <1>4, FeedAssumption, FS_Subset, FS_CardinalityType
    <2>2. QED
      BY <1>4, <1>5, <2>1 DEF Lists
  <1>7. IsInjective(out')
    <2>1. SUFFICES ASSUME NEW i \in 1 .. Cardinality(rows), NEW j \in 1 .. Cardinality(rows),
                          out'[i] = out'[j]
                   PROVE  i = j
      BY <1>5 DEF Lists, IsInjective
    <2>2. /\ i < j => Before(out'[j], out'[i])
          /\ j < i => Before(out'[i], out'[j])
          /\ out'[i] \in Notes
      BY <1>4, <1>5 DEF Lists
    <2>3. ~ (i < j) /\ ~ (j < i)
      BY <1>2, <2>1, <2>2, BeforeOrders
    <2>4. QED
      BY <2>3
  <1>8. Visible(FALSE)' = Visible(FALSE)
    BY <1>1 DEF Visible, noteVars
  <1>9. /\ StreamSettled /\ cursor = None
        /\ Range(got) \cup Range(out) \cup owed \cup ({cursor} \ {None}) \subseteq Visible(FALSE)
    BY <1>1 DEF FeedInv, ViewSettled
  <1>10. StreamSettled'
    BY <1>1, <1>4, <1>6, <1>7, <1>9 DEF StreamSettled
  <1>11. ViewTypes'
    BY <1>1, <1>2, <1>6 DEF ViewTypes
  <1>12. ViewSettled'
    BY <1>1, <1>4, <1>6, <1>8, <1>9, <1>10 DEF ViewSettled
  <1>13. NothingTwice' /\ PagesComplete'
    BY <1>1 DEF FeedInv, NothingTwice, PagesComplete
  <1>14. QED
    BY <1>1, <1>11, <1>12, <1>13, ViewStep

\* The stream sends a row: the invariant is kept.
LEMMA EmitInv ==
  ASSUME FeedInv, Emit
  PROVE  FeedInv'
  <1> DEFINE head == Head(out)
  <1>1. /\ view = "stream" /\ out # <<>> /\ got' = Append(got, head)
        /\ seen' = seen \cup {head} /\ out' = Tail(out)
        /\ UNCHANGED <<noteVars, view, unread, cursor, owed, visits, markVars>>
    BY DEF Emit, Emitting
  <1>2. ViewTypes /\ got \in Seq(Notes) /\ out \in Seq(Notes)
    BY DEF FeedInv, FeedTypeOK, ViewTypes
  <1>3. /\ Range(got) = seen /\ Range(out) \cap seen = {} /\ IsInjective(out)
        /\ IsInjective(got) /\ cursor = None
        /\ Range(got) \cup Range(out) \cup owed \cup ({cursor} \ {None}) \subseteq Visible(FALSE)
    BY <1>1 DEF FeedInv, ViewSettled, StreamSettled, NothingTwice
  <1>4. /\ head \in Notes /\ head = out[1] /\ Len(out) \in Nat /\ 1 \in 1 .. Len(out)
        /\ Tail(out) \in Seq(Notes) /\ Len(Tail(out)) = Len(out) - 1
        /\ \A i \in 1 .. Len(out) - 1 : Tail(out)[i] = out[i + 1]
        /\ DOMAIN out = 1 .. Len(out) /\ DOMAIN Tail(out) = 1 .. Len(out) - 1
    BY <1>1, <1>2
  <1>5. head \in Range(out)
    BY <1>4 DEF Range
  <1>6. /\ got' \in Seq(Notes) /\ Range(got') = Range(got) \cup {head} /\ IsInjective(got')
    <2> DEFINE event == <<head>>
    <2>1. event \in Seq(Notes) /\ Range(event) = {head} /\ IsInjective(event)
      BY <1>4 DEF Range, IsInjective
    <2>2. got' = got \o event
      BY <1>1, <1>2, <1>4
    <2> HIDE DEF head, event
    <2>3. QED
      BY <1>2, <1>3, <1>5, <2>1, <2>2, ConcatRange
  <1> HIDE DEF head
  <1>7. out' \in Seq(Notes) /\ Range(out') \subseteq Range(out) \ {head} /\ IsInjective(out')
    <2>1. \A i \in 1 .. Len(out) - 1 : i + 1 \in 1 .. Len(out) /\ i + 1 # 1
      BY <1>4
    <2>2. \A i \in 1 .. Len(out) - 1 : out[i + 1] # head /\ out[i + 1] \in Range(out)
      BY <1>3, <1>4, <2>1 DEF IsInjective, Range
    <2>3. Range(Tail(out)) \subseteq Range(out) \ {head}
      BY <1>4, <2>2 DEF Range
    <2>4. ASSUME NEW i \in 1 .. Len(out) - 1, NEW j \in 1 .. Len(out) - 1,
                 Tail(out)[i] = Tail(out)[j]
          PROVE  i = j
      <3>1. i + 1 = j + 1
        BY <1>3, <1>4, <2>1, <2>4 DEF IsInjective
      <3>2. QED
        BY <3>1
    <2>5. IsInjective(Tail(out))
      BY <1>4, <2>4 DEF IsInjective
    <2>6. QED
      BY <1>1, <1>4, <2>3, <2>5
  <1>8. Visible(FALSE)' = Visible(FALSE)
    BY <1>1 DEF Visible, noteVars
  <1>9. StreamSettled'
    BY <1>1, <1>3, <1>6, <1>7 DEF StreamSettled
  <1>10. ViewTypes'
    BY <1>1, <1>2, <1>4, <1>6, <1>7 DEF ViewTypes
  <1>11. ViewSettled'
    BY <1>1, <1>3, <1>5, <1>6, <1>7, <1>8, <1>9 DEF ViewSettled
  <1>12. NothingTwice' /\ PagesComplete'
    BY <1>1, <1>6 DEF NothingTwice, PagesComplete
  <1>13. QED
    BY <1>1, <1>10, <1>11, <1>12, ViewStep

-----------------------------------------------------------------------------
\* What a request to mark does leaves the views alone, and the other requests.
LEMMA MarkStep ==
  ASSUME FeedInv, NEW r \in Marks,
         RowTypes', MarkTypes', UNCHANGED viewVars,
         UNCHANGED <<now, state, created>>, \A n \in Notes : read[n] => read'[n],
         \A q \in Marks \ {r} : /\ target'[q] = target[q] /\ phase'[q] = phase[q]
                               /\ at'[q] = at[q] /\ known'[q] = known[q] /\ reply'[q] = reply[q],
         MarkSettled(r)'
  PROVE  FeedInv'
  <1>1. RowsKept
    BY DEF RowsKept, Visible
  <1>2. ViewSettled' /\ NothingTwice' /\ PagesComplete'
    BY <1>1, ViewKept
  <1>3. \A q \in Marks \ {r} : MarkSettled(q)'
    BY <1>1, MarkKept
  <1>4. FeedTypeOK' /\ RowsSettled'
    BY DEF FeedInv, FeedTypeOK, ViewTypes, RowsSettled, viewVars
  <1>5. QED
    BY <1>2, <1>3, <1>4 DEF FeedInv

\* mark_read loads its row: the invariant is kept.
LEMMA LoadOneInv ==
  ASSUME FeedInv, NEW r \in Marks, NEW n \in Notes, LoadOne(r, n)
  PROVE  FeedInv'
  <1>1. RowTypes /\ MarkTypes /\ MarkSettled(r)
    BY DEF FeedInv, FeedTypeOK
  <1>2. UNCHANGED <<noteVars, viewVars, at, known>>
    BY DEF LoadOne
  <1>3. RowTypes' /\ MarkTypes'
    BY <1>1, <1>2 DEF RowTypes, MarkTypes, LoadOne, noteVars
  <1>4. /\ target'[r] = n /\ n # All
        /\ \/ phase'[r] = "done" /\ reply'[r] = "ok"
           \/ phase'[r] = "loaded" /\ reply'[r] = "none"
    BY <1>1, FeedAssumption DEF MarkTypes, LoadOne
  <1>5. MarkSettled(r)'
    BY <1>1, <1>2, <1>4 DEF MarkSettled, Visible, noteVars
  <1>6. \A q \in Marks \ {r} : /\ target'[q] = target[q] /\ phase'[q] = phase[q]
                              /\ at'[q] = at[q] /\ known'[q] = known[q] /\ reply'[q] = reply[q]
    BY <1>1 DEF MarkTypes, LoadOne
  <1>7. QED
    BY <1>2, <1>3, <1>5, <1>6, MarkStep DEF noteVars

\* mark_all_read takes its read_at: the invariant is kept.
LEMMA BeginAllInv ==
  ASSUME FeedInv, NEW r \in Marks, BeginAll(r)
  PROVE  FeedInv'
  <1>1. RowTypes /\ MarkTypes /\ MarkSettled(r) /\ RowsSettled
    BY DEF FeedInv, FeedTypeOK
  <1>2. UNCHANGED <<noteVars, viewVars, reply>>
    BY DEF BeginAll
  <1>3. RowTypes' /\ MarkTypes'
    <2>1. Visible(FALSE) \subseteq Notes
      BY DEF Visible
    <2>2. QED
      BY <1>1, <1>2, <2>1 DEF RowTypes, MarkTypes, BeginAll, noteVars
  <1>4. /\ phase[r] = "new" /\ target'[r] = All /\ phase'[r] = "update"
        /\ at'[r] = now /\ known'[r] = Visible(FALSE)
    BY <1>1 DEF MarkTypes, BeginAll
  <1>5. MarkSettled(r)'
    <2>1. Visible(FALSE)' = Visible(FALSE) /\ Visible(FALSE) \subseteq Notes
      BY <1>2 DEF Visible, noteVars
    <2>2. reply[r] = "none" /\ reply' = reply /\ created' = created
      BY <1>1, <1>2, <1>4 DEF MarkSettled, noteVars
    <2>3. \A n \in Visible(FALSE) : created[n] <= now
      BY <1>1, <2>1 DEF RowsSettled
    <2>4. QED
      BY <1>4, <2>1, <2>2, <2>3 DEF MarkSettled
  <1>6. \A q \in Marks \ {r} : /\ target'[q] = target[q] /\ phase'[q] = phase[q]
                              /\ at'[q] = at[q] /\ known'[q] = known[q] /\ reply'[q] = reply[q]
    BY <1>1, <1>2 DEF MarkTypes, BeginAll
  <1>7. QED
    BY <1>2, <1>3, <1>5, <1>6, MarkStep DEF noteVars

\* mark_read commits: the invariant is kept.
LEMMA CommitReadInv ==
  ASSUME FeedInv, NEW r \in Marks, CommitRead(r)
  PROVE  FeedInv'
  <1>1. RowTypes /\ MarkTypes /\ MarkSettled(r)
    BY DEF FeedInv, FeedTypeOK
  <1>2. /\ UNCHANGED <<now, state, created, viewVars, target, at, known>>
        /\ phase[r] = "loaded"
    BY DEF CommitRead, Answer
  <1>3. phase'[r] = "done" /\ reply'[r] = "ok"
    BY <1>1 DEF MarkTypes, CommitRead, Answer
  <1>4. target[r] \in Notes /\ target[r] # All
    BY <1>1, <1>2, FeedAssumption DEF MarkSettled
  <1>5. RowTypes' /\ MarkTypes' /\ \A n \in Notes : read[n] => read'[n]
    BY <1>1, <1>2, <1>4 DEF RowTypes, MarkTypes, CommitRead, Answer
  <1>6. MarkSettled(r)'
    BY <1>1, <1>2, <1>3, <1>4 DEF MarkSettled, Visible
  <1>7. \A q \in Marks \ {r} : /\ target'[q] = target[q] /\ phase'[q] = phase[q]
                              /\ at'[q] = at[q] /\ known'[q] = known[q] /\ reply'[q] = reply[q]
    BY <1>1, <1>2 DEF MarkTypes, CommitRead, Answer
  <1>8. QED
    BY <1>2, <1>5, <1>6, <1>7, MarkStep

\* mark_all_read updates: the invariant is kept.
LEMMA MarkAllReadInv ==
  ASSUME FeedInv, NEW r \in Marks, MarkAllRead(r)
  PROVE  FeedInv'
  <1> DEFINE rows == Visible(TRUE)
  <1>1. RowTypes /\ MarkTypes /\ MarkSettled(r)
    BY DEF FeedInv, FeedTypeOK
  <1>2. /\ UNCHANGED <<now, state, created, viewVars, target, at, known>>
        /\ phase[r] = "update" /\ phase'[r] = "done"
    BY <1>1 DEF MarkAllRead, Update, Answer, MarkTypes
  <1>3. /\ target[r] = All /\ known[r] \subseteq Visible(FALSE)
        /\ \A n \in known[r] : created[n] <= at[r]
    BY <1>1, <1>2 DEF MarkSettled
  <1>4. created \in [Notes -> Nat] /\ at[r] \in Nat
    BY <1>1, FeedAssumption DEF RowTypes, MarkTypes
  <1>5. Visible(FALSE)' = Visible(FALSE)
    BY <1>2 DEF Visible
  <1>6. \A q \in Marks \ {r} : /\ target'[q] = target[q] /\ phase'[q] = phase[q]
                              /\ at'[q] = at[q] /\ known'[q] = known[q] /\ reply'[q] = reply[q]
    BY <1>1, <1>2 DEF MarkTypes, MarkAllRead, Update, Answer
  <1>7. CASE ReadAtValid(rows, at[r])
    <2>1. read' = [n \in Notes |-> read[n] \/ n \in rows] /\ reply' = [reply EXCEPT ![r] = "ok"]
      BY <1>7 DEF MarkAllRead, Update, Answer
    <2>2. reply'[r] = "ok" /\ MarkTypes'
      BY <1>1, <1>2, <2>1 DEF MarkTypes, MarkAllRead, Update, Answer
    <2>3. RowTypes'
      <3>1. read' \in [Notes -> BOOLEAN]
        BY <2>1
      <3>2. QED
        BY <1>1, <1>2, <3>1 DEF RowTypes
    <2>4. \A n \in Notes : read[n] \/ n \in rows => read'[n]
      BY <2>1
    <2>5. \A n \in known[r] : read'[n]
      BY <1>3, <2>4 DEF Visible
    <2>6. MarkSettled(r)'
      BY <1>2, <1>3, <1>5, <2>2, <2>5 DEF MarkSettled
    <2>7. QED
      BY <1>2, <1>6, <2>2, <2>3, <2>4, <2>6, MarkStep
  <1>8. CASE ~ ReadAtValid(rows, at[r])
    <2>1. read' = read /\ reply' = [reply EXCEPT ![r] = "error"]
      BY <1>8 DEF MarkAllRead, Update, Answer
    <2>2. reply'[r] = "error" /\ MarkTypes' /\ RowTypes'
      BY <1>1, <1>2, <2>1 DEF RowTypes, MarkTypes, MarkAllRead, Update, Answer
    <2>3. PICK n \in rows : ~ (created[n] <= at[r])
      BY <1>8 DEF ReadAtValid
    <2>4. n \in Visible(FALSE) \ known[r] /\ created[n] > at[r]
      BY <1>3, <1>4, <2>3 DEF Visible
    <2>5. MarkSettled(r)'
      BY <1>2, <1>3, <1>5, <2>2, <2>4 DEF MarkSettled
    <2>6. QED
      BY <1>2, <1>6, <2>1, <2>2, <2>5, MarkStep
  <1>9. QED
    BY <1>7, <1>8

-----------------------------------------------------------------------------
\* The invariant holds to begin with.
LEMMA FeedInitInv == FeedInit => FeedInv
  <1> SUFFICES ASSUME FeedInit PROVE FeedInv
    OBVIOUS
  <1>1. RowTypes /\ MarkTypes /\ RowsSettled
    BY FeedAssumption DEF FeedInit, RowTypes, MarkTypes, RowsSettled
  <1>2. Range(<<>>) = {} /\ IsInjective(<<>>) /\ <<>> \in Seq(Notes)
    BY DEF Range, IsInjective
  <1>3. ViewTypes /\ ViewSettled /\ NothingTwice /\ PagesComplete
    <2>1. /\ view = "none" /\ unread = FALSE /\ cursor = None /\ visits = 0 /\ MaxVisits \in Nat
          /\ got = <<>> /\ owed = {} /\ seen = {} /\ out = <<>>
      BY FeedAssumption DEF FeedInit
    <2>2. ViewTypes
      <3>1. unread \in BOOLEAN /\ got \in Seq(Notes) /\ out \in Seq(Notes)
        BY <1>2, <2>1, Zenon
      <3>2. visits \in 0 .. MaxVisits
        BY <2>1
      <3>3. QED
        BY <2>1, <3>1, <3>2 DEF ViewTypes
    <2>3. ViewSettled /\ NothingTwice /\ PagesComplete
      BY <1>2, <2>1 DEF ViewSettled, NothingTwice, PagesComplete
    <2>4. QED
      BY <2>2, <2>3
  <1>4. \A r \in Marks : MarkSettled(r)
    BY DEF FeedInit, MarkSettled
  <1>5. QED
    BY <1>1, <1>3, <1>4 DEF FeedInv, FeedTypeOK

\* Every step keeps the invariant.
LEMMA FeedStepInv == FeedInv /\ [FeedNext]_feedVars => FeedInv'
  <1> SUFFICES ASSUME FeedInv, [FeedNext]_feedVars PROVE FeedInv'
    OBVIOUS
  <1>1. CASE UNCHANGED feedVars
    <2>1. UNCHANGED noteVars /\ UNCHANGED viewVars /\ UNCHANGED markVars
      BY <1>1 DEF feedVars
    <2>2. RowsKept
      BY <2>1 DEF RowsKept, Visible, noteVars
    <2>3. ViewTypes'
      BY <2>1 DEF FeedInv, FeedTypeOK, ViewTypes, viewVars
    <2>4. QED
      BY <2>1, <2>2, <2>3, ViewKept, ViewStep
  <1>2. CASE Later \/ \E n \in Notes : \/ Create(n) \/ EndCreate(n, "stored")
                                      \/ EndCreate(n, "dropped")
    BY <1>2, RowsInv
  <1>3. CASE Connect \/ \E unreadOnly \in BOOLEAN : OpenList(unreadOnly)
    BY <1>3, OpenInv
  <1>4. CASE ListPage \/ Poll \/ Emit \/ Leave
    BY <1>4, ListPageInv, PollInv, EmitInv, LeaveInv
  <1>5. CASE \E r \in Marks : \/ \E n \in Ask[r] \cap Notes : LoadOne(r, n)
                            \/ CommitRead(r) \/ BeginAll(r) \/ MarkAllRead(r)
    BY <1>5, LoadOneInv, CommitReadInv, BeginAllInv, MarkAllReadInv
  <1>6. QED
    BY <1>1, <1>2, <1>3, <1>4, <1>5 DEF FeedNext

\* The invariant holds in every reachable state.
THEOREM FeedInvariance == FeedSpec => []FeedInv
  BY FeedInitInv, FeedStepInv, PTL DEF FeedSpec

\* Rows, views and requests keep their types.
THEOREM FeedTypeCorrect == FeedSpec => []FeedTypeOK
  <1>1. FeedInv => FeedTypeOK
    BY DEF FeedInv
  <1>2. QED
    BY <1>1, FeedInvariance, PTL

\* Neither the pages of a list nor the events of a stream bring a notification twice,
\* whatever is created, committed late and marked in between (list_notifications,
\* notification_sse_stream).
THEOREM NeverTwice == FeedSpec => []NothingTwice
  <1>1. FeedInv => NothingTwice
    BY DEF FeedInv
  <1>2. QED
    BY <1>1, FeedInvariance, PTL

\* The pages of a list bring what was there when it was opened and still is
\* (apply_notification_cursor), for any size of the pages and any ties of created_at.
THEOREM PagesBringAll == FeedSpec => []PagesComplete
  <1>1. FeedInv => PagesComplete
    BY DEF FeedInv
  <1>2. QED
    BY <1>1, FeedInvariance, PTL

\* POST /read-all leaves nothing unread that was stored when it came in, and fails only over
\* a notification that was not (mark_all_read and the table's constraint on read_at).
THEOREM ReadAllCovers == FeedSpec => []MarkAllCovers
  <1>1. FeedInv => MarkAllCovers
    <2> SUFFICES ASSUME FeedInv, NEW r \in Marks
                 PROVE  /\ target[r] = All /\ reply[r] = "ok" => \A n \in known[r] : read[n]
                        /\ reply[r] = "error" => \E n \in Notes \ known[r] : created[n] > at[r]
      BY DEF MarkAllCovers
    <2>1. MarkSettled(r) /\ Visible(FALSE) \subseteq Notes
      BY DEF FeedInv, Visible
    <2>2. QED
      BY <2>1 DEF MarkSettled
  <1>2. QED
    BY <1>1, FeedInvariance, PTL
=============================================================================
