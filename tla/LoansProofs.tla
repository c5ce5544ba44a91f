---------------------------- MODULE LoansProofs ----------------------------
(***************************************************************************)
(* What holds of loans for any requests, records, accounts and amounts,    *)
(* however their handlers overlap.                                         *)
(*                                                                         *)
(* LoansInv is inductive: what a handler has read is what the database     *)
(* holds unless it is marked stale, so that a commit which is not          *)
(* overtaken checked the sum of settlements and writes back what adds up.  *)
(* One lemma shows that a commit marks for the other handlers whatever it  *)
(* changes of what they have read, one that a step which writes no row     *)
(* leaves the rows' conjuncts alone; then each action has a lemma, which   *)
(* also accounts for any drift of an adjustment.                           *)
(***************************************************************************)
EXTENDS Loans, Sums

-----------------------------------------------------------------------------
\* The shapes of commands and rows

\* What a command says of itself by its operation.
LEMMA LoanCommandShape ==
  ASSUME NEW c \in CommandSet
  PROVE  /\ c.op \in {"create", "edit", "settle", "archive"}
         /\ c.op = "create" => /\ c.direction \in Direction
                               /\ c.principal \in Amount
                               /\ c.account \in Accounts
         /\ c.op # "create" => c.record \in Records
         /\ c.op = "edit" => /\ c.direction \in Direction \cup {Keep}
                             /\ c.principal \in Amount \cup {Keep}
                             /\ c.account \in Accounts \cup {Keep}
         /\ c.op = "settle" => c.account \in Accounts /\ c.amount \in Amount
  <1>1. c.op \in {"create", "edit", "settle", "archive"}
    BY SMTT(30) DEF CommandSet
  <1>2. c.op = "create" => /\ c.direction \in Direction
                           /\ c.principal \in Amount
                           /\ c.account \in Accounts
    BY SMTT(30) DEF CommandSet
  <1>3. c.op # "create" => c.record \in Records
    BY SMTT(30) DEF CommandSet
  <1>4. c.op = "edit" => /\ c.direction \in Direction \cup {Keep}
                         /\ c.principal \in Amount \cup {Keep}
                         /\ c.account \in Accounts \cup {Keep}
    BY SMTT(30) DEF CommandSet
  <1>5. c.op = "settle" => c.account \in Accounts /\ c.amount \in Amount
    BY SMTT(30) DEF CommandSet
  <1>6. QED
    BY <1>1, <1>2, <1>3, <1>4, <1>5

\* What a record does to an account is an integer, and nothing outside its own account.
LEMMA OnInt ==
  ASSUME NEW row \in RecordRows \cup {NoRow}, NEW a
  PROVE  On(row, a) \in Int
  BY LoansAssumption DEF On, Effect, BalanceEffect, RecordRows, Amount

\* An edit makes a row of a row.
LEMMA PatchedShape ==
  ASSUME NEW r \in Requests, seen[r] \in RecordRows, cmd[r] \in CommandSet,
         cmd[r].op = "edit"
  PROVE  /\ Patched(r) \in RecordRows
         /\ Patched(r).status = seen[r].status
         /\ Patched(r).account \in {seen[r].account, cmd[r].account} \ {Keep}
  <1>1. /\ cmd[r].direction \in Direction \cup {Keep}
        /\ cmd[r].principal \in Amount \cup {Keep}
        /\ cmd[r].account \in Accounts \cup {Keep}
    BY LoanCommandShape
  <1>2. QED
    BY <1>1, LoansAssumption DEF Patched, RecordRows

\* The settled amount is a natural number.
LEMMA SettledNat ==
  ASSUME TypeOK, NEW x
  PROVE  /\ SettledAmount(x) \in Nat
         /\ \A s \in Requests : Settlements(x)[s] \in Nat
  <1>1. \A s \in Requests : Settlements(x)[s] \in Nat
    BY LoansAssumption DEF TypeOK, Settlements, SettlementRows, Amount
  <1>2. IsFiniteSet(Requests)
    BY LoansAssumption
  <1>3. SumFunctionOnSet(Settlements(x), Requests) \in Nat
    BY <1>1, <1>2, SumNat
  <1>4. QED
    BY <1>1, <1>3 DEF SettledAmount

\* A handler needs only accounts.
LEMMA NeedsAccounts ==
  ASSUME TypeOK, ReadsHold, NEW r \in Requests, pc[r] \in {"accounts", "commit"}
  PROVE  Needs(r) \subseteq Accounts
  <1>1. cmd[r] \in CommandSet
    BY DEF ReadsHold, Reads, Active
  <1>2. CASE cmd[r].op = "create"
    BY <1>1, <1>2, LoanCommandShape DEF Needs
  <1>3. CASE cmd[r].op = "archive"
    BY <1>3 DEF Needs
  <1>4. CASE cmd[r].op = "settle"
    BY <1>1, <1>4, LoanCommandShape DEF Needs
  <1>5. CASE cmd[r].op = "edit"
    <2>1. seen[r] # NoRow
      BY <1>5 DEF ReadsHold, Reads
    <2>2. seen[r].account \in Accounts \cup {NoAccount}
      BY <2>1 DEF TypeOK, RecordRows
    <2>3. cmd[r].account \in Accounts \cup {Keep}
      BY <1>1, <1>5, LoanCommandShape
    <2>4. QED
      BY <1>5, <2>2, <2>3 DEF Needs
  <1>6. QED
    BY <1>1, <1>2, <1>3, <1>4, <1>5, LoanCommandShape

-----------------------------------------------------------------------------
\* What a step leaves alone

\* What the properties say of one record.
Sound(x) ==
  record[x] # NoRow =>
    /\ SettledAmount(x) <= record[x].principal
    /\ record[x].status # "archived" =>
         (record[x].status = "settled" <=> SettledAmount(x) = record[x].principal)

\* The two properties of records are those of each record that is not raced.
LEMMA SoundRecords ==
  SettledWithinPrincipal /\ StatusFollowsSettlements <=> \A x \in Records \ raced : Sound(x)
  BY DEF SettledWithinPrincipal, StatusFollowsSettlements, Sound

\* A step that writes no record, settlement or adjustment keeps what is said of them.
LEMMA RowsLeft ==
  ASSUME RowsHold, SettledWithinPrincipal, StatusFollowsSettlements,
         UNCHANGED <<record, settlement, adjustment, raced>>,
         \A r \in Requests : pc[r] = "done" => pc'[r] = "done"
  PROVE  /\ RowsHold' /\ SettledWithinPrincipal' /\ StatusFollowsSettlements'
         /\ OnlyRacesDrift
  <1>1. RowsHold'
    BY DEF RowsHold
  <1>2. SettledWithinPrincipal' /\ StatusFollowsSettlements'
    BY DEF SettledWithinPrincipal, StatusFollowsSettlements, SettledAmount, Settlements
  <1>3. OnlyRacesDrift
    BY DEF OnlyRacesDrift, Drift, ByRecord, BySettlement
  <1>4. QED
    BY <1>1, <1>2, <1>3

\* y is the record a commit of r writes, and the step writes nothing of other handlers but
\* what is stale to them.
Commits(r, y) ==
  /\ pc[r] \in {"accounts", "commit"}
  /\ pc' = [pc EXCEPT ![r] = "done"]
  /\ UNCHANGED <<usable, cmd, seen, base, settled>>
  /\ IF cmd[r].op = "create" THEN y = r ELSE y = cmd[r].record
  /\ y \in Records
  /\ record'[y] # NoRow
  /\ \A x \in Records \ {y} : record'[x] = record[x]
  /\ \A s \in Requests \ {r} : settlement'[s] = settlement[s]
  /\ settlement'[r] = NoRow \/ settlement'[r].record = y
  /\ Overtake(r)

\* A commit that writes rows and sums of the right shape keeps the types.
LEMMA CommitTypes ==
  ASSUME TypeOK, NEW r \in Requests, NEW y, Commits(r, y),
         record' \in [Records -> RecordRows \cup {NoRow}],
         settlement' \in [Requests -> SettlementRows \cup {NoRow}],
         adjustment' \in [Accounts -> Int],
         reply' = [reply EXCEPT ![r] = "ok"], raced' \subseteq Records
  PROVE  TypeOK'
  <1>1. stale' \in [Requests -> SUBSET (Records \cup Accounts)]
    <2>1. Changed \subseteq Records \cup Accounts
      BY DEF Changed
    <2>2. \A q \in Requests : stale[q] \subseteq Records \cup Accounts
      BY DEF TypeOK
    <2>3. stale' = [q \in Requests |->
                      IF q = r THEN {} ELSE stale[q] \cup (Known(q) \cap Changed)]
      BY DEF Commits, Overtake
    <2> HIDE DEF Changed
    <2>4. QED
      BY <2>1, <2>2, <2>3
  <1>2. /\ pc' = [pc EXCEPT ![r] = "done"] /\ pc[r] # "done"
        /\ UNCHANGED <<usable, cmd, seen, base, settled>>
    BY DEF Commits
  <1>3. \A q \in Requests : reply'[q] = "none" <=> pc'[q] # "done"
    BY <1>2 DEF TypeOK
  <1>4. /\ pc' \in [Requests -> {"new", "record", "accounts", "commit", "done"}]
        /\ reply' \in [Requests -> {"none", "ok", "rejected", "error"}]
    BY <1>2 DEF TypeOK
  <1>5. QED
    BY <1>1, <1>2, <1>3, <1>4 DEF TypeOK

\* Settlements of another record are as many as before, and so are those of one that a
\* commit does not change.
LEMMA OthersSettled ==
  ASSUME RowsHold, NEW r \in Requests, NEW y, Commits(r, y), NEW x \in Records,
         x # y \/ x \notin Changed
  PROVE  SettledAmount(x)' = SettledAmount(x)
  <1>1. settlement[r] = NoRow
    BY DEF Commits, RowsHold
  <1>2. \A s \in Requests :
          (settlement'[s] # NoRow /\ settlement'[s].record = x)
            => settlement[s] = settlement'[s]
    BY DEF Commits, Changed
  <1>3. \A s \in Requests :
          (settlement[s] # NoRow /\ settlement[s].record = x)
            => settlement[s] = settlement'[s]
    BY <1>1 DEF Commits
  <1>4. Settlements(x)' = Settlements(x)
    BY <1>2, <1>3 DEF Settlements
  <1>5. QED
    BY <1>4 DEF SettledAmount

\* What a commit changes of what another handler has read is stale to that handler.
LEMMA Overtaken ==
  ASSUME NEW r \in Requests, Overtake(r), NEW q \in Requests \ {r},
         pc[q] \in {"accounts", "commit"}
  PROVE  /\ stale[q] \subseteq stale'[q]
         /\ cmd[q].op # "create" /\ cmd[q].record \notin stale'[q] =>
              cmd[q].record \notin Changed
         /\ \A a \in DOMAIN base[q] : a \notin stale'[q] => a \notin Changed
  <1>1. stale'[q] = stale[q] \cup (Known(q) \cap Changed)
    BY DEF Overtake
  <1>2. DOMAIN base[q] \subseteq Known(q)
    BY DEF Known
  <1>3. cmd[q].op # "create" => cmd[q].record \in Known(q)
    BY DEF Known
  <1>4. QED
    BY <1>1, <1>2, <1>3

\* What the other handlers have read stays true where a commit does not make it stale.
LEMMA OthersHold ==
  ASSUME TypeOK, ReadsHold, CommitsHold, RowsHold,
         NEW r \in Requests, NEW y, Commits(r, y)
  PROVE  ReadsHold' /\ CommitsHold'
  <1>1. pc'[r] = "done" /\ UNCHANGED <<cmd, seen, base, settled>>
    BY DEF Commits, TypeOK
  <1>2. Reads(r)'
    BY <1>1 DEF Reads, Active
  <1>3. ASSUME NEW q \in Requests \ {r}
        PROVE  Reads(q)' /\ (pc'[q] = "commit" => Ready(q)')
    <2>1. pc'[q] = pc[q] /\ Reads(q) /\ (pc[q] = "commit" => Ready(q))
      BY DEF Commits, TypeOK, ReadsHold, CommitsHold
    <2>2. Needs(q)' = Needs(q) /\ Patched(q)' = Patched(q) /\ Active(q)' = Active(q)
      BY <1>1, <2>1 DEF Needs, Patched, Active
    <2>3. \A x \in Records : record[x] # NoRow => record'[x] # NoRow
      BY DEF Commits
    <2>4. Active(q) /\ cmd[q].op # "create" => cmd[q].record \in Records
      BY <2>1, LoanCommandShape DEF Reads
    <2>5. \A x \in Records : x \notin Changed => record'[x] = record[x]
      BY DEF Changed
    <2>6. \A a \in Accounts : a \notin Changed => adjustment'[a] = adjustment[a]
      BY DEF Changed
    <2>7. CASE pc[q] \notin {"accounts", "commit"}
      BY <1>1, <2>1, <2>2, <2>3, <2>4, <2>7 DEF Reads
    <2>8. CASE pc[q] \in {"accounts", "commit"}
      <3>1. Overtake(r)
        BY DEF Commits
      <3>2. /\ stale[q] \subseteq stale'[q]
            /\ cmd[q].op # "create" /\ cmd[q].record \notin stale'[q] =>
                 cmd[q].record \notin Changed
            /\ \A a \in DOMAIN base[q] : a \notin stale'[q] => a \notin Changed
        BY <2>8, <3>1, Overtaken
      <3>3. DOMAIN base[q] \subseteq Accounts
        BY DEF TypeOK
      <3>4. Active(q) /\ cmd[q] \in CommandSet
        BY <2>1, <2>8 DEF Reads, Active
      <3>5. cmd[q].op # "create" =>
              /\ record'[cmd[q].record] # NoRow /\ seen[q] # NoRow
              /\ cmd[q].record \notin stale'[q] => seen[q] = record'[cmd[q].record]
        BY <2>1, <2>3, <2>4, <2>5, <2>8, <3>2, <3>4 DEF Reads
      <3>6. \A a \in DOMAIN base[q] :
              a \in Needs(q) /\ (a \notin stale'[q] => base[q][a] = adjustment'[a])
        BY <2>1, <2>6, <2>8, <3>2, <3>3 DEF Reads
      <3>7. cmd[q].op \in {"edit", "settle"} => seen[q].status # "archived"
        BY <2>1, <2>8 DEF Reads
      <3>8. Reads(q)'
        BY <1>1, <2>1, <2>2, <2>8, <3>4, <3>5, <3>6, <3>7 DEF Reads
      <3>9. ASSUME pc[q] = "commit"
            PROVE  Ready(q)'
        <4>1. /\ cmd[q].op \in {"edit", "settle"} /\ DOMAIN base[q] = Needs(q)
              /\ cmd[q].record \notin stale[q] => settled[q] = SettledAmount(cmd[q].record)
              /\ cmd[q].op = "edit" => settled[q] <= Patched(q).principal
              /\ cmd[q].op = "settle" => cmd[q].amount <= seen[q].principal - settled[q]
          BY <2>1, <3>9 DEF Ready
        <4>2. PICK x \in Records : x = cmd[q].record
          BY <2>4, <3>4, <4>1
        <4>3. x \notin stale'[q] => SettledAmount(x)' = SettledAmount(x)
          BY <3>2, <4>1, <4>2, OthersSettled
        <4>4. cmd[q].record \notin stale'[q] => settled'[q] = SettledAmount(cmd[q].record)'
          BY <1>1, <3>2, <4>1, <4>2, <4>3
        <4>5. QED
          BY <1>1, <2>2, <4>1, <4>4 DEF Ready
      <3>10. QED
        BY <2>1, <3>8, <3>9
    <2>9. QED
      BY <2>7, <2>8
  <1>4. QED
    BY <1>1, <1>2, <1>3 DEF ReadsHold, CommitsHold

-----------------------------------------------------------------------------
\* The rows a commit writes

\* What the handler adds to an account arrives unless the account is stale to it, and nothing
\* else changes.
LEMMA Adjusted ==
  ASSUME TypeOK, ReadsHold, NEW r \in Requests, pc[r] \in {"accounts", "commit"},
         DOMAIN base[r] = Needs(r),
         NEW delta, \A a \in Needs(r) : delta[a] \in Int, Adjust(r, delta)
  PROVE  /\ adjustment' \in [Accounts -> Int]
         /\ \A a \in Needs(r) \ stale[r] : adjustment'[a] = adjustment[a] + delta[a]
         /\ \A a \in Accounts \ Needs(r) : adjustment'[a] = adjustment[a]
  <1>1. \A a \in Needs(r) :
          /\ a \in Accounts /\ base[r][a] \in Int
          /\ a \notin stale[r] => base[r][a] = adjustment[a]
    BY NeedsAccounts DEF ReadsHold, Reads, TypeOK
  <1>2. \A a \in Accounts : adjustment[a] \in Int
    BY DEF TypeOK
  <1>3. \A a \in Accounts :
          adjustment'[a] = IF a \in Needs(r)
                           THEN Written(base[r][a] + delta[a], base[r][a], adjustment[a])
                           ELSE adjustment[a]
    BY DEF Adjust
  <1>4. adjustment' = [a \in Accounts |-> adjustment'[a]]
    BY DEF Adjust
  <1>5. \A a \in Accounts : adjustment'[a] \in Int
    BY <1>1, <1>2, <1>3 DEF Written
  <1>6. \A a \in Needs(r) \ stale[r] : adjustment'[a] = adjustment[a] + delta[a]
    BY <1>1, <1>2, <1>3 DEF Written
  <1>7. QED
    BY <1>3, <1>4, <1>5, <1>6

\* A handler writes the fields it changed, and so replaces the whole row of a record that is
\* not stale to it.
LEMMA Saved ==
  ASSUME TypeOK, ReadsHold, NEW r \in Requests, pc[r] \in {"accounts", "commit"},
         cmd[r].op # "create", NEW row \in RecordRows, Save(r, row)
  PROVE  /\ cmd[r].record \in Records
         /\ seen[r] \in RecordRows /\ record[cmd[r].record] \in RecordRows
         /\ record' = [record EXCEPT ![cmd[r].record] = record'[cmd[r].record]]
         /\ record'[cmd[r].record] \in RecordRows
         /\ \A f \in {"direction", "principal", "account", "status"} :
              record'[cmd[r].record][f]
                = Written(row[f], seen[r][f], record[cmd[r].record][f])
         /\ cmd[r].record \notin stale[r] =>
              seen[r] = record[cmd[r].record] /\ record'[cmd[r].record] = row
  <1>1. cmd[r].record \in Records
    BY LoanCommandShape DEF ReadsHold, Reads, Active
  <1>2. /\ seen[r] \in RecordRows /\ record[cmd[r].record] \in RecordRows
        /\ cmd[r].record \notin stale[r] => seen[r] = record[cmd[r].record]
    BY <1>1 DEF ReadsHold, Reads, Active, TypeOK
  <1> DEFINE new == [f \in DOMAIN record[cmd[r].record] |->
                       Written(row[f], seen[r][f], record[cmd[r].record][f])]
  <1>3. record' = [record EXCEPT ![cmd[r].record] = new]
    BY DEF Save
  <1>4. new \in RecordRows
    BY <1>2 DEF Written, RecordRows
  <1>5. \A f \in {"direction", "principal", "account", "status"} :
          new[f] = Written(row[f], seen[r][f], record[cmd[r].record][f])
    BY <1>2 DEF RecordRows
  <1>6. cmd[r].record \notin stale[r] => new = row
    <2> SUFFICES ASSUME cmd[r].record \notin stale[r]
                 PROVE  new = row
      OBVIOUS
    <2>1. new = [f \in DOMAIN row |-> row[f]]
      BY <1>2 DEF Written, RecordRows
    <2>2. QED
      BY <2>1 DEF RecordRows
  <1> HIDE DEF new
  <1>7. record'[cmd[r].record] = new
    BY <1>1, <1>3 DEF TypeOK
  <1>8. QED
    BY <1>1, <1>2, <1>3, <1>4, <1>5, <1>6, <1>7

\* A commit leaves the drift of an account when what it adds to the account is what its
\* record and its settlement add.
LEMMA DriftKept ==
  ASSUME TypeOK, TypeOK', RowsHold, NEW r \in Requests, NEW y, Commits(r, y),
         NEW a \in Accounts,
         adjustment'[a] = adjustment[a] + (On(record'[y], a) - On(record[y], a))
                            + BySettlement(a)'[r]
  PROVE  Drift(a)' = Drift(a)
  <1>1. IsFiniteSet(Records) /\ IsFiniteSet(Requests)
    BY LoansAssumption, FS_Union DEF Records
  <1>t. \A x \in Records : ByRecord(a)[x] \in Int /\ ByRecord(a)'[x] \in Int
    BY OnInt DEF ByRecord, TypeOK
  <1>s. \A s \in Requests : BySettlement(a)[s] \in Int /\ BySettlement(a)'[s] \in Int
    BY DEF BySettlement, TypeOK, SettlementRows
  <1>2. SumFunctionOnSet(ByRecord(a)', Records)
          = SumFunctionOnSet(ByRecord(a), Records) + ByRecord(a)'[y] - ByRecord(a)[y]
    <2>1. y \in Records
      BY DEF Commits
    <2>2. \A x \in Records \ {y} : ByRecord(a)[x] = ByRecord(a)'[x]
      BY DEF ByRecord, Commits
    <2>3. QED
      BY <1>1, <1>t, <2>1, <2>2, SumUpdate
  <1>3. SumFunctionOnSet(BySettlement(a)', Requests)
          = SumFunctionOnSet(BySettlement(a), Requests)
              + BySettlement(a)'[r] - BySettlement(a)[r]
    <2>1. \A s \in Requests \ {r} : BySettlement(a)[s] = BySettlement(a)'[s]
      BY DEF BySettlement, Commits
    <2>2. QED
      BY <1>1, <1>s, <2>1, SumUpdate
  <1>4. BySettlement(a)[r] = 0
    BY DEF BySettlement, RowsHold, Commits
  <1>5. ByRecord(a)'[y] = On(record'[y], a) /\ ByRecord(a)[y] = On(record[y], a)
    BY DEF ByRecord, Commits
  <1>6. adjustment[a] \in Int
    BY DEF TypeOK
  <1>7. /\ SumFunctionOnSet(ByRecord(a), Records) \in Int
        /\ SumFunctionOnSet(BySettlement(a), Requests) \in Int
    BY <1>1, <1>s, <1>t, SumInt
  <1>8. /\ On(record'[y], a) \in Int /\ On(record[y], a) \in Int
        /\ BySettlement(a)'[r] \in Int
    BY <1>s, <1>t, <1>5 DEF Commits
  <1>9. QED
    BY <1>2, <1>3, <1>4, <1>5, <1>6, <1>7, <1>8 DEF Drift

\* A commit keeps the invariant of the rows when it does so of its own record.
LEMMA WithinAgain ==
  ASSUME LoansInv, NEW r \in Requests, NEW y, Commits(r, y),
         \A x \in Records \ {y} : x \in raced => x \in raced',
         y \notin raced' => Sound(y)'
  PROVE  RowsHold' /\ SettledWithinPrincipal' /\ StatusFollowsSettlements'
  <1> USE DEF LoansInv
  <1>1. RowsHold'
    <2> SUFFICES ASSUME NEW q \in Requests
                 PROVE  /\ pc'[q] # "done" => record'[q] = NoRow /\ settlement'[q] = NoRow
                        /\ settlement'[q] # NoRow => record'[settlement'[q].record] # NoRow
      BY DEF RowsHold
    <2>1. pc'[q] # "done" => q # r /\ q # y
      BY DEF Commits, TypeOK, RowsHold, ReadsHold, Reads, Active
    <2>2. pc'[q] # "done" => record'[q] = NoRow /\ settlement'[q] = NoRow
      BY <2>1 DEF Commits, TypeOK, RowsHold, Records
    <2>3. settlement'[q] # NoRow => record'[settlement'[q].record] # NoRow
      <3>1. CASE q = r
        BY <3>1 DEF Commits
      <3>2. CASE q # r
        <4>1. settlement'[q] = settlement[q]
          BY <3>2 DEF Commits
        <4>2. settlement[q] # NoRow =>
                settlement[q].record \in Records /\ record[settlement[q].record] # NoRow
          BY DEF RowsHold, TypeOK, SettlementRows
        <4>3. QED
          BY <4>1, <4>2 DEF Commits
      <3>3. QED
        BY <3>1, <3>2
    <2>4. QED
      BY <2>2, <2>3
  <1>2. ASSUME NEW x \in Records, x \notin raced'
        PROVE  Sound(x)'
    <2>1. CASE x = y
      BY <1>2, <2>1
    <2>2. CASE x # y
      <3>1. record'[x] = record[x] /\ SettledAmount(x)' = SettledAmount(x)
        BY <2>2, OthersSettled DEF Commits
      <3>2. Sound(x)
        BY <1>2, <2>2, SoundRecords
      <3>3. QED
        BY <3>1, <3>2 DEF Sound
    <2>3. QED
      BY <2>1, <2>2
  <1>3. SettledWithinPrincipal' /\ StatusFollowsSettlements'
    BY <1>2 DEF SettledWithinPrincipal, StatusFollowsSettlements, Sound
  <1>4. QED
    BY <1>1, <1>3

-----------------------------------------------------------------------------
\* Steps that write no row

\* Only handler r moves, and no record, settlement, adjustment or history changes.
Moves(r) ==
  /\ UNCHANGED <<record, settlement, adjustment, usable, stale, raced>>
  /\ \A q \in Requests \ {r} :
       /\ cmd'[q] = cmd[q] /\ pc'[q] = pc[q] /\ seen'[q] = seen[q]
       /\ base'[q] = base[q] /\ settled'[q] = settled[q]

\* What the others have read is untouched by a step of one handler.
LEMMA OthersRead ==
  ASSUME ReadsHold, CommitsHold, NEW r \in Requests, Moves(r),
         NEW q \in Requests \ {r}
  PROVE  Reads(q)' /\ (pc'[q] = "commit" => Ready(q)')
  <1>1. Needs(q)' = Needs(q) /\ Patched(q)' = Patched(q)
    BY DEF Needs, Patched, Moves
  <1>2. Active(q)' = Active(q)
    BY DEF Active, Moves
  <1>3. Reads(q)
    BY DEF ReadsHold
  <1>4. Reads(q)'
    BY <1>1, <1>2, <1>3 DEF Reads, Moves
  <1>5. SettledAmount(cmd[q].record)' = SettledAmount(cmd[q].record)
    BY DEF SettledAmount, Settlements, Moves
  <1>6. pc'[q] = "commit" => Ready(q)'
    BY <1>1, <1>5 DEF CommitsHold, Ready, Moves
  <1>7. QED
    BY <1>4, <1>6

\* A step of one handler that writes no row keeps the invariant when it keeps the types and
\* what is said of that handler, and no adjustment drifts.
LEMMA MoveKeeps ==
  ASSUME LoansInv, NEW r \in Requests, Moves(r), TypeOK',
         pc[r] = "done" => pc'[r] = "done",
         Reads(r)', pc'[r] = "commit" => Ready(r)'
  PROVE  LoansInv' /\ OnlyRacesDrift
  <1> USE DEF LoansInv
  <1>1. ReadsHold' /\ CommitsHold'
    BY OthersRead DEF ReadsHold, CommitsHold
  <1>2. \A q \in Requests : pc[q] = "done" => pc'[q] = "done"
    BY DEF Moves
  <1>3. /\ RowsHold' /\ SettledWithinPrincipal' /\ StatusFollowsSettlements'
        /\ OnlyRacesDrift
    BY <1>2, RowsLeft DEF Moves
  <1>4. QED
    BY <1>1, <1>3

-----------------------------------------------------------------------------
\* The actions

\* The invariant holds before any request: nothing is settled and nothing adjusted.
LEMMA LoansInitInv == Init => LoansInv /\ \A a \in Accounts : Drift(a) = 0
  <1> SUFFICES ASSUME Init
               PROVE  LoansInv /\ \A a \in Accounts : Drift(a) = 0
    OBVIOUS
  <1>1. IsFiniteSet(Records) /\ IsFiniteSet(Requests)
    BY LoansAssumption, FS_Union DEF Records
  <1>2. TypeOK
    <2>1. MaxAmount \in Amount
      BY LoansAssumption DEF Amount
    <2>2. record \in [Records -> RecordRows \cup {NoRow}]
      BY <2>1 DEF Init, RecordRows, Direction
    <2>3. DOMAIN base = Requests /\ \A r \in Requests : DOMAIN base[r] = {}
      BY DEF Init
    <2>4. QED
      BY <2>2, <2>3 DEF Init, TypeOK
  <1>3. CommitsHold
    BY DEF Init, CommitsHold
  <1>4. ReadsHold
    BY DEF Init, ReadsHold, Reads, Active
  <1>5. RowsHold
    BY LoansAssumption DEF Init, RowsHold, Records
  <1>6. \A x : SettledAmount(x) = 0
    <2> SUFFICES ASSUME NEW x
                 PROVE  SettledAmount(x) = 0
      OBVIOUS
    <2>1. \A s \in Requests : Settlements(x)[s] = 0
      BY DEF Init, Settlements
    <2>2. QED
      BY <1>1, <2>1, SumZero DEF SettledAmount
  <1>7. SettledWithinPrincipal /\ StatusFollowsSettlements
    BY <1>6, LoansAssumption
       DEF Init, SettledWithinPrincipal, StatusFollowsSettlements, Records
  <1>8. \A a \in Accounts : Drift(a) = 0
    <2> SUFFICES ASSUME NEW a \in Accounts
                 PROVE  Drift(a) = 0
      OBVIOUS
    <2>1. \A x \in Records : ByRecord(a)[x] = 0
      BY LoansAssumption DEF Init, ByRecord, On
    <2>2. \A s \in Requests : BySettlement(a)[s] = 0
      BY DEF Init, BySettlement
    <2>3. /\ SumFunctionOnSet(ByRecord(a), Records) = 0
          /\ SumFunctionOnSet(BySettlement(a), Requests) = 0
      BY <1>1, <2>1, <2>2, SumZero
    <2>4. QED
      BY <2>3 DEF Init, Drift
  <1>9. QED
    BY <1>2, <1>3, <1>4, <1>5, <1>7, <1>8 DEF LoansInv

\* A request arrives: it has read nothing.
LEMMA ArriveKeeps ==
  ASSUME LoansInv, NEW r \in Requests, NEW c \in Ask[r], Arrive(r, c)
  PROVE  LoansInv' /\ OnlyRacesDrift
  <1> USE DEF LoansInv
  <1>1. c \in CommandSet
    BY LoansAssumption
  <1>2. /\ pc[r] = "new"
        /\ pc' = [pc EXCEPT ![r] = IF c.op = "create" THEN "accounts" ELSE "record"]
        /\ cmd' = [cmd EXCEPT ![r] = c] /\ reply' = reply
        /\ UNCHANGED <<rows, seen, base, settled, history>>
    BY DEF Arrive, GoTo
  <1>3. Moves(r)
    BY <1>2 DEF Moves, TypeOK, rows, history
  <1>4. TypeOK'
    BY <1>1, <1>2, SMTT(30) DEF TypeOK, rows, history
  <1>5. Reads(r)' /\ pc'[r] # "commit"
    <2>1. DOMAIN base[r] = {}
      BY <1>2 DEF ReadsHold, Reads
    <2>2. cmd'[r] = c /\ pc'[r] = IF c.op = "create" THEN "accounts" ELSE "record"
      BY <1>2 DEF TypeOK
    <2>3. c.op # "create" => record[c.record] # NoRow
      BY DEF Arrive
    <2>4. QED
      BY <1>1, <1>2, <2>1, <2>2, <2>3 DEF Reads, Active, rows, history
  <1>6. QED
    BY <1>2, <1>3, <1>4, <1>5, MoveKeeps

\* A handler loads its record.
LEMMA LoadRecordKeeps ==
  ASSUME LoansInv, NEW r \in Requests, LoadRecord(r)
  PROVE  LoansInv' /\ OnlyRacesDrift
  <1> USE DEF LoansInv
  <1>1. /\ pc[r] = "record" /\ cmd[r] \in CommandSet /\ cmd[r].op # "create"
        /\ record[cmd[r].record] # NoRow
    BY DEF LoadRecord, ReadsHold, Reads, Active
  <1>2. record[cmd[r].record] \in RecordRows
    BY <1>1, LoanCommandShape DEF TypeOK
  <1>3. /\ UNCHANGED <<rows, cmd, base, settled, history>>
        /\ seen' = [seen EXCEPT ![r] = record[cmd[r].record]]
        /\ \/ /\ pc' = [pc EXCEPT ![r] = "done"]
              /\ reply' = [reply EXCEPT ![r] = "rejected"]
           \/ /\ record[cmd[r].record].status # "archived" \/ cmd[r].op = "archive"
              /\ pc' = [pc EXCEPT ![r] = "accounts"]
              /\ reply' = reply
    BY DEF LoadRecord, GoTo, Answer
  <1>4. Moves(r)
    BY <1>3 DEF Moves, TypeOK, rows, history
  <1>5. TypeOK'
    BY <1>1, <1>2, <1>3, SMTT(30) DEF TypeOK, rows, history
  <1>6. Reads(r)' /\ pc'[r] # "commit"
    <2>1. DOMAIN base[r] = {}
      BY <1>1 DEF ReadsHold, Reads
    <2>2. seen'[r] = record[cmd[r].record]
      BY <1>3 DEF TypeOK
    <2>3. CASE pc'[r] = "done"
      BY <2>3 DEF Reads, Active
    <2>4. CASE /\ pc'[r] = "accounts"
               /\ record[cmd[r].record].status # "archived" \/ cmd[r].op = "archive"
      BY <1>1, <1>3, <2>1, <2>2, <2>4 DEF Reads, Active, rows, history
    <2>5. QED
      BY <1>3, <2>3, <2>4 DEF TypeOK
  <1>7. QED
    BY <1>1, <1>3, <1>4, <1>5, <1>6, MoveKeeps

\* A handler loads an account it needs.
LEMMA LoadAccountKeeps ==
  ASSUME LoansInv, NEW r \in Requests, NEW a \in Accounts, LoadAccount(r, a)
  PROVE  LoansInv' /\ OnlyRacesDrift
  <1> USE DEF LoansInv
  <1>1. pc[r] = "accounts" /\ a \in Needs(r)
    BY DEF LoadAccount
  <1>2. /\ UNCHANGED <<rows, cmd, seen, settled, history>>
        /\ base' = [base EXCEPT ![r] = [b \in DOMAIN base[r] \cup {a} |->
                                          IF b = a THEN adjustment[a] ELSE base[r][b]]]
        /\ \/ /\ pc' = [pc EXCEPT ![r] = "done"]
              /\ reply' = [reply EXCEPT ![r] = "rejected"]
           \/ /\ pc' = [pc EXCEPT ![r] = "accounts"]
              /\ reply' = reply
    BY DEF LoadAccount, GoTo, Answer
  <1>3. Moves(r)
    BY <1>2 DEF Moves, TypeOK, rows, history
  <1>4. base'[r] = [b \in DOMAIN base[r] \cup {a} |->
                      IF b = a THEN adjustment[a] ELSE base[r][b]]
    BY <1>2 DEF TypeOK
  <1>5. TypeOK'
    <2>1. /\ DOMAIN base' = Requests
          /\ \A q \in Requests : DOMAIN base'[q] \subseteq Accounts
                                 /\ \A b \in DOMAIN base'[q] : base'[q][b] \in Int
      BY <1>2, <1>4 DEF TypeOK
    <2>2. QED
      BY <1>1, <1>2, <2>1, SMTT(30) DEF TypeOK, rows, history
  <1>6. Reads(r)' /\ pc'[r] # "commit"
    <2>1. pc'[r] \in {"done", "accounts"}
      BY <1>2 DEF TypeOK
    <2>2. Needs(r)' = Needs(r)
      BY <1>2 DEF Needs
    <2>3. \A b \in DOMAIN base'[r] :
            b \in Needs(r) /\ (b \notin stale[r] => base'[r][b] = adjustment[b])
      BY <1>1, <1>4 DEF ReadsHold, Reads
    <2>4. QED
      BY <1>1, <1>2, <2>1, <2>2, <2>3 DEF ReadsHold, Reads, Active, rows, history
  <1>7. QED
    BY <1>1, <1>2, <1>3, <1>5, <1>6, MoveKeeps

\* A handler reads the sum of settlements and checks its request against it.
LEMMA SumSettlementsKeeps ==
  ASSUME LoansInv, NEW r \in Requests, SumSettlements(r)
  PROVE  LoansInv' /\ OnlyRacesDrift
  <1> USE DEF LoansInv
  <1> DEFINE sum == SettledAmount(cmd[r].record)
             fits == \/ cmd[r].op = "edit" /\ sum <= Patched(r).principal
                     \/ cmd[r].op = "settle" /\ cmd[r].amount <= seen[r].principal - sum
  <1>1. /\ pc[r] = "accounts" /\ DOMAIN base[r] = Needs(r) /\ cmd[r].op \in {"edit", "settle"}
        /\ UNCHANGED <<rows, cmd, seen, base, history>>
        /\ settled' = [settled EXCEPT ![r] = sum]
        /\ \/ /\ pc' = [pc EXCEPT ![r] = "done"]
              /\ reply' = [reply EXCEPT ![r] = "rejected"]
           \/ /\ fits
              /\ pc' = [pc EXCEPT ![r] = "commit"]
              /\ reply' = reply
    BY DEF SumSettlements, Loaded, GoTo, Answer
  <1>2. sum \in Nat
    BY SettledNat
  <1>3. sum' = sum
    BY <1>1 DEF SettledAmount, Settlements, rows
  <1> HIDE DEF sum
  <1>4. Moves(r)
    BY <1>1 DEF Moves, TypeOK, rows, history
  <1>5. TypeOK'
    BY <1>1, <1>2, SMTT(30) DEF TypeOK, rows, history
  <1>6. Needs(r)' = Needs(r) /\ Patched(r)' = Patched(r)
    BY <1>1 DEF Needs, Patched
  <1>7. Reads(r)'
    <2>1. pc'[r] \in {"done", "commit"}
      BY <1>1 DEF TypeOK
    <2>2. QED
      BY <1>1, <1>6, <2>1 DEF ReadsHold, Reads, Active, rows, history
  <1>8. pc'[r] = "commit" => Ready(r)'
    <2>1. settled'[r] = sum /\ sum' = SettledAmount(cmd[r].record)'
      BY <1>1 DEF TypeOK, sum
    <2>2. pc'[r] = "commit" => fits
      BY <1>1 DEF TypeOK
    <2>3. QED
      BY <1>1, <1>3, <1>6, <2>1, <2>2 DEF Ready
  <1>9. QED
    BY <1>1, <1>4, <1>5, <1>7, <1>8, MoveKeeps

\* A handler gives up.
LEMMA AbortKeeps ==
  ASSUME LoansInv, NEW r \in Requests, Abort(r)
  PROVE  LoansInv' /\ OnlyRacesDrift
  <1> USE DEF LoansInv
  <1>1. /\ Active(r) /\ UNCHANGED <<rows, cmd, seen, base, settled, history>>
        /\ pc' = [pc EXCEPT ![r] = "done"]
        /\ reply' = [reply EXCEPT ![r] = "error"]
    BY DEF Abort, Answer, Active
  <1>2. Moves(r)
    BY <1>1 DEF Moves, TypeOK, rows, history
  <1>3. TypeOK'
    BY <1>1, SMTT(30) DEF TypeOK, rows, history
  <1>4. pc'[r] = "done"
    BY <1>1 DEF TypeOK
  <1>5. Reads(r)' /\ pc'[r] # "commit"
    BY <1>4 DEF Reads, Active
  <1>6. QED
    BY <1>1, <1>2, <1>3, <1>4, <1>5, MoveKeeps

\* An account is disabled: no handler's reads depend on it.
LEMMA DisableKeeps ==
  ASSUME LoansInv, NEW a \in Accounts, Disable(a)
  PROVE  LoansInv' /\ OnlyRacesDrift
  <1> USE DEF LoansInv
  <1>1. /\ UNCHANGED <<record, settlement, adjustment, cmd, pc, seen, base, settled, reply>>
        /\ UNCHANGED <<stale, raced>>
        /\ usable' \subseteq Accounts
    BY DEF Disable, TypeOK, history
  <1>2. TypeOK'
    BY <1>1 DEF TypeOK
  <1>3. ReadsHold'
    BY <1>1 DEF ReadsHold, Reads, Active, Needs
  <1>4. CommitsHold'
    BY <1>1 DEF CommitsHold, Ready, Needs, Patched, SettledAmount, Settlements
  <1>5. /\ RowsHold' /\ SettledWithinPrincipal' /\ StatusFollowsSettlements'
        /\ OnlyRacesDrift
    BY <1>1, RowsLeft
  <1>6. QED
    BY <1>2, <1>3, <1>4, <1>5

\* A record is created: nothing is settled of it yet.
LEMMA CommitRecordKeeps ==
  ASSUME LoansInv, NEW r \in Requests, CommitRecord(r)
  PROVE  LoansInv' /\ OnlyRacesDrift
  <1> USE DEF LoansInv
  <1> DEFINE new == [direction |-> cmd[r].direction, principal |-> cmd[r].principal,
                     account |-> cmd[r].account, status |-> "open"]
             delta == [a \in Accounts |-> Effect(new)]
  <1>1. /\ pc[r] = "accounts" /\ DOMAIN base[r] = Needs(r)
        /\ cmd[r].op = "create" /\ cmd[r] \in CommandSet
        /\ Needs(r) = {cmd[r].account} /\ r \in Records /\ Active(r)
    BY DEF CommitRecord, Loaded, ReadsHold, Reads, Active, Needs, Records
  <1>2. /\ record' = [record EXCEPT ![r] = new]
        /\ Adjust(r, delta)
        /\ pc' = [pc EXCEPT ![r] = "done"]
        /\ reply' = [reply EXCEPT ![r] = "ok"]
        /\ UNCHANGED <<settlement, usable, cmd, seen, base, settled, raced>>
        /\ Overtake(r)
    BY DEF CommitRecord, Answer
  <1>3. new \in RecordRows /\ new # NoRow /\ new.status = "open"
        /\ new.principal \in Nat \ {0} /\ new.account = cmd[r].account
    BY <1>1, LoanCommandShape, LoansAssumption DEF RecordRows, Amount
  <1> HIDE DEF new
  <1>4. record[r] = NoRow /\ settlement[r] = NoRow /\ record'[r] = new
    BY <1>1, <1>2 DEF RowsHold, TypeOK
  <1>5. Effect(new) \in Int
    BY <1>3, LoansAssumption DEF Effect, BalanceEffect, RecordRows, Amount
  <1>6. /\ adjustment' \in [Accounts -> Int]
        /\ \A a \in Needs(r) \ stale[r] : adjustment'[a] = adjustment[a] + delta[a]
        /\ \A a \in Accounts \ Needs(r) : adjustment'[a] = adjustment[a]
    <2>1. \A a \in Needs(r) : delta[a] \in Int
      BY <1>1, <1>5, LoanCommandShape
    <2> HIDE DEF delta
    <2>2. QED
      BY <1>1, <1>2, <2>1, Adjusted
  <1>7. Commits(r, r)
    BY <1>1, <1>2, <1>3, <1>4 DEF Commits, TypeOK
  <1>8. TypeOK'
    <2>1. record' \in [Records -> RecordRows \cup {NoRow}] /\ raced' \subseteq Records
          /\ settlement' \in [Requests -> SettlementRows \cup {NoRow}]
      BY <1>1, <1>2, <1>3 DEF TypeOK
    <2>2. QED
      BY <1>2, <1>6, <1>7, <2>1, CommitTypes
  <1>9. ReadsHold' /\ CommitsHold'
    BY <1>7, OthersHold
  <1>10. RowsHold' /\ SettledWithinPrincipal' /\ StatusFollowsSettlements'
    <2>1. SettledAmount(r)' = 0
      <3>1. \A s \in Requests : Settlements(r)[s] = 0
        BY <1>4 DEF Settlements, RowsHold
      <3>2. SettledAmount(r) = 0
        BY <3>1, SumZero, LoansAssumption DEF SettledAmount
      <3>3. QED
        BY <1>2, <3>2 DEF SettledAmount, Settlements
    <2>2. Sound(r)'
      BY <1>3, <1>4, <2>1 DEF Sound
    <2>3. QED
      BY <1>2, <1>7, <2>2, WithinAgain
  <1>11. OnlyRacesDrift
    <2> SUFFICES ASSUME NEW a \in Accounts, ~ Overwrites(r, a)
                 PROVE  Drift(a)' = Drift(a)
      BY DEF OnlyRacesDrift
    <2>1. a \notin stale[r]
      BY <1>1, <1>2 DEF Overwrites, TypeOK
    <2>2. BySettlement(a)'[r] = 0
      BY <1>2, <1>4 DEF BySettlement
    <2>3. On(record'[r], a) = IF a \in Needs(r) THEN Effect(new) ELSE 0
      BY <1>1, <1>3, <1>4 DEF On
    <2>4. On(record[r], a) = 0
      BY <1>4 DEF On
    <2>5. adjustment'[a] = adjustment[a] + (On(record'[r], a) - On(record[r], a))
                             + BySettlement(a)'[r]
      BY <1>5, <1>6, <2>1, <2>2, <2>3, <2>4 DEF TypeOK
    <2>6. QED
      BY <1>7, <1>8, <2>5, DriftKept
  <1>12. QED
    BY <1>8, <1>9, <1>10, <1>11

\* An edit is committed: the effect of the record as loaded is reversed, that of the new
\* one applied, and the settled sum decides the state.
LEMMA CommitEditKeeps ==
  ASSUME LoansInv, NEW r \in Requests, CommitEdit(r)
  PROVE  LoansInv' /\ OnlyRacesDrift
  <1> USE DEF LoansInv
  <1> DEFINE x == cmd[r].record
             new == Patched(r)
             row == ApplyRecordState(new, settled[r])
             delta == [a \in Accounts |-> On(new, a) - On(seen[r], a)]
  <1>1. /\ pc[r] = "commit" /\ cmd[r].op = "edit" /\ cmd[r] \in CommandSet /\ Active(r)
        /\ Adjust(r, delta) /\ Save(r, row)
        /\ pc' = [pc EXCEPT ![r] = "done"]
        /\ reply' = [reply EXCEPT ![r] = "ok"]
        /\ UNCHANGED <<settlement, usable, cmd, seen, base, settled>>
        /\ Overtake(r) /\ Race(r)
    BY DEF CommitEdit, Answer, ReadsHold, Reads, Active
  <1>2. /\ DOMAIN base[r] = Needs(r)
        /\ x \notin stale[r] => settled[r] = SettledAmount(x)
        /\ settled[r] <= new.principal /\ settled[r] \in Nat
    BY <1>1 DEF CommitsHold, Ready, TypeOK
  <1>3. /\ seen[r] \in RecordRows /\ seen[r].status # "archived"
    BY <1>1 DEF ReadsHold, Reads, TypeOK
  <1>4. /\ new \in RecordRows /\ new.status # "archived"
        /\ new.account \in {seen[r].account, cmd[r].account} \ {Keep}
    BY <1>1, <1>3, PatchedShape
  <1> HIDE DEF new
  <1>5. /\ row \in RecordRows /\ row # NoRow
        /\ row.direction = new.direction /\ row.principal = new.principal
        /\ row.account = new.account
        /\ row.status = IF settled[r] >= new.principal THEN "settled" ELSE "open"
    BY <1>4, LoansAssumption DEF ApplyRecordState, RecordRows
  <1> HIDE DEF row
  <1>6. /\ x \in Records
        /\ record' = [record EXCEPT ![x] = record'[x]] /\ record'[x] \in RecordRows
        /\ x \notin stale[r] => seen[r] = record[x] /\ record'[x] = row
    BY <1>1, <1>5, Saved
  <1>7. /\ adjustment' \in [Accounts -> Int]
        /\ \A a \in Needs(r) \ stale[r] : adjustment'[a] = adjustment[a] + delta[a]
        /\ \A a \in Accounts \ Needs(r) : adjustment'[a] = adjustment[a]
    <2>1. \A a \in Needs(r) : delta[a] \in Int
      BY <1>1, <1>3, <1>4, OnInt, NeedsAccounts
    <2> HIDE DEF delta
    <2>2. QED
      BY <1>1, <1>2, <2>1, Adjusted
  <1>8. settlement[r] = NoRow
    BY <1>1 DEF RowsHold
  <1>9. Commits(r, x)
    BY <1>1, <1>6, <1>8, LoansAssumption DEF Commits, TypeOK
  <1>10. TypeOK'
    <2>1. record' \in [Records -> RecordRows \cup {NoRow}] /\ raced' \subseteq Records
          /\ settlement' \in [Requests -> SettlementRows \cup {NoRow}]
      BY <1>1, <1>6 DEF TypeOK, Race
    <2>2. QED
      BY <1>1, <1>7, <1>9, <2>1, CommitTypes
  <1>11. ReadsHold' /\ CommitsHold'
    BY <1>9, OthersHold
  <1>12. RowsHold' /\ SettledWithinPrincipal' /\ StatusFollowsSettlements'
    <2>1. PICK y : y = x
      OBVIOUS
    <2>2. \A z \in Records \ {y} : z \in raced => z \in raced'
      BY <1>1, <2>1 DEF Race
    <2>3. ASSUME y \notin raced'
          PROVE  Sound(y)'
      <3>1. x \notin stale[r]
        BY <1>1, <2>1, <2>3 DEF Race
      <3>2. SettledAmount(y)' = settled[r]
        BY <1>1, <1>2, <2>1, <3>1 DEF SettledAmount, Settlements
      <3>3. new.principal \in Nat
        BY <1>4 DEF RecordRows, Amount
      <3>4. QED
        BY <1>2, <1>5, <1>6, <2>1, <3>1, <3>2, <3>3 DEF Sound
    <2>4. Commits(r, y)
      BY <1>9, <2>1
    <2>5. QED
      BY <2>2, <2>3, <2>4, WithinAgain
  <1>13. OnlyRacesDrift
    <2> SUFFICES ASSUME NEW a \in Accounts, ~ Overwrites(r, a)
                 PROVE  Drift(a)' = Drift(a)
      BY DEF OnlyRacesDrift
    <2>1. a \notin stale[r] /\ x \notin stale[r]
      BY <1>1 DEF Overwrites, TypeOK
    <2>2. BySettlement(a)'[r] = 0
      BY <1>1, <1>8 DEF BySettlement
    <2>3. On(record'[x], a) = On(new, a) /\ On(record[x], a) = On(seen[r], a)
      BY <1>4, <1>5, <1>6, <2>1, LoansAssumption DEF On, Effect
    <2>4. a \notin Needs(r) => On(new, a) = 0 /\ On(seen[r], a) = 0
      BY <1>1, <1>3, <1>4, LoansAssumption DEF On, Needs
    <2>5. adjustment[a] \in Int /\ On(new, a) \in Int /\ On(seen[r], a) \in Int
      BY <1>3, <1>4, OnInt DEF TypeOK
    <2>6. adjustment'[a] = adjustment[a] + (On(new, a) - On(seen[r], a))
      <3>1. delta[a] = On(new, a) - On(seen[r], a)
        OBVIOUS
      <3> HIDE DEF delta
      <3>2. CASE a \in Needs(r)
        BY <1>7, <2>1, <3>1, <3>2
      <3>3. CASE a \notin Needs(r)
        BY <1>7, <2>4, <2>5, <3>3
      <3>4. QED
        BY <3>2, <3>3
    <2>7. adjustment'[a] = adjustment[a] + (On(record'[x], a) - On(record[x], a))
                             + BySettlement(a)'[r]
      BY <2>2, <2>3, <2>5, <2>6
    <2>8. QED
      BY <1>9, <1>10, <2>7, DriftKept
  <1>14. QED
    BY <1>10, <1>11, <1>12, <1>13

\* A settlement is committed: the sum grows by it, and the record is settled when nothing
\* is left.
LEMMA CommitSettlementKeeps ==
  ASSUME LoansInv, NEW r \in Requests, CommitSettlement(r)
  PROVE  LoansInv' /\ OnlyRacesDrift
  <1> USE DEF LoansInv
  <1> DEFINE x == cmd[r].record
             effect == - BalanceEffect(seen[r].direction, cmd[r].amount)
             sum == settled[r] + cmd[r].amount
             paid == [record |-> x, account |-> cmd[r].account, amount |-> cmd[r].amount,
                      effect |-> effect]
             row == ApplyRecordState(seen[r], sum)
             delta == [a \in Accounts |-> effect]
  <1>1. /\ pc[r] = "commit" /\ cmd[r].op = "settle" /\ cmd[r] \in CommandSet /\ Active(r)
        /\ settlement' = [settlement EXCEPT ![r] = paid]
        /\ Adjust(r, delta) /\ Save(r, row)
        /\ pc' = [pc EXCEPT ![r] = "done"]
        /\ reply' = [reply EXCEPT ![r] = "ok"]
        /\ UNCHANGED <<usable, cmd, seen, base, settled>>
        /\ Overtake(r) /\ Race(r)
    BY DEF CommitSettlement, Answer, ReadsHold, Reads, Active
  <1>2. /\ DOMAIN base[r] = Needs(r)
        /\ x \notin stale[r] => settled[r] = SettledAmount(x)
        /\ cmd[r].amount <= seen[r].principal - settled[r] /\ settled[r] \in Nat
    BY <1>1 DEF CommitsHold, Ready, TypeOK
  <1>3. seen[r] \in RecordRows /\ seen[r].status # "archived"
    BY <1>1 DEF ReadsHold, Reads, TypeOK
  <1>4. cmd[r].amount \in Nat /\ cmd[r].amount \in Amount /\ cmd[r].account \in Accounts
    BY <1>1, LoanCommandShape DEF Amount
  <1>5. Needs(r) = {cmd[r].account}
    BY <1>1 DEF Needs
  <1>6. effect \in Int /\ x \in Records
    BY <1>1, <1>4, LoanCommandShape DEF BalanceEffect
  <1>7. paid \in SettlementRows /\ paid # NoRow /\ paid.record = x
        /\ paid.account = cmd[r].account /\ paid.amount = cmd[r].amount /\ paid.effect = effect
    BY <1>4, <1>6, LoansAssumption DEF SettlementRows
  <1> HIDE DEF paid, effect
  <1>8. /\ sum \in Nat /\ sum <= seen[r].principal
        /\ seen[r].principal \in Nat
    BY <1>2, <1>3, <1>4 DEF RecordRows, Amount
  <1>9. /\ row \in RecordRows
        /\ row.direction = seen[r].direction /\ row.principal = seen[r].principal
        /\ row.account = seen[r].account
        /\ row.status = IF sum >= seen[r].principal THEN "settled" ELSE "open"
    BY <1>3, LoansAssumption DEF ApplyRecordState, RecordRows
  <1> HIDE DEF row
  <1>10. /\ record' = [record EXCEPT ![x] = record'[x]]
         /\ record'[x] \in RecordRows /\ record[x] \in RecordRows
         /\ x \notin stale[r] => seen[r] = record[x] /\ record'[x] = row
         /\ \A f \in {"direction", "principal", "account"} : record'[x][f] = record[x][f]
    <2>1. /\ record' = [record EXCEPT ![x] = record'[x]]
          /\ record'[x] \in RecordRows /\ record[x] \in RecordRows
          /\ x \notin stale[r] => seen[r] = record[x] /\ record'[x] = row
          /\ \A f \in {"direction", "principal", "account", "status"} :
               record'[x][f] = Written(row[f], seen[r][f], record[x][f])
      BY <1>1, <1>9, Saved
    <2>2. \A f \in {"direction", "principal", "account"} : record'[x][f] = record[x][f]
      BY <1>9, <2>1 DEF Written
    <2>3. QED
      BY <2>1, <2>2
  <1>11. /\ adjustment' \in [Accounts -> Int]
         /\ \A a \in Needs(r) \ stale[r] : adjustment'[a] = adjustment[a] + delta[a]
         /\ \A a \in Accounts \ Needs(r) : adjustment'[a] = adjustment[a]
    <2>1. \A a \in Needs(r) : delta[a] \in Int
      BY <1>4, <1>5, <1>6
    <2> HIDE DEF delta
    <2>2. QED
      BY <1>1, <1>2, <2>1, Adjusted
  <1>12. settlement[r] = NoRow /\ settlement'[r] = paid
    BY <1>1 DEF RowsHold, TypeOK
  <1>13. Commits(r, x)
    BY <1>1, <1>6, <1>7, <1>10, <1>12, LoansAssumption DEF Commits, TypeOK
  <1>14. TypeOK'
    <2>1. record' \in [Records -> RecordRows \cup {NoRow}] /\ raced' \subseteq Records
          /\ settlement' \in [Requests -> SettlementRows \cup {NoRow}]
      BY <1>1, <1>6, <1>7, <1>10 DEF TypeOK, Race
    <2>2. QED
      BY <1>1, <1>11, <1>13, <2>1, CommitTypes
  <1>15. ReadsHold' /\ CommitsHold'
    BY <1>13, OthersHold
  <1>16. RowsHold' /\ SettledWithinPrincipal' /\ StatusFollowsSettlements'
    <2>1. PICK y : y = x
      OBVIOUS
    <2>2. \A z \in Records \ {y} : z \in raced => z \in raced'
      BY <1>1, <2>1 DEF Race
    <2>3. SettledAmount(y)' = SettledAmount(y) + cmd[r].amount
      <3>1. IsFiniteSet(Requests)
        BY LoansAssumption
      <3>2. \A s \in Requests : Settlements(y)[s] \in Int
        BY SettledNat
      <3>3. /\ \A s \in Requests \ {r} : Settlements(y)[s] = Settlements(y)'[s]
            /\ Settlements(y)[r] = 0 /\ Settlements(y)'[r] = cmd[r].amount
        BY <1>1, <1>7, <1>12, <2>1 DEF Settlements, TypeOK
      <3>4. \A s \in Requests : Settlements(y)'[s] \in Int
        BY <1>4, <3>2, <3>3
      <3>5. SumFunctionOnSet(Settlements(y)', Requests)
              = SumFunctionOnSet(Settlements(y), Requests)
                  + Settlements(y)'[r] - Settlements(y)[r]
        BY <3>1, <3>2, <3>3, <3>4, SumUpdate
      <3>6. SettledAmount(y) \in Nat
        BY SettledNat
      <3>7. QED
        BY <1>4, <3>3, <3>5, <3>6 DEF SettledAmount
    <2>4. ASSUME y \notin raced'
          PROVE  Sound(y)'
      <3>1. x \notin stale[r]
        BY <1>1, <2>1, <2>4 DEF Race
      <3>2. SettledAmount(y)' = sum
        BY <1>2, <2>1, <2>3, <3>1
      <3>3. QED
        BY <1>8, <1>9, <1>10, <2>1, <3>1, <3>2 DEF Sound
    <2>5. Commits(r, y)
      BY <1>13, <2>1
    <2>6. QED
      BY <2>2, <2>4, <2>5, WithinAgain
  <1>17. OnlyRacesDrift
    <2> SUFFICES ASSUME NEW a \in Accounts, ~ Overwrites(r, a)
                 PROVE  Drift(a)' = Drift(a)
      BY DEF OnlyRacesDrift
    <2>1. a \notin stale[r]
      BY <1>1 DEF Overwrites, TypeOK
    <2>2. BySettlement(a)'[r] = IF a \in Needs(r) THEN effect ELSE 0
      BY <1>5, <1>7, <1>12 DEF BySettlement
    <2>3. On(record'[x], a) = On(record[x], a) /\ On(record[x], a) \in Int
      BY <1>10, OnInt, LoansAssumption DEF On, Effect
    <2>4. adjustment[a] \in Int
      BY DEF TypeOK
    <2>5. adjustment'[a] = adjustment[a] + (On(record'[x], a) - On(record[x], a))
                             + BySettlement(a)'[r]
      BY <1>6, <1>11, <2>1, <2>2, <2>3, <2>4
    <2>6. QED
      BY <1>13, <1>14, <2>5, DriftKept
  <1>18. QED
    BY <1>14, <1>15, <1>16, <1>17

\* A record is archived: its principal, account and settlements stay, also when the record
\* is stale to the handler, for only the status is written.
LEMMA CommitArchiveKeeps ==
  ASSUME LoansInv, NEW r \in Requests, CommitArchive(r)
  PROVE  LoansInv' /\ OnlyRacesDrift
  <1> USE DEF LoansInv
  <1> DEFINE x == cmd[r].record
             row == [seen[r] EXCEPT !.status = "archived"]
  <1>1. /\ pc[r] = "accounts" /\ cmd[r].op = "archive" /\ cmd[r] \in CommandSet
        /\ Save(r, row) /\ record[x] # NoRow
        /\ pc' = [pc EXCEPT ![r] = "done"]
        /\ reply' = [reply EXCEPT ![r] = "ok"]
        /\ UNCHANGED <<settlement, adjustment, usable, cmd, seen, base, settled, raced>>
        /\ Overtake(r)
    BY DEF CommitArchive, Answer, ReadsHold, Reads, Active
  <1>2. seen[r] \in RecordRows
    BY <1>1 DEF ReadsHold, Reads, TypeOK
  <1>3. /\ row \in RecordRows /\ row.status = "archived"
        /\ row.direction = seen[r].direction /\ row.principal = seen[r].principal
        /\ row.account = seen[r].account
    BY <1>2 DEF RecordRows
  <1> HIDE DEF row
  <1>4. /\ x \in Records
        /\ record' = [record EXCEPT ![x] = record'[x]]
        /\ record'[x] \in RecordRows /\ record[x] \in RecordRows
        /\ \A f \in {"direction", "principal", "account"} : record'[x][f] = record[x][f]
        /\ record'[x].status \in {"archived", record[x].status}
    <2>1. /\ x \in Records
          /\ record' = [record EXCEPT ![x] = record'[x]]
          /\ record'[x] \in RecordRows /\ record[x] \in RecordRows
          /\ \A f \in {"direction", "principal", "account", "status"} :
               record'[x][f] = Written(row[f], seen[r][f], record[x][f])
      BY <1>1, <1>3, Saved
    <2>2. \A f \in {"direction", "principal", "account"} : record'[x][f] = record[x][f]
      BY <1>3, <2>1 DEF Written
    <2>3. record'[x].status \in {"archived", record[x].status}
      BY <1>3, <2>1 DEF Written
    <2>4. QED
      BY <2>1, <2>2, <2>3
  <1>5. settlement[r] = NoRow
    BY <1>1 DEF RowsHold
  <1>6. Commits(r, x)
    BY <1>1, <1>4, <1>5, LoansAssumption DEF Commits, TypeOK
  <1>7. TypeOK'
    <2>1. record' \in [Records -> RecordRows \cup {NoRow}] /\ raced' \subseteq Records
          /\ settlement' \in [Requests -> SettlementRows \cup {NoRow}]
          /\ adjustment' \in [Accounts -> Int]
      BY <1>1, <1>4 DEF TypeOK
    <2>2. QED
      BY <1>1, <1>6, <2>1, CommitTypes
  <1>8. ReadsHold' /\ CommitsHold'
    BY <1>6, OthersHold
  <1>9. RowsHold' /\ SettledWithinPrincipal' /\ StatusFollowsSettlements'
    <2>1. PICK y : y = x
      OBVIOUS
    <2>2. ASSUME y \notin raced'
          PROVE  Sound(y)'
      <3>1. Sound(y)
        BY <1>1, <1>4, <2>1, <2>2, SoundRecords
      <3>2. SettledAmount(y)' = SettledAmount(y)
        BY <1>1 DEF SettledAmount, Settlements
      <3>3. QED
        BY <1>1, <1>4, <2>1, <3>1, <3>2 DEF Sound
    <2>3. Commits(r, y)
      BY <1>6, <2>1
    <2>4. QED
      BY <1>1, <2>2, <2>3, WithinAgain
  <1>10. OnlyRacesDrift
    <2> SUFFICES ASSUME NEW a \in Accounts
                 PROVE  Drift(a)' = Drift(a)
      BY DEF OnlyRacesDrift
    <2>1. BySettlement(a)'[r] = 0
      BY <1>1, <1>5 DEF BySettlement
    <2>2. On(record'[x], a) = On(record[x], a) /\ On(record[x], a) \in Int
      BY <1>1, <1>4, OnInt, LoansAssumption DEF On, Effect
    <2>3. adjustment[a] \in Int
      BY DEF TypeOK
    <2>4. adjustment'[a] = adjustment[a] + (On(record'[x], a) - On(record[x], a))
                             + BySettlement(a)'[r]
      BY <1>1, <2>1, <2>2, <2>3
    <2>5. QED
      BY <1>6, <1>7, <2>4, DriftKept
  <1>11. QED
    BY <1>7, <1>8, <1>9, <1>10

-----------------------------------------------------------------------------
\* The theorems

\* A step keeps the invariant, and an adjustment drifts in it only by a race.
LEMMA LoansStep == LoansInv /\ [Next]_vars => LoansInv' /\ OnlyRacesDrift
  <1> SUFFICES ASSUME LoansInv, [Next]_vars
               PROVE  LoansInv' /\ OnlyRacesDrift
    OBVIOUS
  <1>1. CASE \E r \in Requests : \E c \in Ask[r] : Arrive(r, c)
    BY <1>1, ArriveKeeps
  <1>2. CASE \E r \in Requests : LoadRecord(r)
    BY <1>2, LoadRecordKeeps
  <1>3. CASE \E r \in Requests, a \in Accounts : LoadAccount(r, a)
    BY <1>3, LoadAccountKeeps
  <1>4. CASE \E r \in Requests : SumSettlements(r)
    BY <1>4, SumSettlementsKeeps
  <1>5. CASE \E r \in Requests : CommitRecord(r)
    BY <1>5, CommitRecordKeeps
  <1>6. CASE \E r \in Requests : CommitEdit(r)
    BY <1>6, CommitEditKeeps
  <1>7. CASE \E r \in Requests : CommitSettlement(r)
    BY <1>7, CommitSettlementKeeps
  <1>8. CASE \E r \in Requests : CommitArchive(r)
    BY <1>8, CommitArchiveKeeps
  <1>9. CASE \E r \in Requests : Abort(r)
    BY <1>9, AbortKeeps
  <1>10. CASE \E a \in Accounts : Disable(a)
    BY <1>10, DisableKeeps
  <1>11. CASE UNCHANGED vars
    <2>1. /\ UNCHANGED <<record, settlement, adjustment, usable, cmd, pc, seen, base>>
          /\ UNCHANGED <<settled, reply, stale, raced>>
      BY <1>11 DEF vars, rows, history
    <2>2. TypeOK'
      BY <2>1 DEF LoansInv, TypeOK
    <2>3. ReadsHold'
      BY <2>1 DEF LoansInv, ReadsHold, Reads, Active, Needs
    <2>4. CommitsHold'
      BY <2>1 DEF LoansInv, CommitsHold, Ready, Needs, Patched, SettledAmount, Settlements
    <2>5. /\ RowsHold' /\ SettledWithinPrincipal' /\ StatusFollowsSettlements'
          /\ OnlyRacesDrift
      BY <2>1, RowsLeft DEF LoansInv
    <2>6. QED
      BY <2>2, <2>3, <2>4, <2>5 DEF LoansInv
  <1>12. QED
    BY <1>1, <1>2, <1>3, <1>4, <1>5, <1>6, <1>7, <1>8, <1>9, <1>10, <1>11 DEF Next

\* LoansInv is an invariant, however handlers overlap.
THEOREM LoansInvariance == Spec => []LoansInv
  BY LoansInitInv, LoansStep, PTL DEF Spec

\* Records, settlements, adjustments and handlers keep their types.
THEOREM LoansTypeCorrect == Spec => []TypeOK
  <1>1. LoansInv => TypeOK
    BY DEF LoansInv
  <1>2. QED
    BY LoansInvariance, <1>1, PTL

\* However settlements, edits and archives overlap, more than its principal is settled only
\* of a record whose last settlement or edit went by what had changed since it was read
\* (create_settlement, update_record).
THEOREM NeverOverSettled == Spec => []SettledWithinPrincipal
  <1>1. LoansInv => SettledWithinPrincipal
    BY DEF LoansInv
  <1>2. QED
    BY LoansInvariance, <1>1, PTL

\* However they overlap, the state of a record that is not archived is that of its
\* settlements unless its last settlement or edit was overtaken (apply_record_state).
THEOREM StatusIsSettlements == Spec => []StatusFollowsSettlements
  <1>1. LoansInv => StatusFollowsSettlements
    BY DEF LoansInv
  <1>2. QED
    BY LoansInvariance, <1>1, PTL

\* Adjustments are the sums of what records and settlements did, and however handlers
\* overlap only a commit over an account, or an edit of a record, that changed since the
\* handler read it moves one away from them (create_record, update_record,
\* create_settlement, archive_record).
THEOREM AdjustmentsAreSums == Spec => AdjustmentsAddUp
  <1>1. LoansInv /\ [Next]_vars => [OnlyRacesDrift]_vars
    BY LoansStep
  <1>2. Init => \A a \in Accounts : Drift(a) = 0
    BY LoansInitInv
  <1>3. QED
    BY LoansInvariance, <1>1, <1>2, PTL DEF Spec, AdjustmentsAddUp

=============================================================================
