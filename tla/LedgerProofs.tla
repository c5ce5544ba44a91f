---------------------------- MODULE LedgerProofs ----------------------------
(***************************************************************************)
(* What holds of the ledger, for any requests, commands, accounts and      *)
(* goals, and of the receipts of its transactions, for any number of       *)
(* uploads and deletions.                                                  *)
(*                                                                         *)
(* The ledger: IInv is inductive and gives the idempotency guarantees, and *)
(* with it no update brings a voided entry back. MoneyInv adds what requests *)
(* and goals owe to each other; with it balances account for every unit of *)
(* money.                                                                  *)
(*                                                                         *)
(* Receipts: FilesInv says how far each handler has come, and that files   *)
(* without a visible receipt have a handler that will remove them or a     *)
(* fault that left them. Every action keeps it, one lemma for each; the    *)
(* lemmas have one step for each conjunct.                                 *)
(***************************************************************************)
EXTENDS Ledger, Receipts, Sums

-----------------------------------------------------------------------------
\* The ledger

\* What a command says of itself by its operation.
LEMMA CommandShape ==
  ASSUME NEW c \in Commands
  PROVE  /\ c.op \in Creates \cup {"update", "void", "contribute", "retarget", "archive"}
         /\ c.op \in Creates => c.account \in Accounts /\ c.amount \in Amount
         /\ c.op = "transfer" => c.to \in Accounts /\ c.converted \in Amount \cup {Keep}
         /\ c.op \in SavingsOps \cup {"retarget", "archive"} => c.goal \in Goals
         /\ c.op \in SavingsOps \cup {"retarget"} => c.amount \in Amount
         /\ c.op \in {"update", "void"} => c.target \in Requests
         /\ c.op = "update" => c.account \in Accounts \cup {Keep} /\ c.amount \in Amount \cup {Keep}
         /\ HasKey(c) => c.op \in Creates /\ c.key \in Keys /\ Slot(c) \in Slots
  <1>1. c \in CommandSet
    BY LedgerAssumption
  <1>2. HasKey(c) => c.op \in Creates /\ c.key \in Keys
    BY <1>1, SMTT(30) DEF CommandSet, HasKey, Creates
  <1>3. HasKey(c) => Slot(c) \in Slots
    BY <1>2 DEF Slot, Slots, Operation, Creates
  <1>4. /\ c.op \in Creates \cup {"update", "void", "contribute", "retarget", "archive"}
        /\ c.op \in Creates => c.account \in Accounts /\ c.amount \in Amount
        /\ c.op = "transfer" => c.to \in Accounts /\ c.converted \in Amount \cup {Keep}
    BY <1>1, SMTT(30) DEF CommandSet, Creates
  <1>5. /\ c.op \in SavingsOps \cup {"retarget", "archive"} => c.goal \in Goals
        /\ c.op \in SavingsOps \cup {"retarget"} => c.amount \in Amount
        /\ c.op \in {"update", "void"} => c.target \in Requests
        /\ c.op = "update" => c.account \in Accounts \cup {Keep} /\ c.amount \in Amount \cup {Keep}
    BY <1>1, SMTT(30) DEF CommandSet, SavingsOps
  <1>6. QED
    BY <1>2, <1>3, <1>4, <1>5

\* The rows a creating command inserts are ledger rows.
LEMMA RowShape ==
  ASSUME NEW c \in Commands
  PROVE  /\ c.op \in Creates => MainRow(c) \in Rows /\ ~ MainRow(c).voided
         /\ c.op \notin Creates => MainRow(c) = NoRow
         /\ CreditRow(c) \in Rows \cup {NoRow}
  <1>1. c.op \in Creates => MainRow(c) \in Rows /\ ~ MainRow(c).voided
    BY CommandShape DEF MainRow, Row, Rows, Creates
  <1>2. c.op \notin Creates => MainRow(c) = NoRow
    BY DEF MainRow, Creates
  <1>3. CreditRow(c) \in Rows \cup {NoRow}
    BY CommandShape DEF CreditRow, Row, Rows, Creates
  <1>4. QED
    BY <1>1, <1>2, <1>3

\* What an edit writes to a row leaves a row of the same kind, voided if it was.
LEMMA EditShape ==
  ASSUME NEW c \in Commands, c.op \in {"update", "void"},
         NEW now \in Rows, NEW loaded \in Rows
  PROVE  LET entry == Written(now, loaded, Edited(c, loaded)) IN
         /\ entry \in Rows
         /\ entry.kind = now.kind
         /\ now.voided => entry.voided
  <1>1. /\ Edited(c, loaded) \in Rows
        /\ Edited(c, loaded).kind = loaded.kind
        /\ Edited(c, loaded).voided \in {loaded.voided, TRUE}
    BY CommandShape DEF Edited, Rows
  <1>2. QED
    BY <1>1 DEF Written, Rows

\* A request that came in has a command.
LEMMA Running ==
  ASSUME IInv, NEW r \in Requests, pc[r] # "new"
  PROVE  cmd[r] \in Commands
  BY DEF IInv, TypeOK

\* What a request writes to a goal leaves a goal.
LEMMA GoalShape ==
  ASSUME IInv, NEW r \in Requests, pc[r] = "commit",
         cmd[r].op \in SavingsOps \cup {"retarget", "archive"},
         NEW now \in GoalRows
  PROVE  Written(now, seen[r], ChangedGoal(r)) \in GoalRows
  <1>1. seen[r] \in GoalRows /\ cmd[r] \in Commands
    BY DEF IInv, TypeOK, Loaded
  <1>2. cmd[r].op = "retarget" => cmd[r].amount \in Amount
    BY <1>1, CommandShape
  <1>3. ChangedGoal(r) \in GoalRows
    BY <1>1, <1>2 DEF ChangedGoal, Completion, GoalRows
  <1>4. QED
    BY <1>1, <1>3 DEF Written, GoalRows

\* A step of r that touches no key, record or response: what holds of keys still does.
LEMMA KeysKept ==
  ASSUME IInv, NEW r \in Requests,
         UNCHANGED <<cmd, body, idem>>,
         \A q \in Requests : main'[q] = NoRow <=> main[q] = NoRow,
         \A q \in Requests : q # r => pc'[q] = pc[q] /\ reply'[q] = reply[q],
         pc'[r] = "commit" => ~ HasKey(cmd[r]),
         reply'[r] = "ok" => ~ HasKey(cmd[r])
  PROVE  ReplaySame' /\ KeyHolding'
  <1>1. /\ \A q \in Requests : HasKey(cmd[q]) /\ reply'[q] = "ok" => reply[q] = "ok"
        /\ \A q \in Requests : HasKey(cmd[q]) /\ pc'[q] = "commit" => pc[q] = "commit"
    OBVIOUS
  <1>2. \A t \in Slots : idem[t] \in Requests \cup {NoRequest}
    BY DEF IInv, TypeOK
  <1>3. ReplaySame'
    BY <1>1 DEF IInv, ReplaySame
  <1>4. KeyHolding'
    BY <1>1, <1>2, LedgerAssumption DEF IInv, KeyHolding
  <1>5. QED
    BY <1>3, <1>4

\* The invariant holds at first.
LEMMA InitInv == Init => IInv
  BY LedgerAssumption
     DEF Init, IInv, TypeOK, ReplaySame, KeyHolding, RowsInserted, Loaded, Places, Replies, GoalRows

\* A request comes in: the invariant is kept.
LEMMA ArriveInv ==
  ASSUME IInv, NEW r \in Requests, NEW c \in Commands, Arrive(r, c)
  PROVE  IInv'
  <1>1. TypeOK'
    BY CommandShape, RowShape, EditShape, GoalShape, LedgerAssumption
       DEF IInv, TypeOK, Arrive, rowVars, Answer, GoTo, Places, Replies, Loaded
  <1>2. ReplaySame'
    BY CommandShape, LedgerAssumption
       DEF IInv, TypeOK, ReplaySame, KeyHolding, RowsInserted, Loaded, Arrive, rowVars, Answer, GoTo
  <1>3. KeyHolding'
    BY CommandShape, RowShape, LedgerAssumption
       DEF IInv, TypeOK, KeyHolding, RowsInserted, Loaded, Arrive, rowVars, Answer, GoTo
  <1>4. RowsInserted'
    BY CommandShape, RowShape, EditShape, LedgerAssumption
       DEF IInv, TypeOK, RowsInserted, Loaded, Arrive, rowVars, Answer, GoTo
  <1>5. Loaded'
    BY CommandShape, RowShape, EditShape, LedgerAssumption
       DEF IInv, TypeOK, Loaded, RowsInserted, Arrive, rowVars, Answer, GoTo, Found
  <1>6. QED
    BY <1>1, <1>2, <1>3, <1>4, <1>5 DEF IInv

\* An idempotency record is looked up: the invariant is kept.
LEMMA LookupInv ==
  ASSUME IInv, NEW r \in Requests, Lookup(r)
  PROVE  IInv'
  <1>1. TypeOK'
    BY CommandShape, RowShape, EditShape, GoalShape, LedgerAssumption
       DEF IInv, TypeOK, Lookup, rowVars, Answer, GoTo, Places, Replies, Loaded
  <1>2. ReplaySame'
    BY CommandShape, LedgerAssumption
       DEF IInv, TypeOK, ReplaySame, KeyHolding, RowsInserted, Loaded, Lookup, rowVars, Answer, GoTo
  <1>3. KeyHolding'
    BY CommandShape, RowShape, LedgerAssumption
       DEF IInv, TypeOK, KeyHolding, RowsInserted, Loaded, Lookup, rowVars, Answer, GoTo
  <1>4. RowsInserted'
    BY CommandShape, RowShape, EditShape, LedgerAssumption
       DEF IInv, TypeOK, RowsInserted, Loaded, Lookup, rowVars, Answer, GoTo
  <1>5. Loaded'
    BY CommandShape, RowShape, EditShape, LedgerAssumption
       DEF IInv, TypeOK, Loaded, RowsInserted, Lookup, rowVars, Answer, GoTo, Found
  <1>6. QED
    BY <1>1, <1>2, <1>3, <1>4, <1>5 DEF IInv

\* A creating request loads what it refers to: the invariant is kept.
LEMMA LoadCreateInv ==
  ASSUME IInv, NEW r \in Requests, LoadCreate(r)
  PROVE  IInv'
  <1>1. TypeOK'
    BY CommandShape, RowShape, EditShape, GoalShape, LedgerAssumption, SMTT(30)
       DEF IInv, TypeOK, LoadCreate, rowVars, Answer, GoTo, Places, Replies, Loaded
  <1>2. ReplaySame' /\ KeyHolding'
    BY KeysKept, LedgerAssumption
       DEF IInv, TypeOK, Loaded, LoadCreate, rowVars, Answer, GoTo, HasKey, Creates,
           SavingsOps, Found
  <1>3. RowsInserted'
    BY CommandShape, RowShape, EditShape, LedgerAssumption
       DEF IInv, TypeOK, RowsInserted, Loaded, LoadCreate, rowVars, Answer, GoTo
  <1>4. Loaded'
    <2>1. cmd[r] \in Commands
      BY Running DEF LoadCreate
    <2>2. cmd[r].op \in SavingsOps => goal[cmd[r].goal] \in GoalRows
      BY <2>1, CommandShape DEF IInv, TypeOK
    <2>3. pc'[r] \in {"tally", "write"} =>
            /\ cmd[r].op \in Creates \cup {"contribute"}
            /\ pc'[r] = "tally" => cmd[r].op \in SavingsOps
            /\ cmd[r].op \in SavingsOps => seen'[r] \in GoalRows
      BY <2>2 DEF LoadCreate, GoTo, Answer, IInv, TypeOK
    <2>4. pc'[r] \in {"tally", "write", "done"}
      BY DEF LoadCreate, GoTo, Answer, IInv, TypeOK
    <2>5. \A q \in Requests : q # r => pc'[q] = pc[q] /\ seen'[q] = seen[q]
      BY DEF LoadCreate, GoTo, Answer, IInv, TypeOK
    <2>6. UNCHANGED <<cmd, main>>
      BY DEF LoadCreate, rowVars
    <2>7. pc'[r] \in {"tally", "write"} =>
            /\ cmd[r].op \notin {"update", "void", "retarget", "archive"}
            /\ cmd[r].op \in SavingsOps => seen'[r] \in GoalRows
            /\ pc'[r] = "tally" => cmd[r].op \in SavingsOps
      BY <2>3 DEF Creates
    <2>8. QED
      BY <2>4, <2>5, <2>6, <2>7 DEF IInv, Loaded, Found
  <1>5. QED
    BY <1>1, <1>2, <1>3, <1>4 DEF IInv

\* An edit loads its row: the invariant is kept.
LEMMA LoadEditInv ==
  ASSUME IInv, NEW r \in Requests, LoadEdit(r)
  PROVE  IInv'
  <1>1. TypeOK'
    BY CommandShape, RowShape, EditShape, GoalShape, LedgerAssumption
       DEF IInv, TypeOK, LoadEdit, rowVars, Answer, GoTo, Places, Replies, Loaded
  <1>2. ReplaySame' /\ KeyHolding'
    BY KeysKept, LedgerAssumption
       DEF IInv, TypeOK, Loaded, LoadEdit, rowVars, Answer, GoTo, HasKey, Creates,
           SavingsOps, Found
  <1>3. RowsInserted'
    BY CommandShape, RowShape, EditShape, LedgerAssumption
       DEF IInv, TypeOK, RowsInserted, Loaded, LoadEdit, rowVars, Answer, GoTo
  <1>4. Loaded'
    <2>1. cmd[r] \in Commands
      BY Running DEF LoadEdit
    <2>2. Found(cmd[r].target) => main[cmd[r].target] \in Rows
      BY <2>1, CommandShape DEF IInv, TypeOK, Found, LoadEdit
    <2>3. pc'[r] = "commit" => seen'[r] \in Rows /\ Found(cmd[r].target)
      BY <2>2 DEF LoadEdit, GoTo, Answer, IInv, TypeOK
    <2>4. pc'[r] \in {"commit", "done"}
      BY DEF LoadEdit, GoTo, Answer, IInv, TypeOK
    <2>5. \A q \in Requests : q # r => pc'[q] = pc[q] /\ seen'[q] = seen[q]
      BY DEF LoadEdit, GoTo, Answer, IInv, TypeOK
    <2>6. UNCHANGED <<cmd, main>> /\ cmd[r].op \in {"update", "void"}
      BY DEF LoadEdit, rowVars
    <2>7. QED
      BY <2>3, <2>4, <2>5, <2>6 DEF IInv, Loaded, Found, SavingsOps
  <1>5. QED
    BY <1>1, <1>2, <1>3, <1>4 DEF IInv

\* A change of a goal loads it: the invariant is kept.
LEMMA LoadGoalInv ==
  ASSUME IInv, NEW r \in Requests, LoadGoal(r)
  PROVE  IInv'
  <1>1. TypeOK'
    BY CommandShape, RowShape, EditShape, GoalShape, LedgerAssumption
       DEF IInv, TypeOK, LoadGoal, rowVars, Answer, GoTo, Places, Replies, Loaded
  <1>2. ReplaySame' /\ KeyHolding'
    BY KeysKept, LedgerAssumption
       DEF IInv, TypeOK, Loaded, LoadGoal, rowVars, Answer, GoTo, HasKey, Creates,
           SavingsOps, Found
  <1>3. RowsInserted'
    BY CommandShape, RowShape, EditShape, LedgerAssumption
       DEF IInv, TypeOK, RowsInserted, Loaded, LoadGoal, rowVars, Answer, GoTo
  <1>4. Loaded'
    BY CommandShape, RowShape, EditShape, LedgerAssumption
       DEF IInv, TypeOK, Loaded, RowsInserted, LoadGoal, rowVars, Answer, GoTo, Found
  <1>5. QED
    BY <1>1, <1>2, <1>3, <1>4 DEF IInv

\* The contributions are summed up: the invariant is kept.
LEMMA TallyInv ==
  ASSUME IInv, NEW r \in Requests, Tally(r)
  PROVE  IInv'
  <1>1. TypeOK'
    BY CommandShape, RowShape, EditShape, GoalShape, LedgerAssumption
       DEF IInv, TypeOK, Tally, rowVars, Answer, GoTo, Places, Replies, Loaded
  <1>2. ReplaySame' /\ KeyHolding'
    BY KeysKept, LedgerAssumption
       DEF IInv, TypeOK, Loaded, Tally, rowVars, Answer, GoTo, HasKey, Creates,
           SavingsOps, Found
  <1>3. RowsInserted'
    BY CommandShape, RowShape, EditShape, LedgerAssumption
       DEF IInv, TypeOK, RowsInserted, Loaded, Tally, rowVars, Answer, GoTo
  <1>4. Loaded'
    BY CommandShape, RowShape, EditShape, LedgerAssumption
       DEF IInv, TypeOK, Loaded, RowsInserted, Tally, rowVars, Answer, GoTo, Found
  <1>5. QED
    BY <1>1, <1>2, <1>3, <1>4 DEF IInv

\* The rows are flushed: the invariant is kept.
LEMMA WriteInv ==
  ASSUME IInv, NEW r \in Requests, Write(r)
  PROVE  IInv'
  <1>1. TypeOK'
    BY CommandShape, RowShape, EditShape, GoalShape, LedgerAssumption
       DEF IInv, TypeOK, Write, rowVars, Answer, GoTo, Places, Replies, Loaded
  <1>2. ReplaySame'
    BY CommandShape, LedgerAssumption
       DEF IInv, TypeOK, ReplaySame, KeyHolding, RowsInserted, Loaded, Write, rowVars, Answer, GoTo
  <1>3. KeyHolding'
    <2>1. /\ UNCHANGED <<cmd, main, idem, body>>
          /\ \A q \in Requests : q # r => pc'[q] = pc[q]
          /\ pc[r] = "write"
      BY DEF Write, rowVars, GoTo, Answer, IInv, TypeOK
    <2>2. HasKey(cmd[r]) /\ pc'[r] = "commit" =>
            idem[Slot(cmd[r])] = NoRequest /\ ~ KeyHeld(Slot(cmd[r]))
      BY DEF Write, GoTo, Answer, IInv, TypeOK
    <2>3. QED
      BY <2>1, <2>2, SMTT(30) DEF IInv, KeyHolding, KeyHeld
  <1>4. RowsInserted'
    BY CommandShape, RowShape, EditShape, LedgerAssumption
       DEF IInv, TypeOK, RowsInserted, Loaded, Write, rowVars, Answer, GoTo
  <1>5. Loaded'
    BY CommandShape, RowShape, EditShape, LedgerAssumption
       DEF IInv, TypeOK, Loaded, RowsInserted, Write, rowVars, Answer, GoTo, Found
  <1>6. QED
    BY <1>1, <1>2, <1>3, <1>4, <1>5 DEF IInv

\* A creating request commits: the invariant is kept.
LEMMA CommitCreateInv ==
  ASSUME IInv, NEW r \in Requests, CommitCreate(r)
  PROVE  IInv'
  <1>1. TypeOK'
    <2>1. cmd[r] \in Commands
      BY Running DEF CommitCreate
    <2>2. /\ MainRow(cmd[r]) \in Rows \cup {NoRow}
          /\ CreditRow(cmd[r]) \in Rows \cup {NoRow}
      BY <2>1, RowShape
    <2>3. HasKey(cmd[r]) => Slot(cmd[r]) \in Slots
      BY <2>1, CommandShape
    <2>4. goal' \in [Goals -> GoalRows]
      <3>1. CASE cmd[r].op \in SavingsOps
        <4>1. cmd[r].goal \in Goals /\ goal[cmd[r].goal] \in GoalRows
          BY <2>1, <3>1, CommandShape DEF IInv, TypeOK
        <4>2. Written(goal[cmd[r].goal], seen[r], ChangedGoal(r)) \in GoalRows
          BY <3>1, <4>1, GoalShape DEF CommitCreate
        <4>3. QED
          BY <3>1, <4>2 DEF CommitCreate, CommitGoalOf, IInv, TypeOK
      <3>2. CASE cmd[r].op \notin SavingsOps
        BY <3>2 DEF CommitCreate, IInv, TypeOK
      <3>3. QED
        BY <3>1, <3>2
    <2>5. UNCHANGED <<cmd, seen, met, usable>> /\ pc[r] = "commit"
      BY DEF CommitCreate
    <2>6. /\ main' \in [Requests -> Rows \cup {NoRow}]
          /\ credit' \in [Requests -> Rows \cup {NoRow}]
          /\ gave' \in [Requests -> BOOLEAN]
      BY <2>2 DEF CommitCreate, IInv, TypeOK
    <2>7. /\ idem' \in [Slots -> Requests \cup {NoRequest}]
          /\ body' \in [Requests -> Requests \cup {NoRequest}]
      BY <2>3 DEF CommitCreate, IInv, TypeOK
    <2>8. QED
      BY <2>4, <2>5, <2>6, <2>7
         DEF CommitCreate, Answer, IInv, TypeOK, Places, Replies
  <1>2. ReplaySame'
    <2>1. cmd[r] \in Commands /\ pc[r] = "commit" /\ UNCHANGED cmd
      BY Running DEF CommitCreate
    <2>2. HasKey(cmd[r]) => /\ Slot(cmd[r]) \in Slots
                            /\ MainRow(cmd[r]) # NoRow
                            /\ idem[Slot(cmd[r])] = NoRequest
      BY <2>1, CommandShape, RowShape, LedgerAssumption DEF IInv, TypeOK, KeyHolding
    <2>3. /\ main' = [main EXCEPT ![r] = MainRow(cmd[r])]
          /\ idem' = IF HasKey(cmd[r]) THEN [idem EXCEPT ![Slot(cmd[r])] = r] ELSE idem
          /\ body' = [body EXCEPT ![r] = r]
      BY DEF CommitCreate
    <2>4. \A q \in Requests : q # r => reply'[q] = reply[q] /\ body'[q] = body[q]
      BY <2>3 DEF CommitCreate, Answer, IInv, TypeOK
    <2>5. main[r] = NoRow
      BY <2>1 DEF IInv, RowsInserted
    <2>6. SUFFICES ASSUME NEW q \in Requests, cmd[q] # NoRequest, HasKey(cmd[q]), reply'[q] = "ok"
                   PROVE  /\ body'[q] \in Requests /\ body'[q] = idem'[Slot(cmd[q])]
                          /\ cmd[body'[q]] = cmd[q]
                          /\ main'[body'[q]] # NoRow
      BY <2>1 DEF ReplaySame
    <2>7. CASE q = r
      BY <2>2, <2>3, <2>6, <2>7 DEF IInv, TypeOK
    <2>8. CASE q # r
      <3>1. /\ body[q] \in Requests /\ body[q] = idem[Slot(cmd[q])]
            /\ cmd[body[q]] = cmd[q]
            /\ main[body[q]] # NoRow
        BY <2>4, <2>6, <2>8 DEF IInv, ReplaySame
      <3>2. Slot(cmd[q]) \in Slots
        BY <2>6, CommandShape DEF IInv, TypeOK
      <3>3. idem'[Slot(cmd[q])] = idem[Slot(cmd[q])]
        BY <2>2, <2>3, <3>1, <3>2, LedgerAssumption DEF IInv, TypeOK
      <3>4. main'[body[q]] # NoRow
        BY <2>3, <2>5, <3>1 DEF IInv, TypeOK
      <3>5. QED
        BY <2>4, <2>8, <3>1, <3>3, <3>4
    <2>9. QED
      BY <2>7, <2>8
  <1>3. KeyHolding'
    BY CommandShape, RowShape, LedgerAssumption
       DEF IInv, TypeOK, KeyHolding, RowsInserted, Loaded, CommitCreate, rowVars, Answer, GoTo
  <1>4. RowsInserted'
    BY CommandShape, RowShape, EditShape, LedgerAssumption
       DEF IInv, TypeOK, RowsInserted, Loaded, CommitCreate, rowVars, Answer, GoTo
  <1>5. Loaded'
    BY CommandShape, RowShape, EditShape, LedgerAssumption
       DEF IInv, TypeOK, Loaded, RowsInserted, CommitCreate, rowVars, Answer, GoTo, Found
  <1>6. QED
    BY <1>1, <1>2, <1>3, <1>4, <1>5 DEF IInv

\* An edit commits: the invariant is kept.
LEMMA CommitEditInv ==
  ASSUME IInv, NEW r \in Requests, CommitEdit(r)
  PROVE  IInv'
  <1> DEFINE t == cmd[r].target
             entry == Written(main[t], seen[r], Edited(cmd[r], seen[r]))
  <1>0. /\ cmd[r] \in Commands /\ pc[r] = "commit" /\ cmd[r].op \in {"update", "void"}
        /\ cmd[r].target \in Requests
        /\ main[cmd[r].target] \in Rows /\ seen[r] \in Rows
        /\ main[cmd[r].target].kind \in {"income", "expense"}
    <2>1. cmd[r] \in Commands /\ pc[r] = "commit" /\ cmd[r].op \in {"update", "void"}
      BY Running DEF CommitEdit
    <2>2. cmd[r].target \in Requests
      BY <2>1, CommandShape
    <2>3. seen[r] \in Rows /\ Found(cmd[r].target)
      BY <2>1 DEF IInv, Loaded
    <2>4. QED
      BY <2>1, <2>2, <2>3 DEF IInv, TypeOK, Found
  <1>r. entry \in Rows /\ entry.kind \in {"income", "expense"} /\ entry # NoRow
    BY <1>0, EditShape, LedgerAssumption
  <1>m. /\ main' = [main EXCEPT ![t] = entry]
        /\ UNCHANGED <<cmd, body, seen, met, credit, gave, idem, usable, goal>>
        /\ pc' = [pc EXCEPT ![r] = "done"] /\ reply' = [reply EXCEPT ![r] = "ok"]
    BY DEF CommitEdit, Answer
  <1> HIDE DEF entry
  <1>1. TypeOK'
    BY <1>0, <1>r, <1>m DEF IInv, TypeOK, Places, Replies
  <1>2. ReplaySame' /\ KeyHolding'
    <2>1. \A q \in Requests : main'[q] = NoRow <=> main[q] = NoRow
      BY <1>0, <1>r, <1>m, LedgerAssumption DEF IInv, TypeOK
    <2>2. ~ HasKey(cmd[r])
      BY <1>0 DEF HasKey, Creates
    <2>3. \A q \in Requests : q # r => pc'[q] = pc[q] /\ reply'[q] = reply[q]
      BY <1>m DEF IInv, TypeOK
    <2>4. QED
      BY <1>m, <2>1, <2>2, <2>3, KeysKept
  <1>3. RowsInserted'
    BY <1>0, <1>r, <1>m, LedgerAssumption DEF IInv, TypeOK, RowsInserted
  <1>4. Loaded'
    BY <1>0, <1>r, <1>m DEF IInv, TypeOK, Loaded, Found
  <1>5. QED
    BY <1>1, <1>2, <1>3, <1>4 DEF IInv

\* A change of a goal commits: the invariant is kept.
LEMMA CommitGoalInv ==
  ASSUME IInv, NEW r \in Requests, CommitGoal(r)
  PROVE  IInv'
  <1>1. TypeOK'
    <2>1. cmd[r] \in Commands /\ pc[r] = "commit" /\ cmd[r].op \in {"retarget", "archive"}
      BY Running DEF CommitGoal
    <2>2. cmd[r].goal \in Goals /\ goal[cmd[r].goal] \in GoalRows
      BY <2>1, CommandShape DEF IInv, TypeOK
    <2>3. Written(goal[cmd[r].goal], seen[r], ChangedGoal(r)) \in GoalRows
      BY <2>1, <2>2, GoalShape
    <2>4. goal' \in [Goals -> GoalRows]
      BY <2>3 DEF CommitGoal, CommitGoalOf, IInv, TypeOK
    <2>5. QED
      BY <2>1, <2>4 DEF CommitGoal, Answer, IInv, TypeOK, Places, Replies
  <1>2. ReplaySame' /\ KeyHolding'
    BY KeysKept, LedgerAssumption
       DEF IInv, TypeOK, Loaded, CommitGoal, rowVars, Answer, GoTo, HasKey, Creates,
           SavingsOps, Found
  <1>3. RowsInserted'
    BY CommandShape, RowShape, EditShape, LedgerAssumption
       DEF IInv, TypeOK, RowsInserted, Loaded, CommitGoal, rowVars, Answer, GoTo
  <1>4. Loaded'
    BY CommandShape, RowShape, EditShape, LedgerAssumption
       DEF IInv, TypeOK, Loaded, RowsInserted, CommitGoal, rowVars, Answer, GoTo, Found
  <1>5. QED
    BY <1>1, <1>2, <1>3, <1>4 DEF IInv

\* A handler is aborted: the invariant is kept.
LEMMA AbortInv ==
  ASSUME IInv, NEW r \in Requests, Abort(r)
  PROVE  IInv'
  <1>1. TypeOK'
    BY CommandShape, RowShape, EditShape, GoalShape, LedgerAssumption
       DEF IInv, TypeOK, Abort, rowVars, Answer, GoTo, Places, Replies, Loaded
  <1>2. ReplaySame' /\ KeyHolding'
    BY KeysKept, LedgerAssumption
       DEF IInv, TypeOK, Loaded, Abort, rowVars, Answer, GoTo, HasKey, Creates,
           SavingsOps, Found
  <1>3. RowsInserted'
    BY CommandShape, RowShape, EditShape, LedgerAssumption
       DEF IInv, TypeOK, RowsInserted, Loaded, Abort, rowVars, Answer, GoTo
  <1>4. Loaded'
    BY CommandShape, RowShape, EditShape, LedgerAssumption
       DEF IInv, TypeOK, Loaded, RowsInserted, Abort, rowVars, Answer, GoTo, Found
  <1>5. QED
    BY <1>1, <1>2, <1>3, <1>4 DEF IInv

\* Closing an account concerns no handler: the invariant is kept.
LEMMA DisableInv ==
  ASSUME IInv, NEW a \in Accounts, Disable(a)
  PROVE  IInv'
  BY DEF IInv, TypeOK, ReplaySame, KeyHolding, RowsInserted, Loaded, Found, Disable, requestVars

\* Every step keeps the invariant.
LEMMA StepInv == IInv /\ [Next]_vars => IInv'
  <1> SUFFICES ASSUME IInv, [Next]_vars
               PROVE  IInv'
    OBVIOUS
  <1>1. ASSUME NEW r \in Requests, Handle(r)
        PROVE  IInv'
    BY <1>1, LookupInv, LoadCreateInv, LoadEditInv, LoadGoalInv, TallyInv, WriteInv,
       CommitCreateInv, CommitEditInv, CommitGoalInv
       DEF Handle
  <1>2. ASSUME NEW r \in Requests, NEW c \in Commands, Arrive(r, c)
        PROVE  IInv'
    BY <1>2, ArriveInv
  <1>3. ASSUME NEW r \in Requests, Abort(r)
        PROVE  IInv'
    BY <1>3, AbortInv
  <1>4. ASSUME NEW a \in Accounts, Disable(a)
        PROVE  IInv'
    BY <1>4, DisableInv
  <1>5. CASE UNCHANGED vars
    BY <1>5 DEF vars, requestVars, rowVars, IInv, TypeOK, ReplaySame, KeyHolding,
               RowsInserted, Loaded, Found
  <1>6. QED
    BY <1>1, <1>2, <1>3, <1>4, <1>5 DEF Next

\* Two requests that inserted rows under one key are the same: the key's record is theirs.
LEMMA KeyOnceHolds == IInv => KeyOnce
  <1> SUFFICES ASSUME IInv, NEW q \in Requests, NEW r \in Requests,
                      main[q] # NoRow, main[r] # NoRow,
                      HasKey(cmd[q]), HasKey(cmd[r]), Slot(cmd[q]) = Slot(cmd[r])
               PROVE  q = r
    BY DEF KeyOnce
  <1>1. cmd[q] # NoRequest /\ cmd[r] # NoRequest
    BY DEF IInv, TypeOK, RowsInserted
  <1>2. QED
    BY <1>1 DEF IInv, KeyHolding

\* A step leaves a voided row voided: an edit writes only the fields it changed.
LEMMA VoidStep ==
  ASSUME IInv, [Next]_vars, IInv'
  PROVE  \A r \in Requests :
           /\ main[r] # NoRow /\ main[r].voided => main'[r] # NoRow /\ main'[r].voided
           /\ main'[r] # NoRow /\ main'[r].voided => main'[r].kind \in {"income", "expense"}
  <1>1. ASSUME NEW r \in Requests, main'[r] # NoRow, main'[r].voided
        PROVE  main'[r].kind \in {"income", "expense"}
    BY <1>1 DEF IInv, RowsInserted
  <1>2. ASSUME NEW r \in Requests, main[r] # NoRow, main[r].voided
        PROVE  main'[r] # NoRow /\ main'[r].voided
    <2>1. ASSUME NEW q \in Requests, CommitCreate(q)
          PROVE  main'[r] = main[r]
      <3>1. main[q] = NoRow
        BY <2>1 DEF CommitCreate, IInv, RowsInserted
      <3>2. QED
        BY <1>2, <2>1, <3>1 DEF CommitCreate, IInv, TypeOK
    <2>2. ASSUME NEW q \in Requests, CommitEdit(q)
          PROVE  main'[r] # NoRow /\ main'[r].voided
      <3>1. cmd[q] \in Commands /\ cmd[q].op \in {"update", "void"} /\ seen[q] \in Rows
        BY <2>2, Running DEF CommitEdit, IInv, Loaded
      <3>2. main[r] \in Rows
        BY <1>2 DEF IInv, TypeOK
      <3>3. LET entry == Written(main[r], seen[q], Edited(cmd[q], seen[q])) IN
            entry \in Rows /\ entry.voided
        BY <1>2, <3>1, <3>2, EditShape
      <3>4. main'[r] \in {main[r], Written(main[r], seen[q], Edited(cmd[q], seen[q]))}
        BY <2>2 DEF CommitEdit, IInv, TypeOK
      <3>5. QED
        BY <1>2, <3>3, <3>4, LedgerAssumption
    <2>3. CASE UNCHANGED main
      BY <1>2, <2>3
    <2>4. QED
      BY <1>2, <2>1, <2>2, <2>3
         DEF Next, Handle, Lookup, LoadCreate, LoadEdit, LoadGoal, Tally, Write, CommitGoal,
             Arrive, Abort, Disable, rowVars, vars
  <1>3. QED
    BY <1>1, <1>2

-----------------------------------------------------------------------------
\* What a request gave to a goal is a natural number.
LEMMA GivenNat ==
  ASSUME IInv, RowsAsAsked, NEW r \in Requests, NEW g
  PROVE  Given(r, g) \in Nat
  <1>1. gave[r] => cmd[r] \in Commands /\ cmd[r].op \in SavingsOps
    BY DEF IInv, TypeOK, RowsAsAsked
  <1>2. gave[r] => cmd[r].amount \in Amount
    BY <1>1, CommandShape
  <1>3. QED
    BY <1>2, LedgerAssumption DEF Given, Amount

\* The saved amount is a natural number.
LEMMA SavedNat ==
  ASSUME IInv, RowsAsAsked, NEW g
  PROVE  SavedAmount(g) \in Nat
  <1> DEFINE given == [r \in Requests |-> Given(r, g)]
  <1>1. \A r \in Requests : given[r] \in Nat
    BY GivenNat
  <1>2. DOMAIN given = Requests /\ IsFiniteSet(Requests)
    BY LedgerAssumption
  <1>3. SavedAmount(g) = SumFunctionOnSet(given, Requests)
    BY <1>2 DEF SavedAmount, SumFunction
  <1> HIDE DEF given
  <1>4. QED
    BY <1>1, <1>2, <1>3, SumNat

\* Steps that add no contribution leave the saved amounts.
LEMMA SavedSame ==
  ASSUME UNCHANGED gave, \A r \in Requests : gave[r] => cmd'[r] = cmd[r], NEW g
  PROVE  SavedAmount(g)' = SavedAmount(g)
  <1>1. \A r \in Requests : Given(r, g)' = Given(r, g)
    BY DEF Given
  <1>2. [r \in Requests |-> Given(r, g)]' = [r \in Requests |-> Given(r, g)]
    BY <1>1
  <1>3. QED
    BY <1>2 DEF SavedAmount

\* A contribution adds its amount to what its goal has.
LEMMA SavedGrows ==
  ASSUME MoneyInv, NEW r \in Requests, CommitCreate(r), NEW g
  PROVE  SavedAmount(g)' =
           SavedAmount(g) + IF cmd[r].op \in SavingsOps /\ cmd[r].goal = g THEN cmd[r].amount ELSE 0
  <1> DEFINE before == [q \in Requests |-> Given(q, g)]
             after == [q \in Requests |-> Given(q, g)']
  <1>1. /\ gave' = [gave EXCEPT ![r] = cmd[r].op \in SavingsOps]
        /\ UNCHANGED cmd
        /\ ~ gave[r]
    BY DEF CommitCreate, MoneyInv, RowsAsAsked
  <1>2. \A q \in Requests : before[q] \in Int
    BY GivenNat DEF MoneyInv
  <1>3. \A q \in Requests \ {r} : before[q] = after[q]
    BY <1>1 DEF Given, MoneyInv, IInv, TypeOK
  <1>4. /\ before[r] = 0
        /\ after[r] = IF cmd[r].op \in SavingsOps /\ cmd[r].goal = g THEN cmd[r].amount ELSE 0
        /\ after[r] \in Int
    <2>1. cmd[r] \in Commands
      BY Running DEF CommitCreate, MoneyInv
    <2>2. cmd[r].op \in SavingsOps => cmd[r].amount \in Int
      BY <2>1, CommandShape, LedgerAssumption DEF Amount
    <2>3. before[r] = Given(r, g) /\ after[r] = Given(r, g)'
      OBVIOUS
    <2>4. gave'[r] <=> cmd[r].op \in SavingsOps
      <3>1. gave \in [Requests -> BOOLEAN]
        BY DEF MoneyInv, IInv, TypeOK
      <3>2. gave'[r] = (cmd[r].op \in SavingsOps)
        BY <1>1, <3>1, Zenon
      <3>3. QED
        BY <3>2
    <2> HIDE DEF before, after
    <2>5. Given(r, g) = 0
      BY <1>1, <2>4 DEF Given
    <2>6. Given(r, g)' =
            IF cmd[r].op \in SavingsOps /\ cmd[r].goal = g THEN cmd[r].amount ELSE 0
      BY <1>1, <2>4 DEF Given
    <2>7. QED
      BY <2>2, <2>3, <2>5, <2>6
  <1>5. /\ SavedAmount(g) = SumFunctionOnSet(before, Requests)
        /\ SavedAmount(g)' = SumFunctionOnSet(after, Requests)
    BY DEF SavedAmount, SumFunction
  <1>6. SumFunctionOnSet(before, Requests) \in Int
    BY <1>5, SavedNat DEF MoneyInv
  <1> HIDE DEF before, after
  <1>7. SumFunctionOnSet(after, Requests)
          = SumFunctionOnSet(before, Requests) + after[r] - before[r]
    <2>1. \A q \in Requests : before[q] \in Int /\ after[q] \in Int
      BY <1>2, <1>3, <1>4
    <2>2. IsFiniteSet(Requests)
      BY LedgerAssumption
    <2>3. QED
      BY <1>3, <2>1, <2>2, SumUpdate
  <1>8. QED
    BY <1>2, <1>4, <1>5, <1>6, <1>7

\* Commands stay, so a goal that is steady was steady.
LEMMA SteadyWas ==
  ASSUME \A q \in Requests : cmd[q] # NoRequest => cmd'[q] = cmd[q], NEW g, Steady(g)'
  PROVE  Steady(g)
  BY DEF Steady

\* A step that changes no ledger row, contribution or goal, and of one handler only, keeps
\* what is known of rows and goals when that handler's view is true after it.
LEMMA QuietStep ==
  ASSUME MoneyInv, NEW r \in Requests, UNCHANGED <<main, credit, gave, goal>>,
         \A q \in Requests : cmd[q] # NoRequest => cmd'[q] = cmd[q],
         \A q \in Requests : pc[q] = "done" => pc'[q] = "done",
         \A q \in Requests \ {r} : /\ cmd'[q] = cmd[q] /\ pc'[q] = pc[q]
                                   /\ seen'[q] = seen[q] /\ met'[q] = met[q],
         ViewTrue(r)'
  PROVE  RowsAsAsked' /\ ViewsTrue' /\ CompletedWasEarned'
  <1>1. \A q \in Requests : main[q] # NoRow \/ gave[q] => cmd'[q] = cmd[q]
    BY LedgerAssumption DEF MoneyInv, IInv, TypeOK, RowsInserted, RowsAsAsked
  <1>2. \A g : SavedAmount(g)' = SavedAmount(g)
    BY <1>1, SavedSame
  <1>3. \A g : Steady(g)' => Steady(g)
    BY SteadyWas
  <1>4. RowsAsAsked'
    BY <1>1 DEF MoneyInv, RowsAsAsked
  <1>5. ASSUME NEW q \in Requests \ {r}
        PROVE  ViewTrue(q)'
    BY <1>2, <1>3 DEF MoneyInv, ViewsTrue, ViewTrue
  <1>6. ViewsTrue'
    BY <1>5 DEF ViewsTrue
  <1>7. CompletedWasEarned'
    BY <1>2, <1>3 DEF MoneyInv, CompletedWasEarned
  <1>8. QED
    BY <1>4, <1>6, <1>7

\* Arrivals, look-ups and loads.
LEMMA MoneyArrive ==
  ASSUME MoneyInv, NEW r \in Requests, NEW c \in Commands, Arrive(r, c)
  PROVE  RowsAsAsked' /\ ViewsTrue' /\ CompletedWasEarned'
  <1>1. pc'[r] \in {"lookup", "load"}
    BY DEF Arrive, GoTo, MoneyInv, IInv, TypeOK
  <1>2. ViewTrue(r)'
    BY <1>1 DEF ViewTrue
  <1>3. /\ UNCHANGED <<main, credit, gave, goal>>
        /\ \A q \in Requests : cmd[q] # NoRequest => cmd'[q] = cmd[q]
        /\ \A q \in Requests : pc[q] = "done" => pc'[q] = "done"
        /\ \A q \in Requests \ {r} : /\ cmd'[q] = cmd[q] /\ pc'[q] = pc[q]
                                     /\ seen'[q] = seen[q] /\ met'[q] = met[q]
    BY DEF Arrive, GoTo, MoneyInv, IInv, TypeOK, rowVars
  <1>4. QED
    BY <1>2, <1>3, QuietStep

\* A step of a handler that writes nothing.
Reading(r) ==
  \/ Lookup(r) \/ LoadCreate(r) \/ LoadEdit(r) \/ LoadGoal(r) \/ Tally(r) \/ Write(r) \/ Abort(r)
LEMMA MoneyReading ==
  ASSUME MoneyInv, NEW r \in Requests, Reading(r)
  PROVE  RowsAsAsked' /\ ViewsTrue' /\ CompletedWasEarned'
  <1>1. /\ UNCHANGED <<cmd, main, credit, gave, goal>>
        /\ pc[r] # "done"
        /\ \A q \in Requests \ {r} : /\ cmd'[q] = cmd[q] /\ pc'[q] = pc[q]
                                     /\ seen'[q] = seen[q] /\ met'[q] = met[q]
    BY DEF Reading, Lookup, LoadCreate, LoadEdit, LoadGoal, Tally, Write, Abort,
           GoTo, Answer, MoneyInv, IInv, TypeOK, rowVars
  <1>2. \A g : SavedAmount(g)' = SavedAmount(g) /\ (Steady(g)' => Steady(g))
    BY <1>1, SavedSame, SteadyWas
  <1>3. ViewTrue(r)'
    <2>1. CASE Lookup(r) \/ Abort(r)
      BY <2>1 DEF Lookup, Abort, GoTo, Answer, ViewTrue, MoneyInv, IInv, TypeOK
    <2>2. CASE LoadCreate(r)
      BY <2>2, <1>1 DEF LoadCreate, GoTo, Answer, ViewTrue, MoneyInv, IInv, TypeOK, Creates,
                           SavingsOps
    <2>3. CASE LoadEdit(r)
      BY <2>3, <1>1 DEF LoadEdit, GoTo, Answer, ViewTrue, SavingsOps, MoneyInv, IInv, TypeOK
    <2>4. CASE LoadGoal(r)
      BY <2>4, <1>1 DEF LoadGoal, GoTo, Answer, ViewTrue, SavingsOps, MoneyInv, IInv, TypeOK
    <2>5. CASE Tally(r)
      <3>1. SUFFICES ASSUME cmd[r].op \in SavingsOps, Steady(cmd[r].goal)
                     PROVE  /\ seen[r].target = goal[cmd[r].goal].target
                            /\ met'[r] => SavedAmount(cmd[r].goal) + cmd[r].amount
                                            >= goal[cmd[r].goal].target
        BY <1>1, <1>2, <2>5 DEF Tally, ViewTrue, MoneyInv, IInv, Loaded, SavingsOps
      <3>2. seen[r].target = goal[cmd[r].goal].target
        BY <2>5, <3>1, Running DEF Tally, MoneyInv, ViewsTrue, ViewTrue, IInv, TypeOK
      <3>3. met'[r] = (SavedAmount(cmd[r].goal) + cmd[r].amount >= seen[r].target)
        BY <2>5, <3>1 DEF Tally, OwnContribution, SavingsOps, MoneyInv, IInv, TypeOK
      <3>4. QED
        BY <3>2, <3>3
    <2>6. CASE Write(r)
      BY <2>6, <1>1, <1>2 DEF Write, GoTo, Answer, ViewTrue, MoneyInv, ViewsTrue, IInv, TypeOK
    <2>7. QED
      BY <2>1, <2>2, <2>3, <2>4, <2>5, <2>6 DEF Reading
  <1>4. QED
    BY <1>1, <1>3, QuietStep

\* What a request that contributes, or archives a goal, writes to it: never the target,
\* and completion only when the saved amount it calculated meets the target.
LEMMA GoalWritten ==
  ASSUME IInv, NEW r \in Requests, pc[r] = "commit", cmd[r].op \in SavingsOps \cup {"archive"},
         NEW now \in GoalRows
  PROVE  LET new == Written(now, seen[r], ChangedGoal(r)) IN
         /\ new.target = now.target
         /\ new.status = "completed" /\ now.status # "completed" =>
              cmd[r].op \in SavingsOps /\ met[r]
  <1>1. seen[r] \in GoalRows
    BY DEF IInv, Loaded
  <1>2. ChangedGoal(r).target = seen[r].target
    BY <1>1 DEF ChangedGoal, GoalRows, SavingsOps
  <1>3. ChangedGoal(r).status = "completed" /\ ChangedGoal(r).status # seen[r].status =>
          cmd[r].op \in SavingsOps /\ met[r]
    BY <1>1 DEF ChangedGoal, GoalRows, SavingsOps, Completion
  <1>4. QED
    BY <1>2, <1>3 DEF Written, GoalRows

\* A creating request commits.
LEMMA MoneyCreate ==
  ASSUME MoneyInv, NEW r \in Requests, CommitCreate(r)
  PROVE  RowsAsAsked' /\ ViewsTrue' /\ CompletedWasEarned'
  <1>1. /\ cmd[r] \in Commands /\ pc[r] = "commit"
        /\ cmd[r].op \in Creates \cup {"contribute"}
        /\ main[r] = NoRow /\ ~ gave[r]
        /\ UNCHANGED <<cmd, seen, met>>
        /\ pc' = [pc EXCEPT ![r] = "done"]
        /\ main' = [main EXCEPT ![r] = MainRow(cmd[r])]
        /\ credit' = [credit EXCEPT ![r] = CreditRow(cmd[r])]
        /\ gave' = [gave EXCEPT ![r] = cmd[r].op \in SavingsOps]
    BY Running DEF CommitCreate, Answer, MoneyInv, IInv, RowsInserted, RowsAsAsked
  <1>2. RowsAsAsked'
    <2>1. /\ gave'[r] => pc'[r] = "done" /\ cmd[r].op \in SavingsOps
          /\ main'[r] = NoRow => credit'[r] = NoRow
          /\ main'[r] # NoRow =>
               /\ cmd[r].op \in Creates
               /\ cmd[r].op \in {"income", "expense"} =>
                    main'[r].kind = cmd[r].op /\ credit'[r] = NoRow
               /\ cmd[r].op \in {"transfer", "savings"} =>
                    main'[r] = MainRow(cmd[r]) /\ credit'[r] = CreditRow(cmd[r])
               /\ cmd[r].op = "savings" => gave'[r]
      <3>1. /\ main'[r] = MainRow(cmd[r]) /\ credit'[r] = CreditRow(cmd[r]) /\ pc'[r] = "done"
            /\ gave'[r] <=> cmd[r].op \in SavingsOps
        BY <1>1 DEF MoneyInv, IInv, TypeOK
      <3>2. /\ cmd[r].op \in Creates => MainRow(cmd[r]) # NoRow
            /\ cmd[r].op \notin Creates => MainRow(cmd[r]) = NoRow
        BY <1>1, RowShape, LedgerAssumption
      <3>3. cmd[r].op # "transfer" => CreditRow(cmd[r]) = NoRow
        BY DEF CreditRow
      <3>4. cmd[r].op \in {"income", "expense"} => MainRow(cmd[r]).kind = cmd[r].op
        BY DEF MainRow, Row
      <3>5. QED
        BY <1>1, <3>1, <3>2, <3>3, <3>4 DEF Creates, SavingsOps
    <2>2. \A q \in Requests \ {r} : /\ main'[q] = main[q] /\ credit'[q] = credit[q]
                                    /\ gave'[q] = gave[q] /\ pc'[q] = pc[q]
      BY <1>1 DEF MoneyInv, IInv, TypeOK
    <2>3. QED
      BY <1>1, <2>1, <2>2 DEF MoneyInv, RowsAsAsked
  <1>3. \A g : SavedAmount(g)' =
          SavedAmount(g) + IF cmd[r].op \in SavingsOps /\ cmd[r].goal = g THEN cmd[r].amount ELSE 0
    BY SavedGrows
  <1>4. \A g : SavedAmount(g) \in Int
    BY SavedNat DEF MoneyInv
  <1>5. cmd[r].op \in SavingsOps =>
          /\ cmd[r].amount \in Nat
          /\ cmd[r].goal \in Goals
    BY <1>1, CommandShape, LedgerAssumption DEF Amount
  <1>6. \A g : SavedAmount(g)' \in Int /\ SavedAmount(g)' >= SavedAmount(g)
    BY <1>3, <1>4, <1>5
  <1>7. \A g : Steady(g)' => Steady(g)
    BY <1>1, SteadyWas
  <1>8. ASSUME NEW g \in Goals
        PROVE  /\ goal'[g].target = goal[g].target /\ goal[g].target \in Int
               /\ goal'[g].status = "completed" /\ goal[g].status # "completed" =>
                    cmd[r].op \in SavingsOps /\ cmd[r].goal = g /\ met[r]
    <2>1. goal[g] \in GoalRows /\ goal[g].target \in Int
      BY LedgerAssumption DEF MoneyInv, IInv, TypeOK, GoalRows, Amount
    <2>2. CASE cmd[r].op \in SavingsOps /\ cmd[r].goal = g
      <3>1. goal'[g] = Written(goal[g], seen[r], ChangedGoal(r))
        BY <2>2 DEF CommitCreate, CommitGoalOf, MoneyInv, IInv, TypeOK
      <3>2. QED
        BY <1>1, <2>1, <2>2, <3>1, GoalWritten DEF MoneyInv
    <2>3. CASE ~ (cmd[r].op \in SavingsOps /\ cmd[r].goal = g)
      BY <2>1, <2>3 DEF CommitCreate, CommitGoalOf, MoneyInv, IInv, TypeOK
    <2>4. QED
      BY <2>2, <2>3
  <1>9. ASSUME NEW q \in Requests
        PROVE  ViewTrue(q)'
    <2>1. CASE q = r
      BY <1>1, <2>1 DEF ViewTrue, MoneyInv, IInv, TypeOK
    <2>2. CASE q # r
      <3>1. SUFFICES ASSUME NEW g, g = cmd[q].goal, Steady(g)',
                            cmd[q] # NoRequest, cmd[q].op \in SavingsOps \cup {"archive"}
                     PROVE  /\ pc[q] \in {"tally", "write", "commit"} =>
                                 seen[q].target = goal'[g].target
                            /\ pc[q] \in {"write", "commit"}
                               /\ cmd[q].op \in SavingsOps /\ met[q] =>
                                 SavedAmount(g)' + cmd[q].amount >= goal'[g].target
        BY <1>1, <2>2 DEF ViewTrue, MoneyInv, IInv, TypeOK
      <3>2. g \in Goals /\ (cmd[q].op \in SavingsOps => cmd[q].amount \in Int)
        BY <3>1, CommandShape, LedgerAssumption DEF MoneyInv, IInv, TypeOK, Amount
      <3>3. ViewTrue(q) /\ Steady(g)
        BY <1>7, <3>1 DEF MoneyInv, ViewsTrue
      <3>4. QED
        BY <1>4, <1>6, <1>8, <3>1, <3>2, <3>3 DEF ViewTrue
    <2>3. QED
      BY <2>1, <2>2
  <1>10. ASSUME NEW g \in Goals, goal'[g].status = "completed", Steady(g)'
         PROVE  SavedAmount(g)' >= goal'[g].target
    <2>1. Steady(g)
      BY <1>7, <1>10
    <2>2. CASE goal[g].status = "completed"
      BY <1>4, <1>6, <1>8, <2>1, <2>2 DEF MoneyInv, CompletedWasEarned
    <2>3. CASE goal[g].status # "completed"
      <3>1. cmd[r].op \in SavingsOps /\ cmd[r].goal = g /\ met[r]
        BY <1>8, <1>10, <2>3
      <3>2. SavedAmount(g) + cmd[r].amount >= goal[g].target
        BY <1>1, <2>1, <3>1, Running, LedgerAssumption DEF MoneyInv, ViewsTrue, ViewTrue
      <3>3. QED
        BY <1>3, <1>8, <3>1, <3>2
    <2>4. QED
      BY <2>2, <2>3
  <1>11. QED
    BY <1>2, <1>9, <1>10 DEF ViewsTrue, CompletedWasEarned

\* An update or a void commits.
LEMMA MoneyEdit ==
  ASSUME MoneyInv, NEW r \in Requests, CommitEdit(r)
  PROVE  RowsAsAsked' /\ ViewsTrue' /\ CompletedWasEarned'
  <1> DEFINE t == cmd[r].target
             entry == Written(main[t], seen[r], Edited(cmd[r], seen[r]))
  <1>1. /\ cmd[r] \in Commands /\ pc[r] = "commit" /\ cmd[r].op \in {"update", "void"}
        /\ t \in Requests /\ seen[r] \in Rows /\ main[t] \in Rows
        /\ main[t].kind \in {"income", "expense"}
    <2>1. cmd[r] \in Commands /\ pc[r] = "commit" /\ cmd[r].op \in {"update", "void"}
      BY Running DEF CommitEdit, MoneyInv
    <2>2. t \in Requests
      BY <2>1, CommandShape
    <2>3. seen[r] \in Rows /\ Found(t)
      BY <2>1 DEF MoneyInv, IInv, Loaded
    <2>4. QED
      BY <2>1, <2>2, <2>3 DEF MoneyInv, IInv, TypeOK, Found
  <1>2. entry \in Rows /\ entry.kind = main[t].kind
    BY <1>1, EditShape
  <1>3. /\ main' = [main EXCEPT ![t] = entry]
        /\ pc' = [pc EXCEPT ![r] = "done"]
        /\ UNCHANGED <<cmd, seen, met, credit, gave, goal>>
    BY DEF CommitEdit, Answer
  <1>4. /\ cmd[t].op \in {"income", "expense"} /\ cmd[t].op = main[t].kind /\ credit[t] = NoRow
    <2>1. main[t] # NoRow
      BY <1>1, LedgerAssumption
    <2>2. cmd[t].op \in {"transfer", "savings"} => main[t].kind = "transfer_debit"
      <3>1. cmd[t].op \in {"transfer", "savings"} => main[t] = MainRow(cmd[t])
        BY <1>1, <2>1 DEF MoneyInv, RowsAsAsked
      <3>2. cmd[t].op \in {"transfer", "savings"} => MainRow(cmd[t]).kind = "transfer_debit"
        BY DEF MainRow, Row
      <3>3. QED
        BY <3>1, <3>2
    <2>3. QED
      BY <1>1, <2>1, <2>2 DEF MoneyInv, RowsAsAsked, Creates
  <1> HIDE DEF entry, t
  <1>5. RowsAsAsked'
    <2>1. \A q \in Requests : q # t => main'[q] = main[q]
      BY <1>3 DEF MoneyInv, IInv, TypeOK
    <2>2. main'[t] # NoRow /\ main'[t].kind = cmd[t].op /\ main[t] # NoRow
      BY <1>1, <1>2, <1>3, <1>4, LedgerAssumption DEF MoneyInv, IInv, TypeOK
    <2>3. \A q \in Requests : pc[q] = "done" => pc'[q] = "done"
      BY <1>3 DEF MoneyInv, IInv, TypeOK
    <2>4. QED
      BY <1>3, <1>4, <2>1, <2>2, <2>3 DEF MoneyInv, RowsAsAsked
  <1>6. \A g : SavedAmount(g)' = SavedAmount(g) /\ (Steady(g)' => Steady(g))
    BY <1>3, SavedSame, SteadyWas
  <1>7. ASSUME NEW q \in Requests
        PROVE  ViewTrue(q)'
    <2>1. CASE q = r
      BY <1>3, <2>1 DEF ViewTrue, MoneyInv, IInv, TypeOK
    <2>2. CASE q # r
      BY <1>3, <1>6, <2>2 DEF ViewTrue, MoneyInv, ViewsTrue, IInv, TypeOK
    <2>3. QED
      BY <2>1, <2>2
  <1>8. CompletedWasEarned'
    BY <1>3, <1>6 DEF MoneyInv, CompletedWasEarned
  <1>9. QED
    BY <1>5, <1>7, <1>8 DEF ViewsTrue

\* A goal is given another target, or archived.
LEMMA MoneyGoal ==
  ASSUME MoneyInv, NEW r \in Requests, CommitGoal(r)
  PROVE  RowsAsAsked' /\ ViewsTrue' /\ CompletedWasEarned'
  <1>1. /\ cmd[r] \in Commands /\ pc[r] = "commit" /\ cmd[r].op \in {"retarget", "archive"}
        /\ UNCHANGED <<cmd, seen, met, main, credit, gave>>
        /\ pc' = [pc EXCEPT ![r] = "done"]
    BY Running DEF CommitGoal, Answer, MoneyInv
  <1>2. cmd[r].goal \in Goals
    BY <1>1, CommandShape
  <1>3. \A g : SavedAmount(g)' = SavedAmount(g) /\ (Steady(g)' => Steady(g))
    BY <1>1, SavedSame, SteadyWas
  <1>4. ASSUME NEW g \in Goals, Steady(g)
        PROVE  /\ goal'[g].target = goal[g].target
               /\ goal'[g].status = "completed" => goal[g].status = "completed"
    <2>1. CASE g = cmd[r].goal
      <3>1. cmd[r].op = "archive"
        BY <1>1, <1>4, <2>1, LedgerAssumption DEF Steady
      <3>2. goal'[g] = Written(goal[g], seen[r], ChangedGoal(r)) /\ goal[g] \in GoalRows
        BY <2>1 DEF CommitGoal, CommitGoalOf, MoneyInv, IInv, TypeOK
      <3>3. QED
        BY <1>1, <3>1, <3>2, GoalWritten DEF MoneyInv, SavingsOps
    <2>2. CASE g # cmd[r].goal
      BY <2>2 DEF CommitGoal, CommitGoalOf, MoneyInv, IInv, TypeOK
    <2>3. QED
      BY <2>1, <2>2
  <1>5. RowsAsAsked'
    <2>1. \A q \in Requests : pc[q] = "done" => pc'[q] = "done"
      BY <1>1 DEF MoneyInv, IInv, TypeOK
    <2>2. QED
      BY <1>1, <2>1 DEF MoneyInv, RowsAsAsked
  <1>6. ASSUME NEW q \in Requests
        PROVE  ViewTrue(q)'
    <2>1. CASE q = r
      BY <1>1, <2>1 DEF ViewTrue, MoneyInv, IInv, TypeOK
    <2>2. CASE q # r
      <3>1. cmd[q] # NoRequest /\ cmd[q].op \in SavingsOps \cup {"archive"} => cmd[q].goal \in Goals
        BY CommandShape DEF MoneyInv, IInv, TypeOK
      <3>2. ViewTrue(q) /\ pc'[q] = pc[q]
        BY <1>1, <2>2 DEF MoneyInv, ViewsTrue, IInv, TypeOK
      <3>3. QED
        BY <1>1, <1>3, <1>4, <3>1, <3>2 DEF ViewTrue
    <2>3. QED
      BY <2>1, <2>2
  <1>7. CompletedWasEarned'
    BY <1>3, <1>4 DEF MoneyInv, CompletedWasEarned
  <1>8. QED
    BY <1>5, <1>6, <1>7 DEF ViewsTrue

\* The invariant of rows and goals holds at first and is kept by every step.
LEMMA MoneyInit == Init => MoneyInv
  <1> SUFFICES ASSUME Init PROVE MoneyInv
    OBVIOUS
  <1>1. IInv
    BY InitInv
  <1>2. RowsAsAsked /\ ViewsTrue /\ CompletedWasEarned
    BY LedgerAssumption DEF Init, RowsAsAsked, ViewsTrue, ViewTrue, CompletedWasEarned
  <1>3. QED
    BY <1>1, <1>2 DEF MoneyInv

LEMMA MoneyStep == MoneyInv /\ [Next]_vars => MoneyInv'
  <1> SUFFICES ASSUME MoneyInv, [Next]_vars
               PROVE  RowsAsAsked' /\ ViewsTrue' /\ CompletedWasEarned'
    BY StepInv DEF MoneyInv
  <1>1. ASSUME NEW r \in Requests, Handle(r) \/ Abort(r)
        PROVE  RowsAsAsked' /\ ViewsTrue' /\ CompletedWasEarned'
    BY <1>1, MoneyReading, MoneyCreate, MoneyEdit, MoneyGoal DEF Handle, Reading
  <1>2. ASSUME NEW r \in Requests, NEW c \in Commands, Arrive(r, c)
        PROVE  RowsAsAsked' /\ ViewsTrue' /\ CompletedWasEarned'
    BY <1>2, MoneyArrive
  <1>3. CASE UNCHANGED <<cmd, pc, seen, met, main, credit, gave, goal>>
    <2>1. \A g : SavedAmount(g)' = SavedAmount(g) /\ (Steady(g)' => Steady(g))
      BY <1>3, SavedSame, SteadyWas
    <2>2. RowsAsAsked'
      BY <1>3 DEF MoneyInv, RowsAsAsked
    <2>3. ViewsTrue'
      BY <1>3, <2>1 DEF MoneyInv, ViewsTrue, ViewTrue
    <2>4. CompletedWasEarned'
      BY <1>3, <2>1 DEF MoneyInv, CompletedWasEarned
    <2>5. QED
      BY <2>2, <2>3, <2>4
  <1>4. ASSUME NEW a \in Accounts, Disable(a)
        PROVE  UNCHANGED <<cmd, pc, seen, met, main, credit, gave, goal>>
    BY <1>4 DEF Disable, requestVars
  <1>5. UNCHANGED vars => UNCHANGED <<cmd, pc, seen, met, main, credit, gave, goal>>
    BY DEF vars, requestVars, rowVars
  <1>6. QED
    BY <1>1, <1>2, <1>3, <1>4, <1>5 DEF Next

-----------------------------------------------------------------------------
\* What a row adds to all balances together.
Signed(entry) ==
  IF entry = NoRow \/ entry.voided THEN 0
  ELSE IF entry.kind \in {"income", "transfer_credit"} THEN entry.amount ELSE - entry.amount

\* A row has an effect on one account only.
LEMMA EffectTotal ==
  ASSUME NEW entry \in Rows \cup {NoRow}
  PROVE  /\ \A a \in Accounts : Effect(entry, a) \in Int
         /\ SumFunctionOnSet([a \in Accounts |-> Effect(entry, a)], Accounts) = Signed(entry)
  <1> DEFINE zero == [a \in Accounts |-> 0]
             effect == [a \in Accounts |-> Effect(entry, a)]
  <1>1. IsFiniteSet(Accounts)
    BY LedgerAssumption
  <1>2. \A a \in Accounts : Effect(entry, a) \in Int
    BY LedgerAssumption DEF Effect, Rows, Amount
  <1>3. CASE entry = NoRow \/ entry.voided
    <2>1. \A a \in Accounts : effect[a] = 0
      BY <1>3 DEF Effect
    <2> HIDE DEF effect
    <2>2. SumFunctionOnSet(effect, Accounts) = 0
      BY <1>1, <2>1, SumZero
    <2>3. QED
      BY <1>2, <1>3, <2>2 DEF Signed, effect
  <1>4. CASE entry # NoRow /\ ~ entry.voided
    <2>1. entry.account \in Accounts /\ entry.amount \in Int
      BY <1>4, LedgerAssumption DEF Rows, Amount
    <2>2. /\ \A a \in Accounts : zero[a] \in Int /\ effect[a] \in Int
          /\ \A a \in Accounts \ {entry.account} : zero[a] = effect[a]
          /\ zero[entry.account] = 0 /\ effect[entry.account] = Signed(entry)
          /\ \A a \in Accounts : zero[a] = 0
      BY <1>2, <1>4, <2>1 DEF Effect, Signed
    <2>3. Signed(entry) \in Int
      BY <1>4, <2>1 DEF Signed
    <2> HIDE DEF zero, effect
    <2>4. SumFunctionOnSet(zero, Accounts) = 0
      BY <1>1, <2>2, SumZero
    <2>5. SumFunctionOnSet(effect, Accounts)
            = SumFunctionOnSet(zero, Accounts) + effect[entry.account] - zero[entry.account]
      <3> DEFINE y == entry.account
      <3>1. /\ y \in Accounts
            /\ \A a \in Accounts : zero[a] \in Int /\ effect[a] \in Int
            /\ \A a \in Accounts \ {y} : zero[a] = effect[a]
        BY <2>1, <2>2
      <3> HIDE DEF y
      <3>2. SumFunctionOnSet(effect, Accounts)
              = SumFunctionOnSet(zero, Accounts) + effect[y] - zero[y]
        BY <1>1, <3>1, SumUpdate
      <3>3. QED
        BY <3>2 DEF y
    <2>6. SumFunctionOnSet(effect, Accounts) = Signed(entry)
      BY <2>2, <2>3, <2>4, <2>5
    <2>7. QED
      BY <1>2, <2>6 DEF effect
  <1>5. QED
    BY <1>3, <1>4

\* What a request's rows add is what it brought in.
LEMMA BroughtTotal ==
  ASSUME MoneyInv, NEW r \in Requests
  PROVE  Signed(main[r]) + Signed(credit[r]) = Brought(r)
  <1>1. CASE main[r] = NoRow
    BY <1>1 DEF MoneyInv, RowsAsAsked, Signed, Brought
  <1>2. CASE main[r] # NoRow
    <2>1. cmd[r] \in Commands /\ cmd[r].op \in Creates /\ main[r] \in Rows
      BY <1>2, LedgerAssumption DEF MoneyInv, IInv, TypeOK, RowsInserted, RowsAsAsked
    <2>2. CASE cmd[r].op \in {"income", "expense"}
      <3>1. main[r].kind = cmd[r].op /\ credit[r] = NoRow
        BY <1>2, <2>2 DEF MoneyInv, RowsAsAsked
      <3>2. main[r].amount \in Int
        BY <2>1, LedgerAssumption DEF Rows, Amount
      <3>3. QED
        BY <1>2, <2>2, <3>1, <3>2 DEF Signed, Brought
    <2>3. CASE cmd[r].op \in {"transfer", "savings"}
      <3>1. main[r] = MainRow(cmd[r]) /\ credit[r] = CreditRow(cmd[r])
        BY <1>2, <2>3 DEF MoneyInv, RowsAsAsked
      <3>2. /\ cmd[r].amount \in Int
            /\ cmd[r].op = "transfer" /\ cmd[r].converted # Keep => cmd[r].converted \in Int
        BY <2>1, <2>3, CommandShape, LedgerAssumption DEF Amount
      <3>3. Signed(main[r]) = - cmd[r].amount
        BY <1>2, <2>3, <3>1 DEF Signed, MainRow, Row
      <3>4. CASE cmd[r].op = "transfer"
        <4>1. CreditRow(cmd[r]) # NoRow
          <5>1. CreditRow(cmd[r]) \in Rows
            BY <2>1, <3>4, CommandShape DEF CreditRow, Row, Rows, Creates
          <5>2. QED
            BY <5>1, LedgerAssumption
        <4>2. Signed(credit[r]) = IF cmd[r].converted = Keep THEN cmd[r].amount
                                  ELSE cmd[r].converted
          BY <3>1, <3>4, <4>1 DEF Signed, CreditRow, Row
        <4>3. QED
          BY <1>2, <3>2, <3>3, <3>4, <4>2 DEF Brought
      <3>5. CASE cmd[r].op = "savings"
        <4>1. Signed(credit[r]) = 0 /\ gave[r]
          BY <1>2, <3>1, <3>5 DEF Signed, CreditRow, MoneyInv, RowsAsAsked
        <4>2. QED
          BY <1>2, <3>2, <3>3, <3>5, <4>1 DEF Brought
      <3>6. QED
        BY <2>3, <3>4, <3>5
    <2>4. QED
      BY <2>1, <2>2, <2>3 DEF Creates
  <1>3. QED
    BY <1>1, <1>2

\* The balances add up: sum over the accounts what the requests did to each, or over the
\* requests what each did to all accounts.
LEMMA BalancesAddUp == MoneyInv => MoneyConserved
  <1> SUFFICES ASSUME MoneyInv PROVE MoneyConserved
    OBVIOUS
  <1> DEFINE effects == [a \in Accounts |->
                           [r \in Requests |-> Effect(main[r], a) + Effect(credit[r], a)]]
             moved == [a \in Accounts |-> SumFunctionOnSet(effects[a], Requests)]
             balance == [a \in Accounts |-> Balance(a)]
             brought == [r \in Requests |-> Brought(r)]
             total == [r \in Requests |->
                         SumFunctionOnSet([a \in Accounts |-> effects[a][r]], Accounts)]
  <1>1. IsFiniteSet(Requests) /\ IsFiniteSet(Accounts) /\ Opening \in [Accounts -> Int]
    BY LedgerAssumption
  <1>2. \A r \in Requests : main[r] \in Rows \cup {NoRow} /\ credit[r] \in Rows \cup {NoRow}
    BY DEF MoneyInv, IInv, TypeOK
  <1>3. \A a \in Accounts, r \in Requests :
          /\ Effect(main[r], a) \in Int /\ Effect(credit[r], a) \in Int
          /\ effects[a][r] \in Int
    <2> SUFFICES ASSUME NEW a \in Accounts, NEW r \in Requests
                 PROVE  /\ Effect(main[r], a) \in Int /\ Effect(credit[r], a) \in Int
                        /\ effects[a][r] \in Int
      OBVIOUS
    <2>1. Effect(main[r], a) \in Int /\ Effect(credit[r], a) \in Int
      BY <1>2, EffectTotal
    <2>2. QED
      BY <2>1
  <1>4. \A a \in Accounts : moved[a] \in Int
    <2> SUFFICES ASSUME NEW a \in Accounts PROVE moved[a] \in Int
      OBVIOUS
    <2>1. \A r \in Requests : effects[a][r] \in Int
      BY <1>3
    <2> HIDE DEF effects
    <2>2. QED
      BY <1>1, <2>1, SumInt
  <1>5. \A a \in Accounts : balance[a] = Opening[a] + moved[a]
    BY DEF Balance, SumFunction
  <1>6. SumFunctionOnSet(balance, Accounts)
          = SumFunctionOnSet(Opening, Accounts) + SumFunctionOnSet(moved, Accounts)
    <2> HIDE DEF balance, moved
    <2>1. \A a \in Accounts : Opening[a] \in Int
      BY <1>1
    <2>2. QED
      BY <1>1, <1>4, <1>5, <2>1, SumPlus
  <1>7. SumFunctionOnSet(moved, Accounts) = SumFunctionOnSet(total, Requests)
    <2> DEFINE turned == [r \in Requests |-> [a \in Accounts |-> effects[a][r]]]
    <2>1. \A a \in Accounts : \A r \in Requests :
            effects[a][r] \in Int /\ turned[r][a] = effects[a][r]
      <3>1. \A a \in Accounts : \A r \in Requests : effects[a][r] \in Int
        BY <1>3
      <3> HIDE DEF effects
      <3>2. QED
        BY <3>1
    <2> HIDE DEF effects
    <2>2. \A a \in Accounts : moved[a] = SumFunctionOnSet(effects[a], Requests)
      OBVIOUS
    <2>3. \A r \in Requests : total[r] = SumFunctionOnSet(turned[r], Accounts)
      OBVIOUS
    <2> HIDE DEF moved, total, turned
    <2>4. /\ Turned(Accounts, Requests, effects, turned)
          /\ RowSums(Accounts, Requests, effects, moved)
          /\ RowSums(Requests, Accounts, turned, total)
      BY <2>1, <2>2, <2>3 DEF Turned, RowSums
    <2>5. QED
      BY <1>1, <2>4, SumSwap
  <1>8. ASSUME NEW r \in Requests
        PROVE  total[r] = brought[r] /\ total[r] \in Int
    <2> DEFINE here == [a \in Accounts |-> Effect(main[r], a)]
               there == [a \in Accounts |-> Effect(credit[r], a)]
               both == [a \in Accounts |-> effects[a][r]]
    <2>1. /\ SumFunctionOnSet(here, Accounts) = Signed(main[r])
          /\ SumFunctionOnSet(there, Accounts) = Signed(credit[r])
      BY <1>2, EffectTotal
    <2>2. \A a \in Accounts : here[a] \in Int /\ there[a] \in Int /\ both[a] = here[a] + there[a]
      BY <1>3
    <2>3. total[r] = SumFunctionOnSet(both, Accounts)
      OBVIOUS
    <2>4. brought[r] = Signed(main[r]) + Signed(credit[r])
      BY BroughtTotal
    <2> HIDE DEF here, there, both, total, brought
    <2>5. SumFunctionOnSet(both, Accounts)
            = SumFunctionOnSet(here, Accounts) + SumFunctionOnSet(there, Accounts)
      BY <1>1, <2>2, SumPlus
    <2>6. SumFunctionOnSet(here, Accounts) \in Int /\ SumFunctionOnSet(there, Accounts) \in Int
      BY <1>1, <2>2, SumInt
    <2>7. QED
      BY <2>1, <2>3, <2>4, <2>5, <2>6
  <1>9. SumFunctionOnSet(total, Requests) = SumFunctionOnSet(brought, Requests)
    <2> HIDE DEF total, brought
    <2>1. QED
      BY <1>1, <1>8, SumSame
  <1>10. /\ SumFunction(balance) = SumFunctionOnSet(balance, Accounts)
         /\ SumFunction(Opening) = SumFunctionOnSet(Opening, Accounts)
         /\ SumFunction(brought) = SumFunctionOnSet(brought, Requests)
    BY <1>1 DEF SumFunction
  <1>11. QED
    BY <1>6, <1>7, <1>9, <1>10 DEF MoneyConserved

-----------------------------------------------------------------------------
\* The invariant holds in every reachable state.
THEOREM Invariance == Spec => []IInv
  BY InitInv, StepInv, PTL DEF Spec

\* The ledger's variables keep their types, and a handler is over when it has replied.
THEOREM TypeCorrect == Spec => []TypeOK
  <1>1. IInv => TypeOK
    BY DEF IInv
  <1>2. QED
    BY <1>1, Invariance, PTL

\* However requests overlap, abort and repeat, one Idempotency-Key inserts rows once
\* (get_idempotent_response, store_idempotent_response and the records' unique key).
THEOREM InsertedOnce == Spec => []KeyOnce
  BY Invariance, KeyOnceHolds, PTL

\* Whoever repeats a key is answered with the rows it asked for, or not with success.
THEOREM ReplayedFaithfully == Spec => []ReplaySame
  <1>1. IInv => ReplaySame
    BY DEF IInv
  <1>2. QED
    BY <1>1, Invariance, PTL

\* A void is final, also against an update that loaded the row before it.
THEOREM VoidFinal == Spec => VoidSticks
  <1>1. IInv /\ IInv' /\ [Next]_vars =>
          [\A r \in Requests :
             /\ main[r] # NoRow /\ main[r].voided => main'[r] # NoRow /\ main'[r].voided
             /\ main'[r] # NoRow /\ main'[r].voided =>
                  main'[r].kind \in {"income", "expense"}]_vars
    BY VoidStep
  <1>2. QED
    BY <1>1, Invariance, PTL DEF Spec, VoidSticks

\* What is known of rows and goals holds in every reachable state.
THEOREM MoneyInvariance == Spec => []MoneyInv
  BY MoneyInit, MoneyStep, PTL DEF Spec

\* A goal whose target nobody changed is completed only when its committed contributions
\* meet it, though handlers sum them up and commit at different times.
THEOREM CompletionEarned == Spec => []CompletedWasEarned
  <1>1. MoneyInv => CompletedWasEarned
    BY DEF MoneyInv
  <1>2. QED
    BY <1>1, MoneyInvariance, PTL

\* Edits, voids, transfers and savings that overlap in any way neither make nor lose money.
THEOREM MoneyNeitherMadeNorLost == Spec => []MoneyConserved
  BY BalancesAddUp, MoneyInvariance, PTL

-----------------------------------------------------------------------------
\* Receipts

\* The invariant holds to begin with.
LEMMA ReceiptsInitInv == ReceiptsInit => FilesInv
  <1>1. ReceiptsInit => FileTypesOK
    BY ReceiptsAssumption DEF ReceiptsInit, FileTypesOK, Stages, FileRequests
  <1>2. ReceiptsInit => ActiveIsStored /\ UploadProgress /\ DeleteProgress /\ BeingRemoved
    BY ReceiptsAssumption DEF ReceiptsInit, ActiveIsStored, UploadProgress, DeleteProgress,
       BeingRemoved, FileRequests
  <1>3. QED
    BY <1>1, <1>2 DEF FilesInv

\* A row is inserted or not: the invariant is kept.
LEMMA InsertInv ==
  ASSUME FilesInv, NEW r \in FileRequests, Insert(r)
  PROVE  FilesInv'
  <1> USE ReceiptsAssumption DEF FileRequests, Finish, Proceed
  <1>1. FileTypesOK'
    BY DEF FilesInv, FileTypesOK, Stages, SaveAt, DeleteAt, Insert, Files, UploadProgress
  <1>2. ActiveIsStored'
    BY DEF FilesInv, FileTypesOK, ActiveIsStored, UploadProgress, DeleteProgress, Insert, Files,
       Stages
  <1>3. UploadProgress'
    BY DEF FilesInv, FileTypesOK, UploadProgress, DeleteProgress, Insert, Files, Stages
  <1>4. DeleteProgress'
    BY DEF FilesInv, FileTypesOK, UploadProgress, DeleteProgress, Insert, Files, Stages
  <1>5. BeingRemoved'
    BY DEF FilesInv, FileTypesOK, UploadProgress, DeleteProgress, BeingRemoved, Insert, Files,
       Stages
  <1>6. QED
    BY <1>1, <1>2, <1>3, <1>4, <1>5 DEF FilesInv

\* The commit of an upload: the invariant is kept.
LEMMA CommitUploadInv ==
  ASSUME FilesInv, NEW r \in FileRequests, CommitUpload(r)
  PROVE  FilesInv'
  <1> USE ReceiptsAssumption DEF FileRequests, Finish, Proceed
  <1>1. FileTypesOK'
    BY DEF FilesInv, FileTypesOK, Stages, SaveAt, DeleteAt, CommitUpload, Files, UploadProgress
  <1>2. ActiveIsStored'
    BY DEF FilesInv, FileTypesOK, ActiveIsStored, UploadProgress, DeleteProgress, CommitUpload,
       Files, Stages
  <1>3. UploadProgress'
    BY DEF FilesInv, FileTypesOK, UploadProgress, DeleteProgress, CommitUpload, Files, Stages
  <1>4. DeleteProgress'
    BY DEF FilesInv, FileTypesOK, UploadProgress, DeleteProgress, CommitUpload, Files, Stages
  <1>5. BeingRemoved'
    BY DEF FilesInv, FileTypesOK, UploadProgress, DeleteProgress, BeingRemoved, CommitUpload,
       Files, Stages
  <1>6. QED
    BY <1>1, <1>2, <1>3, <1>4, <1>5 DEF FilesInv

\* The commit of a deletion: the invariant is kept.
LEMMA CommitDeleteInv ==
  ASSUME FilesInv, NEW r \in FileRequests, CommitDelete(r)
  PROVE  FilesInv'
  <1> USE ReceiptsAssumption DEF FileRequests, Finish, Proceed
  <1>1. FileTypesOK'
    BY DEF FilesInv, FileTypesOK, Stages, SaveAt, DeleteAt, CommitDelete, Files, UploadProgress
  <1>2. ActiveIsStored'
    BY DEF FilesInv, FileTypesOK, ActiveIsStored, UploadProgress, DeleteProgress, CommitDelete,
       Files, Stages
  <1>3. UploadProgress'
    BY DEF FilesInv, FileTypesOK, UploadProgress, DeleteProgress, CommitDelete, Files, Stages
  <1>4. DeleteProgress'
    BY DEF FilesInv, FileTypesOK, UploadProgress, DeleteProgress, CommitDelete, Files, Stages
  <1>5. BeingRemoved'
    BY DEF FilesInv, FileTypesOK, UploadProgress, DeleteProgress, BeingRemoved, CommitDelete,
       Files, Stages
  <1>6. QED
    BY <1>1, <1>2, <1>3, <1>4, <1>5 DEF FilesInv

\* A file is stored: the invariant is kept.
LEMMA SaveInv ==
  ASSUME FilesInv, NEW r \in FileRequests, NEW file \in Files, Save(r, file)
  PROVE  FilesInv'
  <1> USE ReceiptsAssumption DEF FileRequests, Finish, Proceed
  <1>1. FileTypesOK'
    BY DEF FilesInv, FileTypesOK, Stages, SaveAt, DeleteAt, Save, Files, DeleteProgress
  <1>2. ActiveIsStored'
    BY DEF FilesInv, FileTypesOK, ActiveIsStored, UploadProgress, DeleteProgress, Save, SaveAt,
       Files, Stages
  <1>3. UploadProgress'
    BY DEF FilesInv, FileTypesOK, UploadProgress, DeleteProgress, Save, SaveAt, Files, Stages
  <1>4. DeleteProgress'
    BY DEF FilesInv, FileTypesOK, UploadProgress, DeleteProgress, Save, SaveAt, Files, Stages
  <1>5. BeingRemoved'
    BY DEF FilesInv, FileTypesOK, UploadProgress, DeleteProgress, BeingRemoved, Save, SaveAt,
       Files, Stages
  <1>6. QED
    BY <1>1, <1>2, <1>3, <1>4, <1>5 DEF FilesInv

\* A file is removed: the invariant is kept.
LEMMA DeleteInv ==
  ASSUME FilesInv, NEW r \in FileRequests, NEW file \in Files, Delete(r, file)
  PROVE  FilesInv'
  <1> USE ReceiptsAssumption DEF FileRequests, Finish, Proceed
  <1>1. FileTypesOK'
    BY DEF FilesInv, FileTypesOK, Stages, SaveAt, DeleteAt, Delete, Files, UploadProgress
  <1>2. ActiveIsStored'
    BY DEF FilesInv, FileTypesOK, ActiveIsStored, UploadProgress, DeleteProgress, Delete,
       DeleteAt, Files, Stages
  <1>3. UploadProgress'
    BY DEF FilesInv, FileTypesOK, UploadProgress, DeleteProgress, Delete, DeleteAt, Files, Stages
  <1>4. DeleteProgress'
    BY DEF FilesInv, FileTypesOK, UploadProgress, DeleteProgress, Delete, DeleteAt, Files, Stages
  <1>5. BeingRemoved'
    BY DEF FilesInv, FileTypesOK, UploadProgress, DeleteProgress, BeingRemoved, Delete, DeleteAt,
       Files, Stages
  <1>6. QED
    BY <1>1, <1>2, <1>3, <1>4, <1>5 DEF FilesInv

\* A process ends: the invariant is kept.
LEMMA CrashInv ==
  ASSUME FilesInv, NEW r \in FileRequests, Crash(r)
  PROVE  FilesInv'
  <1> USE ReceiptsAssumption DEF FileRequests, Finish, Proceed
  <1>1. FileTypesOK'
    BY DEF FilesInv, FileTypesOK, Stages, SaveAt, DeleteAt, Crash, Files, UploadProgress
  <1>2. ActiveIsStored'
    BY DEF FilesInv, FileTypesOK, ActiveIsStored, UploadProgress, DeleteProgress, Crash, Files,
       Stages
  <1>3. UploadProgress'
    BY DEF FilesInv, FileTypesOK, UploadProgress, DeleteProgress, Crash, Files, Stages
  <1>4. DeleteProgress'
    BY DEF FilesInv, FileTypesOK, UploadProgress, DeleteProgress, Crash, Files, Stages
  <1>5. BeingRemoved'
    BY DEF FilesInv, FileTypesOK, UploadProgress, DeleteProgress, BeingRemoved, Crash, Files,
       Stages
  <1>6. QED
    BY <1>1, <1>2, <1>3, <1>4, <1>5 DEF FilesInv

\* An upload begins: the invariant is kept.
LEMMA ArriveUploadInv ==
  ASSUME FilesInv, NEW r \in FileRequests, ArriveUpload(r)
  PROVE  FilesInv'
  <1> USE ReceiptsAssumption DEF FileRequests, Finish, Proceed
  <1>1. FileTypesOK'
    BY DEF FilesInv, FileTypesOK, Stages, SaveAt, DeleteAt, ArriveUpload, Files, UploadProgress
  <1>2. ActiveIsStored'
    BY DEF FilesInv, FileTypesOK, ActiveIsStored, UploadProgress, DeleteProgress, ArriveUpload,
       Files, Stages
  <1>3. UploadProgress'
    BY DEF FilesInv, FileTypesOK, UploadProgress, DeleteProgress, ArriveUpload, Files, Stages
  <1>4. DeleteProgress'
    BY DEF FilesInv, FileTypesOK, UploadProgress, DeleteProgress, ArriveUpload, Files, Stages
  <1>5. BeingRemoved'
    BY DEF FilesInv, FileTypesOK, UploadProgress, DeleteProgress, BeingRemoved, ArriveUpload,
       Files, Stages
  <1>6. QED
    BY <1>1, <1>2, <1>3, <1>4, <1>5 DEF FilesInv

\* A deletion begins: the invariant is kept.
LEMMA ArriveDeleteInv ==
  ASSUME FilesInv, NEW r \in Deletes, NEW k \in Uploads, ArriveDelete(r, k)
  PROVE  FilesInv'
  <1> USE ReceiptsAssumption DEF FileRequests, Finish, Proceed
  <1>1. FileTypesOK'
    BY DEF FilesInv, FileTypesOK, Stages, SaveAt, DeleteAt, ArriveDelete, Files, UploadProgress
  <1>2. ActiveIsStored'
    BY DEF FilesInv, FileTypesOK, ActiveIsStored, UploadProgress, DeleteProgress, ArriveDelete,
       Files, Stages
  <1>3. UploadProgress'
    BY DEF FilesInv, FileTypesOK, UploadProgress, DeleteProgress, ArriveDelete, Files, Stages
  <1>4. DeleteProgress'
    BY DEF FilesInv, FileTypesOK, UploadProgress, DeleteProgress, ArriveDelete, Files, Stages
  <1>5. BeingRemoved'
    BY DEF FilesInv, FileTypesOK, UploadProgress, DeleteProgress, BeingRemoved, ArriveDelete,
       Files, Stages
  <1>6. QED
    BY <1>1, <1>2, <1>3, <1>4, <1>5 DEF FilesInv

\* A transaction is voided: the invariant is kept.
LEMMA VoidInv ==
  ASSUME FilesInv, Void
  PROVE  FilesInv'
  <1> USE ReceiptsAssumption DEF FileRequests, Finish, Proceed
  <1>1. FileTypesOK'
    BY DEF FilesInv, FileTypesOK, Stages, SaveAt, DeleteAt, Void, Files, UploadProgress
  <1>2. ActiveIsStored'
    BY DEF FilesInv, FileTypesOK, ActiveIsStored, UploadProgress, DeleteProgress, Void, Files,
       Stages
  <1>3. UploadProgress'
    BY DEF FilesInv, FileTypesOK, UploadProgress, DeleteProgress, Void, Files, Stages
  <1>4. DeleteProgress'
    BY DEF FilesInv, FileTypesOK, UploadProgress, DeleteProgress, Void, Files, Stages
  <1>5. BeingRemoved'
    BY DEF FilesInv, FileTypesOK, UploadProgress, DeleteProgress, BeingRemoved, Void, Files,
       Stages
  <1>6. QED
    BY <1>1, <1>2, <1>3, <1>4, <1>5 DEF FilesInv

\* Every step keeps the invariant.
LEMMA NextInv == FilesInv /\ [ReceiptsNext]_fileVars => FilesInv'
  <1> SUFFICES ASSUME FilesInv, [ReceiptsNext]_fileVars PROVE FilesInv'
    OBVIOUS
  <1>1. CASE UNCHANGED fileVars
    BY <1>1 DEF fileVars, FilesInv, FileTypesOK, ActiveIsStored, UploadProgress, DeleteProgress,
       BeingRemoved
  <1>2. CASE ReceiptsNext
    BY <1>2, InsertInv, CommitUploadInv, CommitDeleteInv, SaveInv, DeleteInv, CrashInv,
       ArriveUploadInv, ArriveDeleteInv, VoidInv DEF ReceiptsNext, HandleFiles
  <1>3. QED
    BY <1>1, <1>2

\* The inductive invariant holds in every reachable state: the handlers' progress agrees
\* with what is stored (upload_receipt, delete_receipt).
THEOREM FilesInvariance == ReceiptsSpec => []FilesInv
  <1>1. QED
    BY ReceiptsInitInv, NextInv, PTL DEF ReceiptsSpec

\* Rows, files and handlers keep their types, for any requests.
THEOREM ReceiptsTypeCorrect == ReceiptsSpec => []FileTypesOK
  <1>1. FilesInv => FileTypesOK
    BY DEF FilesInv
  <1>2. QED
    BY <1>1, FilesInvariance, PTL

\* A visible receipt has its object and metadata unless the answer to a commit was lost
\* (upload_receipt, delete_receipt).
THEOREM VisibleStored == ReceiptsSpec => []ActiveIsStored
  <1>1. FilesInv => ActiveIsStored
    BY DEF FilesInv
  <1>2. QED
    BY <1>1, FilesInvariance, PTL

\* Files without a visible receipt are about to be removed, or a fault left them (the
\* except clause of upload_receipt, delete_receipt).
THEOREM OrphansAccounted == ReceiptsSpec => []OrphansExplained
  <1>1. FilesInv => OrphansExplained
    <2> SUFFICES ASSUME FilesInv, NEW k \in Uploads, stored[k] # {}, row[k] # "active",
                        k \notin faulty \cup lost
                 PROVE  \E r \in FileRequests : target[r] = k /\ stage[r] # "done"
      BY DEF OrphansExplained
    <2>1. CASE row[k] = "deleted"
      BY <2>1 DEF FilesInv, BeingRemoved, FileRequests
    <2>2. CASE row[k] = None
      BY <2>2 DEF FilesInv, BeingRemoved, UploadProgress, FileRequests
    <2>3. QED
      BY <2>1, <2>2 DEF FilesInv, FileTypesOK
  <1>2. QED
    BY <1>1, FilesInvariance, PTL
=============================================================================
