------------------------------- MODULE Catalog -------------------------------
(***************************************************************************)
(* The categories and budgets of one user: a listing inserts the default   *)
(* categories that are missing, budgets name a category of expenses and a  *)
(* period (modules/categories, modules/budgets, finance_defaults.py).      *)
(*                                                                         *)
(* A handler reads, decides on what it read and writes; what keeps rows    *)
(* apart is a unique key of categories and, for budgets, an exclusion      *)
(* constraint and checks. An insertion waits while another transaction has *)
(* inserted the same key and is not over. Only a listing goes on after an  *)
(* insertion: the other handlers write and commit in one step. A commit    *)
(* writes the columns that differ from those the handler loaded.           *)
(***************************************************************************)
EXTENDS Integers, Sequences, Functions

CONSTANTS
  Requests,   \* HTTP requests, each at most once
  Names,      \* names of categories
  Defaults,   \* DEFAULT_CATEGORIES: the names of each kind, in order
  Required,   \* REQUIRED_DEFAULT_CATEGORIES
  Dates,      \* an interval of integers
  MonthStarts,
  Start,      \* categories and budgets to begin with
  Ask,        \* what each request may ask for: sets of commands
  None        \* no category, no request

Kinds == <<"income", "expense">>
KindSet == {"income", "expense"}

\* A row is named by the request that inserted it, None before the first; a category also
\* by what it was called then.
CategoryIds == (Requests \cup {None}) \X KindSet \X Names
BudgetIds == Requests \cup {None}
Categories == [kind : KindSet, name : Names, archived : BOOLEAN]
Budgets == [scope : CategoryIds \cup {None}, type : {"monthly", "custom"},
            from : Dates, to : Dates, archived : BOOLEAN]

Key(c) == <<c.kind, c.name>>

NextMonthStart(d) == CHOOSE m \in MonthStarts : m > d /\ \A n \in MonthStarts : n > d => m <= n

\* validate_budget_period; the checks of the table say the same.
PeriodValid(b) ==
  /\ b.from < b.to
  /\ b.type = "monthly" => b.from \in MonthStarts /\ b.to = NextMonthStart(b.from)

\* The fields of a PATCH are those the client has set.
CommandSet ==
  [op : {"list"}, kind : KindSet \cup {None}]
  \cup [op : {"create"}, row : {c \in Categories : ~ c.archived}]
  \cup [op : {"edit"}, id : CategoryIds,
        change : [{"kind"} -> KindSet] \cup [{"name"} -> Names]]
  \cup [op : {"archive"}, id : CategoryIds]
  \cup [op : {"create_budget"}, row : {b \in Budgets : PeriodValid(b) /\ ~ b.archived}]
  \cup [op : {"edit_budget"}, id : BudgetIds,
        change : [{"scope"} -> CategoryIds \cup {None}] \cup [{"type"} -> {"monthly", "custom"}]
                 \cup UNION {[f -> Dates] : f \in {{"from"}, {"to"}, {"from", "to"}}}]
  \cup [op : {"archive_budget"}, id : BudgetIds]

\* The periods of a table of budgets are valid, those of active ones of a scope are apart.
Sound(table) ==
  \A i \in DOMAIN table :
    /\ PeriodValid(table[i])
    /\ \A j \in DOMAIN table \ {i} :
         /\ table[i].scope = table[j].scope /\ ~ table[i].archived /\ ~ table[j].archived
         => table[i].to <= table[j].from \/ table[j].to <= table[i].from

\* The rows to begin with are a user's: they keep their types, the unique key and the
\* constraints of budgets.
Consistent(s) ==
  /\ \A i \in DOMAIN s.category :
       i \in {None} \X KindSet \X Names /\ s.category[i] \in Categories
  /\ \A i, j \in DOMAIN s.category : Key(s.category[i]) = Key(s.category[j]) => i = j
  /\ \A i \in DOMAIN s.budget : i \in BudgetIds /\ s.budget[i] \in Budgets
  /\ Sound(s.budget)

ASSUME CatalogAssumption ==
  /\ \A k \in KindSet : Defaults[k] \in Seq(Names) /\ Required[k] \in Seq(Names)
  /\ MonthStarts \subseteq Dates
  /\ None \notin Requests \cup CommandSet \cup CategoryIds
  /\ \A s \in Start : Consistent(s)
  /\ Ask \in [Requests -> SUBSET CommandSet]

VARIABLES
  category,  \* the table categories: committed rows
  budget,    \* the table budgets
  pending,   \* rows a listing has inserted and not committed
  cmd,       \* what each request asks for
  pc,        \* where its handler is
  kinds,     \* kinds whose defaults a listing has yet to see to,
  names,     \* and names of the first of them
  bare,      \* kinds a listing found without categories
  row,       \* the row an edit has loaded
  reply,     \* how a request was answered
  met        \* whether another handler ran while it did

handlerVars == <<kinds, names, bare, row>>
vars == <<category, budget, pending, cmd, pc, reply, met, handlerVars>>

-----------------------------------------------------------------------------
Taken(key, id) == \E i \in DOMAIN category : i # id /\ Key(category[i]) = key
Running == {r \in Requests : pc[r] \notin {"new", "done"}}
NoRows == [i \in {} |-> None]
With(table, rows) ==
  [i \in DOMAIN table \cup DOMAIN rows |-> IF i \in DOMAIN rows THEN rows[i] ELSE table[i]]
Patch(old, change) == [f \in DOMAIN old |-> IF f \in DOMAIN change THEN change[f] ELSE old[f]]

Init ==
  /\ \E s \in Start : category = s.category /\ budget = s.budget
  /\ pending = [r \in Requests |-> NoRows]
  /\ cmd = [r \in Requests |-> None]
  /\ pc = [r \in Requests |-> "new"]
  /\ kinds = [r \in Requests |-> <<>>]
  /\ names = [r \in Requests |-> <<>>]
  /\ bare = [r \in Requests |-> {}]
  /\ row = [r \in Requests |-> None]
  /\ reply = [r \in Requests |-> "none"]
  /\ met = [r \in Requests |-> FALSE]

GoTo(r, place) == pc' = [pc EXCEPT ![r] = place] /\ UNCHANGED <<reply, pending>>
Answer(r, answer) ==
  /\ pc' = [pc EXCEPT ![r] = "done"]
  /\ reply' = [reply EXCEPT ![r] = answer]
  /\ pending' = [pending EXCEPT ![r] = NoRows]

\* Mutant of KindOrder: the kinds come in either order.
KindsEitherWay(kind) == IF kind = None THEN {Kinds, <<Kinds[2], Kinds[1]>>} ELSE {<<kind>>}

\* default_category_kinds.
KindOrder(kind) == IF kind = None THEN {Kinds} ELSE {<<kind>>}

\* A request comes in; one that names no row of the user is refused without a trace.
Arrive(r, c) ==
  /\ pc[r] = "new"
  /\ c.op \in {"edit", "archive"} => c.id \in DOMAIN category
  /\ c.op \in {"edit_budget", "archive_budget"} => c.id \in DOMAIN budget
  /\ cmd' = [cmd EXCEPT ![r] = c]
  /\ IF c.op = "list" THEN \E order \in KindOrder(c.kind) : kinds' = [kinds EXCEPT ![r] = order]
     ELSE UNCHANGED kinds
  /\ GoTo(r, CASE c.op = "list" -> "any"
               [] c.op = "create" -> "insert"
               [] c.op = "create_budget" -> "category"
               [] OTHER -> "load")
  /\ met' = [q \in Requests |-> met[q] \/ (IF q = r THEN Running # {} ELSE q \in Running)]
  /\ UNCHANGED <<category, budget, names, bare, row>>

-----------------------------------------------------------------------------
\* A listing goes on with what is left of the names and kinds.
Continue(r, left) ==
  /\ names' = [names EXCEPT ![r] = left]
  /\ kinds' = [kinds EXCEPT ![r] = IF left = <<>> THEN Tail(@) ELSE @]
  /\ GoTo(r, IF left # <<>> THEN "look" ELSE IF Len(kinds[r]) > 1 THEN "any" ELSE "commit")

\* Mutant of LookForAny: only the required defaults are inserted.
LookForNone(r) ==
  /\ pc[r] = "any"
  /\ bare' = [bare EXCEPT ![r] = @ \cup {Head(kinds[r])}]
  /\ Continue(r, Required[Head(kinds[r])])
  /\ UNCHANGED <<category, budget, cmd, met, row>>

\* ensure_default_categories: has_any_owned_kind.
LookForAny(r) ==
  LET k == Head(kinds[r])
      some == \E i \in DOMAIN category : category[i].kind = k IN
  /\ pc[r] = "any"
  /\ bare' = [bare EXCEPT ![r] = IF some THEN @ ELSE @ \cup {k}]
  /\ Continue(r, IF some THEN Required[k] ELSE Defaults[k])
  /\ UNCHANGED <<category, budget, cmd, met, row>>

\* Mutant of Look: a default is inserted whether it is there or not.
LookAway(r) ==
  /\ pc[r] = "look"
  /\ GoTo(r, "insert")
  /\ UNCHANGED <<category, budget, cmd, met, handlerVars>>

\* has_owned_kind_name.
Look(r) ==
  /\ pc[r] = "look"
  /\ IF Taken(<<Head(kinds[r]), Head(names[r])>>, None)
     THEN Continue(r, Tail(names[r]))
     ELSE GoTo(r, "insert") /\ UNCHANGED <<kinds, names>>
  /\ UNCHANGED <<category, budget, cmd, met, bare, row>>

\* No other transaction has inserted the key and is not over.
Free(r, key) == \A q \in Requests \ {r} : \A i \in DOMAIN pending[q] : Key(pending[q][i]) # key

\* A default category is inserted; a category with its key ends the listing in an error.
Insert(r) ==
  LET new == [kind |-> Head(kinds[r]), name |-> Head(names[r]), archived |-> FALSE] IN
  /\ pc[r] = "insert" /\ cmd[r].op = "list"
  /\ Free(r, Key(new))
  /\ IF Taken(Key(new), None)
     THEN Answer(r, "error") /\ UNCHANGED <<kinds, names>>
     ELSE /\ pending' = [pending EXCEPT ![r] =
                              With(@, [i \in {<<r, new.kind, new.name>>} |-> new])]
          /\ names' = [names EXCEPT ![r] = Tail(@)]
          /\ kinds' = [kinds EXCEPT ![r] = IF Len(names[r]) = 1 THEN Tail(@) ELSE @]
          /\ pc' = [pc EXCEPT ![r] = IF Len(names[r]) > 1 THEN "look"
                                  ELSE IF Len(kinds[r]) > 1 THEN "any" ELSE "commit"]
          /\ UNCHANGED reply
  /\ UNCHANGED <<category, budget, cmd, met, bare, row>>

\* list_categories commits what it has inserted, and reads the page.
CommitList(r) ==
  /\ pc[r] = "commit" /\ cmd[r].op = "list"
  /\ category' = With(category, pending[r])
  /\ Answer(r, "ok")
  /\ UNCHANGED <<budget, cmd, met, handlerVars>>

\* create_category.
CommitCategory(r) ==
  LET new == cmd[r].row IN
  /\ pc[r] = "insert" /\ cmd[r].op = "create"
  /\ Free(r, Key(new))
  /\ IF Taken(Key(new), None)
     THEN Answer(r, "conflict") /\ UNCHANGED category
     ELSE /\ category' = With(category, [i \in {<<r, new.kind, new.name>>} |-> new])
          /\ Answer(r, "ok")
  /\ UNCHANGED <<budget, cmd, met, handlerVars>>

-----------------------------------------------------------------------------
\* get_category, get_budget_model: the row is loaded; an archived one is not archived again.
Load(r) ==
  LET c == cmd[r]
      loaded == IF c.op \in {"edit", "archive"} THEN category[c.id] ELSE budget[c.id] IN
  /\ pc[r] = "load"
  /\ row' = [row EXCEPT ![r] = loaded]
  /\ CASE c.op \in {"archive", "archive_budget"} /\ loaded.archived -> Answer(r, "ok")
       [] c.op = "edit_budget" -> GoTo(r, "category")
       [] OTHER -> GoTo(r, "commit")
  /\ UNCHANGED <<category, budget, cmd, met, kinds, names, bare>>

\* What an edit or an archiving leaves of a row: the columns it changes are written.
Change(r) ==
  IF cmd[r].op \in {"archive", "archive_budget"} THEN [f \in {"archived"} |-> TRUE]
  ELSE cmd[r].change
Written(r, now) ==
  LET new == Patch(row[r], Change(r)) IN
  [f \in DOMAIN now |-> IF new[f] # row[r][f] THEN new[f] ELSE now[f]]

\* update_category, archive_category.
CommitEdit(r) ==
  LET id == cmd[r].id
      new == Written(r, category[id]) IN
  /\ pc[r] = "commit" /\ cmd[r].op \in {"edit", "archive"}
  /\ Free(r, Key(new))
  /\ IF Taken(Key(new), id)
     THEN Answer(r, "conflict") /\ UNCHANGED category
     ELSE category' = [category EXCEPT ![id] = new] /\ Answer(r, "ok")
  /\ UNCHANGED <<budget, cmd, met, handlerVars>>

\* The scope a budget is created with or that its edit sets; None when it sets none.
Scope(r) ==
  IF cmd[r].op = "create_budget" THEN cmd[r].row.scope
  ELSE IF "scope" \in DOMAIN cmd[r].change THEN cmd[r].change.scope ELSE None

\* get_valid_category, then validate_budget_period on what was loaded and what was sent.
CheckBudget(r) ==
  LET s == Scope(r)
      known == s \in DOMAIN category
      merged == IF cmd[r].op = "create_budget" THEN cmd[r].row ELSE Patch(row[r], cmd[r].change) IN
  /\ pc[r] = "category"
  /\ IF /\ s # None => known /\ category[s].kind = "expense" /\ ~ category[s].archived
        /\ PeriodValid(merged)
     THEN GoTo(r, "commit") ELSE Answer(r, "refused")
  /\ UNCHANGED <<category, budget, cmd, met, handlerVars>>

\* Mutant of BudgetAccepted: the checks of the period are the service's only.
BudgetKeptApart(b, others) ==
  ~ b.archived => \A c \in others :
    ~ c.archived /\ c.scope = b.scope => c.to <= b.from \/ b.to <= c.from

\* period_dates_ordered, monthly_period_matches_calendar_month and
\* ex_budgets_active_scope_period_no_overlap, which takes no category as one scope.
BudgetAccepted(b, others) ==
  /\ PeriodValid(b)
  /\ ~ b.archived => \A c \in others :
       ~ c.archived /\ c.scope = b.scope => c.to <= b.from \/ b.to <= c.from

\* create_budget, update_budget, archive_budget.
CommitBudget(r) ==
  LET id == IF cmd[r].op = "create_budget" THEN r ELSE cmd[r].id
      new == IF cmd[r].op = "create_budget" THEN cmd[r].row ELSE Written(r, budget[id]) IN
  /\ pc[r] = "commit" /\ cmd[r].op \in {"create_budget", "edit_budget", "archive_budget"}
  /\ IF BudgetAccepted(new, {budget[i] : i \in DOMAIN budget \ {id}})
     THEN budget' = With(budget, [i \in {id} |-> new]) /\ Answer(r, "ok")
     ELSE Answer(r, "conflict") /\ UNCHANGED budget
  /\ UNCHANGED <<category, cmd, met, handlerVars>>

\* The connection or the process is lost: the transaction is rolled back.
Abort(r) ==
  /\ pc[r] \notin {"new", "done"}
  /\ Answer(r, "aborted")
  /\ UNCHANGED <<category, budget, cmd, met, handlerVars>>

Handle(r) ==
  \/ LookForAny(r) \/ Look(r) \/ Insert(r) \/ CommitList(r) \/ CommitCategory(r)
  \/ Load(r) \/ CommitEdit(r) \/ CheckBudget(r) \/ CommitBudget(r)

Next == \E r \in Requests : Handle(r) \/ Abort(r) \/ \E c \in Ask[r] : Arrive(r, c)

Spec == Init /\ [][Next]_vars /\ \A r \in Requests : WF_vars(Handle(r))

-----------------------------------------------------------------------------
KeysUnique == \A i, j \in DOMAIN category : Key(category[i]) = Key(category[j]) => i = j

\* Rows and handlers keep their types, keys are unique, and a handler is over exactly when
\* it has answered.
TypeOK ==
  /\ \A i \in DOMAIN category : i \in CategoryIds /\ category[i] \in Categories
  /\ \A i \in DOMAIN budget : i \in BudgetIds /\ budget[i] \in Budgets
  /\ KeysUnique
  /\ \A r \in Requests :
       /\ reply[r] = "none" <=> pc[r] # "done"
       /\ pc[r] \in {"new", "done"} => pending[r] = NoRows

\* Active budgets of one scope never overlap, a budget ends after it begins and a monthly
\* one is a month of the calendar, though a PATCH is checked with the other half of the
\* period as it was when the budget was loaded (update_budget, validate_budget_period).
BudgetsSound == Sound(budget)

\* A listing that runs alone never fails, whatever names, kinds and archived rows it finds
\* (list_categories, whose router answers a conflict of two listings as an internal error).
ListsFailInRacesOnly ==
  \A r \in Requests : reply[r] = "error" => met[r]

\* The kinds a listing is asked for, and the defaults it wants of one, as it found the kind
\* bare or not.
Sought(r) == KindSet \cap (IF cmd[r].kind = None THEN KindSet ELSE {cmd[r].kind})
Wanted(r, k) == IF k \in bare[r] THEN Defaults[k] ELSE Required[k]
Edited == \E q \in Requests : reply[q] = "ok" /\ cmd[q].op = "edit"

\* A listing that is answered has left the user with every default of a kind that had no
\* category and with the required ones of any other, whoever inserted them, unless a
\* category was edited meanwhile (ensure_default_categories).
ListLeavesDefaults ==
  [][\A r \in Requests :
       reply[r] = "none" /\ reply'[r] = "ok" /\ cmd[r].op = "list" /\ ~ Edited
       => \A k \in Sought(r) : \A n \in Range(Wanted(r, k)) :
            \E i \in DOMAIN category' : Key(category'[i]) = <<k, n>>]_vars

\* Every request is answered: listings that wait for each other's insertions never do so in
\* a circle, because all of them insert in one order (default_category_kinds).
EveryRequestAnswered ==
  \A r \in Requests : pc[r] # "new" ~> pc[r] = "done"

-----------------------------------------------------------------------------
\* The inductive invariant: a handler that has met no other is the only one, and what it
\* then inserts it has just not found.
HandlersOK ==
  /\ cmd \in [Requests -> CommandSet \cup {None}]
  /\ pc \in [Requests -> {"new", "any", "look", "insert", "load", "category", "commit", "done"}]
  /\ reply \in [Requests -> {"none", "ok", "conflict", "refused", "error", "aborted"}]
  /\ met \in [Requests -> BOOLEAN]

Alone == \A r \in Running : ~ met[r] => Running = {r}

LookedFor ==
  \A r \in Running : ~ met[r] /\ pc[r] = "insert" /\ cmd[r].op = "list" =>
    ~ Taken(<<Head(kinds[r]), Head(names[r])>>, None)

IInv ==
  /\ HandlersOK
  /\ Alone
  /\ LookedFor
  /\ BudgetsSound
  /\ ListsFailInRacesOnly

-----------------------------------------------------------------------------
\* The invariant of listings. A handler is where its command leads it, with a row it has
\* loaded; a listing names the kinds in their order.
KindsLeft(kind) ==
  IF kind = None THEN {Kinds, <<"expense">>, <<>>} ELSE {<<kind>>, <<>>}
OnPath(r) ==
  r \in Running =>
    /\ cmd[r] \in CommandSet
    /\ pc[r] \in {"any", "look"} => cmd[r].op = "list"
    /\ cmd[r].op = "list" =>
         /\ pc[r] \in {"any", "look", "insert", "commit"}
         /\ kinds[r] \in KindsLeft(cmd[r].kind)
         /\ kinds[r] = <<>> <=> pc[r] = "commit"
         /\ pc[r] \in {"look", "insert"} => names[r] # <<>>
    /\ cmd[r].op \in {"edit", "archive"} =>
         cmd[r].id \in DOMAIN category /\ (pc[r] # "load" => row[r] \in Categories)
    /\ cmd[r].op \in {"edit_budget", "archive_budget"} =>
         cmd[r].id \in DOMAIN budget /\ (pc[r] # "load" => row[r] \in Budgets)

\* What it has inserted and not committed is new to the table and to every other transaction.
Insertions(r) ==
  \A i \in DOMAIN pending[r] :
    /\ i \in {r} \X KindSet \X Names
    /\ pending[r][i] \in Categories
    /\ Key(pending[r][i]) = <<i[2], i[3]>>
    /\ ~ Taken(<<i[2], i[3]>>, None)
    /\ Free(r, <<i[2], i[3]>>)

\* The kinds it has not come to; none of them has it found bare.
Unseen(r) ==
  IF pc[r] = "new" THEN KindSet
  ELSE {k \in Range(kinds[r]) : pc[r] = "any" \/ k # Head(kinds[r])}
BareSeen(r) == bare[r] \cap Unseen(r) = {}

\* The defaults of the other kinds are there, or it has inserted them, or is about to.
Present(r, key) ==
  \/ \E i \in DOMAIN category : Key(category[i]) = key
  \/ \E i \in DOMAIN pending[r] : Key(pending[r][i]) = key
Covered(r) ==
  r \in Running /\ cmd[r].op = "list" /\ ~ Edited =>
    \A k \in Sought(r) \ Unseen(r) : \A n \in Range(Wanted(r, k)) :
      \/ Present(r, <<k, n>>)
      \/ pc[r] \in {"look", "insert"} /\ k = Head(kinds[r]) /\ n \in Range(names[r])

\* A row that names a request is there when the request is over.
RowsAppear == \A i \in DOMAIN category : i[1] # None => pc[i[1]] = "done"

Columns ==
  /\ DOMAIN pending = Requests
  /\ kinds \in [Requests -> {Kinds, <<"income">>, <<"expense">>, <<>>}]
  /\ names \in [Requests -> Seq(Names)]
  /\ bare \in [Requests -> SUBSET KindSet]
  /\ DOMAIN row = Requests

ListInv ==
  /\ TypeOK
  /\ Columns
  /\ RowsAppear
  /\ \A r \in Requests : OnPath(r) /\ Insertions(r) /\ BareSeen(r) /\ Covered(r)
=============================================================================
