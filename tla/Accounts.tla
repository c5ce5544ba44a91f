------------------------------ MODULE Accounts ------------------------------
(***************************************************************************)
(* The accounts of one user, which of them is the default, and the base    *)
(* currency of the user that is to follow it (modules/accounts, PATCH      *)
(* /users/me). Every handler reads what it decides on, statement after     *)
(* statement, and locks nothing; what keeps the defaults apart is a        *)
(* partial unique index and a check constraint.                            *)
(*                                                                         *)
(* Sessions are made without autoflush: a query does not see what the      *)
(* handler has assigned but not flushed. A commit writes the columns that  *)
(* differ from what the session loaded. What runs between two queries of   *)
(* a handler is one step; so are the flush and the commit of a handler     *)
(* that reads nothing between them.                                        *)
(***************************************************************************)
CONSTANTS
  Requests,    \* HTTP requests, each at most once except
  Lister,      \* one that lists accounts as often as a page is opened
  Accounts,    \* ids of account rows
  Currencies,
  Start,       \* users to begin with: accounts with one default that base follows, or none
  Ask,         \* what each request may ask for: sets of commands
  None         \* no row, no currency, no request

Rows == [currency : Currencies, disabled : BOOLEAN, archived : BOOLEAN, default : BOOLEAN]
CommandSet ==
  [op : {"create", "update"}, account : Accounts, currency : Currencies]
  \cup [op : {"disable", "archive", "set_default", "use"}, account : Accounts, currency : {None}]
  \cup [op : {"patch"}, account : {None}, currency : Currencies]
  \cup [op : {"list"}, account : Accounts, currency : {None}]

ASSUME AccountsAssumption ==
  /\ Lister \in Requests
  /\ None \notin Requests \cup Accounts \cup Currencies \cup Rows \cup CommandSet
  /\ \A s \in Start :
       LET existing == {a \in Accounts : s.account[a] # None} IN
       /\ s.account \in [Accounts -> Rows \cup {None}] /\ s.base \in Currencies
       /\ \A a \in existing : ~ s.account[a].archived /\ ~ s.account[a].disabled
       /\ existing # {} =>
            \E d \in existing : /\ s.account[d].currency = s.base
                               /\ \A a \in existing : s.account[a].default <=> a = d
  /\ Ask \in [Requests -> SUBSET CommandSet]
  /\ \A c \in Ask[Lister] : c.op = "list"
  /\ \A q, r \in Requests : \A c \in Ask[q], d \in Ask[r] :   \* new ids differ
       /\ {c.op, d.op} \subseteq {"create", "list"} /\ c.account = d.account
       => q = r /\ \A s \in Start : s.account[c.account] = None

VARIABLES
  account,   \* the table accounts
  base,      \* users.base_currency
  changed,   \* base_currency_changed_at lies in this month
  refs,      \* accounts some transaction, rule, loan or settlement names
  lock,      \* the request whose flush has written a row and is not committed
  cmd,       \* what each request asks for
  pc,        \* where its handler is
  user,      \* base currency and month as it loaded them with the user
  row,       \* the account it loaded
  found,     \* accounts its queries found, to be made or unmade default
  currency,  \* what it will assign to the base currency, or None
  reply,     \* how it was answered
  met        \* whether another handler ran while it did

requestVars == <<cmd, user, row, found, currency>>
vars == <<account, base, changed, refs, lock, pc, reply, met, requestVars>>

-----------------------------------------------------------------------------
Rowed == {a \in Accounts : account[a] # None}
Active == {a \in Rowed : ~ account[a].archived /\ ~ account[a].disabled}
Default == {a \in Active : account[a].default}
Running == {r \in Requests : pc[r] \notin {"new", "done"}}

Init ==
  /\ \E s \in Start : account = s.account /\ base = s.base
  /\ changed = FALSE
  /\ refs = {}
  /\ lock = [a \in Accounts |-> None]
  /\ cmd = [r \in Requests |-> None]
  /\ pc = [r \in Requests |-> "new"]
  /\ user = [r \in Requests |-> None]
  /\ row = [r \in Requests |-> None]
  /\ found = [r \in Requests |-> {}]
  /\ currency = [r \in Requests |-> None]
  /\ reply = [r \in Requests |-> "none"]
  /\ met = [r \in Requests |-> FALSE]

GoTo(r, place) == pc' = [pc EXCEPT ![r] = place] /\ UNCHANGED <<reply, lock>>
Answer(r, answer) ==
  /\ pc' = [pc EXCEPT ![r] = "done"]
  /\ reply' = [reply EXCEPT ![r] = answer]
  /\ lock' = [a \in Accounts |-> IF lock[a] = r THEN None ELSE lock[a]]

-----------------------------------------------------------------------------
\* A request comes in and its user is loaded (get_current_user).
Arrive(r, c) ==
  /\ pc[r] \in {"new"} \cup (IF r = Lister THEN {"done"} ELSE {})
  /\ cmd' = [cmd EXCEPT ![r] = c]
  /\ user' = [user EXCEPT ![r] = [base |-> base, changed |-> changed]]
  /\ row' = [row EXCEPT ![r] = None]
  /\ found' = [found EXCEPT ![r] = {}]
  /\ currency' = [currency EXCEPT ![r] = None]
  /\ pc' = [pc EXCEPT ![r] = CASE c.op = "create" -> "default"
                               [] c.op = "patch" -> "sync"
                               [] c.op = "list" -> "any"
                               [] OTHER -> "load"]
  /\ reply' = [reply EXCEPT ![r] = "none"]
  /\ met' = [q \in Requests |->
       IF q = r THEN Running \ {r} # {} ELSE met[q] \/ q \in Running]
  /\ UNCHANGED <<account, base, changed, refs, lock>>

\* get_owned of an account that exists, with the checks of the operation.
Load(r) ==
  LET c == cmd[r]  loaded == account[c.account] IN
  /\ pc[r] = "load"
  /\ row' = [row EXCEPT ![r] = loaded]
  /\ IF loaded = None THEN Answer(r, "refused") ELSE
     CASE c.op = "archive" -> GoTo(r, "referenced")
       [] c.op = "update" -> GoTo(r, "commit")
       [] c.op = "disable" /\ ~ loaded.archived ->
            IF loaded.disabled THEN Answer(r, "ok")
            ELSE GoTo(r, IF loaded.default THEN "flush" ELSE "commit")
       [] c.op \in {"set_default", "use"} /\ ~ loaded.archived /\ ~ loaded.disabled ->
            GoTo(r, IF c.op = "use" THEN "commit" ELSE "clear")
       [] OTHER -> Answer(r, "refused")
  /\ UNCHANGED <<account, base, changed, refs, met, cmd, user, found, currency>>

\* Mutant of CheckReferences: the account is archived whatever refers to it.
SkipReferences(r) ==
  /\ pc[r] = "referenced"
  /\ IF row[r].archived THEN Answer(r, "ok")
     ELSE GoTo(r, IF row[r].default THEN "flush" ELSE "commit")
  /\ UNCHANGED <<account, base, changed, refs, met, requestVars>>

\* archive_account: is_referenced.
CheckReferences(r) ==
  /\ pc[r] = "referenced"
  /\ IF cmd[r].account \in refs THEN Answer(r, "refused")
     ELSE IF row[r].archived THEN Answer(r, "ok")
     ELSE GoTo(r, IF row[r].default THEN "flush" ELSE "commit")
  /\ UNCHANGED <<account, base, changed, refs, met, requestVars>>

\* disable_account and archive_account of a default flush the row before they look for
\* another; its lock is held to the end.
Flush(r) ==
  LET a == cmd[r].account IN
  /\ pc[r] = "flush"
  /\ lock[a] = None
  /\ lock' = [lock EXCEPT ![a] = r]
  /\ pc' = [pc EXCEPT ![r] = "default"]
  /\ UNCHANGED <<account, base, changed, refs, reply, met, requestVars>>

\* Mutant of ClearDefaults: no other default is cleared.
ClearNothing(r) ==
  /\ pc[r] = "clear"
  /\ GoTo(r, "commit")
  /\ currency' = [currency EXCEPT ![r] = row[r].currency]
  /\ UNCHANGED <<account, base, changed, refs, met, cmd, user, row, found>>

\* set_default_account: clear_default_accounts.
ClearDefaults(r) ==
  /\ pc[r] = "clear"
  /\ found' = [found EXCEPT ![r] = {a \in Rowed : account[a].default}]
  /\ currency' = [currency EXCEPT ![r] = row[r].currency]
  /\ GoTo(r, "commit")
  /\ UNCHANGED <<account, base, changed, refs, met, cmd, user, row>>

\* ensure_default_account: has_any_owned.
LookForAny(r) ==
  /\ pc[r] = "any"
  /\ GoTo(r, IF Rowed = {} THEN "commit" ELSE "default")
  /\ row' = [row EXCEPT ![r] = IF Rowed = {}
       THEN [currency |-> user[r].base, disabled |-> FALSE, archived |-> FALSE, default |-> TRUE]
       ELSE None]
  /\ UNCHANGED <<account, base, changed, refs, met, cmd, user, found, currency>>

\* has_active_default; the row the handler itself has flushed is none any more.
LookForDefault(r) ==
  LET others == {a \in Default : lock[a] # r} IN
  /\ pc[r] = "default"
  /\ IF cmd[r].op = "create"
     THEN /\ row' = [row EXCEPT ![r] = [currency |-> cmd[r].currency, disabled |-> FALSE,
                                        archived |-> FALSE, default |-> others = {}]]
          /\ currency' = [currency EXCEPT ![r] = IF others = {} THEN cmd[r].currency ELSE None]
          /\ GoTo(r, "commit")
     ELSE /\ GoTo(r, IF others = {} THEN "promote" ELSE "sync")
          /\ UNCHANGED <<row, currency>>
  /\ UNCHANGED <<account, base, changed, refs, met, cmd, user, found>>

\* Mutant of Promote: no other account takes over.
PromoteNone(r) ==
  /\ pc[r] = "promote"
  /\ GoTo(r, "sync")
  /\ UNCHANGED <<account, base, changed, refs, met, requestVars>>

\* ensure_active_default: the newest active account becomes the default; ages are not
\* modelled. It may have become one since has_active_default.
Promote(r) ==
  LET candidates == {a \in Active : lock[a] # r} IN
  /\ pc[r] = "promote"
  /\ IF candidates = {} THEN UNCHANGED found
     ELSE \E a \in candidates : found' = [found EXCEPT ![r] = {a} \ Default]
  /\ GoTo(r, "sync")
  /\ UNCHANGED <<account, base, changed, refs, met, cmd, user, row, currency>>

\* Mutant of Sync: the query for the default is left out.
SyncNothing(r) ==
  /\ pc[r] = "sync" /\ cmd[r].op # "patch"
  /\ IF cmd[r].op = "list" /\ found[r] = {} THEN Answer(r, "ok") ELSE GoTo(r, "commit")
  /\ UNCHANGED <<account, base, changed, refs, met, requestVars>>

\* get_default, of sync_default_currency and of PATCH /users/me. A default that has only
\* been assigned is not found. A listing that has changed nothing commits nothing.
Sync(r) ==
  LET others == {a \in Default : lock[a] # r}
      follow == {account[a].currency : a \in others}
      wanted == cmd[r].currency IN
  /\ pc[r] = "sync"
  /\ IF cmd[r].op = "patch"
     THEN IF IF others # {} THEN wanted \notin follow
             ELSE wanted # user[r].base /\ user[r].changed
          THEN Answer(r, "refused") /\ UNCHANGED currency
          ELSE /\ currency' = [currency EXCEPT ![r] = wanted]
               /\ GoTo(r, IF others = {} /\ wanted # user[r].base THEN "choose" ELSE "commit")
     ELSE LET new == follow \ {user[r].base} IN
          /\ currency' = [currency EXCEPT ![r] = IF new = {} THEN None ELSE CHOOSE c \in new : TRUE]
          /\ IF cmd[r].op = "list" /\ found[r] = {} /\ new = {} THEN Answer(r, "ok")
             ELSE GoTo(r, "commit")
  /\ UNCHANGED <<account, base, changed, refs, met, cmd, user, row, found>>

-----------------------------------------------------------------------------
\* What the handler assigns to its account.
Assigned(r) ==
  CASE cmd[r].op = "update" -> [row[r] EXCEPT !.currency = cmd[r].currency]
    [] cmd[r].op = "disable" -> [row[r] EXCEPT !.disabled = TRUE, !.default = FALSE]
    [] cmd[r].op = "archive" -> [row[r] EXCEPT !.archived = TRUE, !.default = FALSE]
    [] cmd[r].op = "set_default" -> [row[r] EXCEPT !.default = TRUE]
    [] OTHER -> row[r]

\* The row it leaves: the columns that differ from those it loaded are written. An
\* account that set_default_account unsets and sets again is written even though it was
\* the default when it was loaded.
Written(r, a) ==
  LET now == account[a]  new == Assigned(r)  old == row[r]
      makes == cmd[r].op \in {"create", "list"} IN
  IF makes /\ a = cmd[r].account /\ old # None THEN old
  ELSE IF ~ makes /\ a = cmd[r].account
  THEN [f \in DOMAIN now |->
          IF new[f] # old[f] \/ (f = "default" /\ a \in found[r]) THEN new[f] ELSE now[f]]
  ELSE IF a \in found[r] THEN [now EXCEPT !.default = cmd[r].op # "set_default"]
  ELSE now

\* The rows whose locks it needs: those it writes, and those of the index that stand in
\* the way of a default it sets.
Awaited(r) ==
  LET written == {a \in Accounts : Written(r, a) # account[a]} IN
  written \cup IF \E a \in written : Written(r, a).default THEN Default ELSE {}

\* uq_accounts_one_active_default_per_user and default_account_active.
Accepted(table) ==
  LET rows == {a \in Accounts : table[a] # None} IN
  /\ \A a \in rows : table[a].default => ~ table[a].disabled /\ ~ table[a].archived
  /\ \A a, b \in rows : table[a].default /\ table[b].default => a = b

\* The base currency it leaves; update_account assigns it when the account is the default.
NewBase(r) ==
  LET c == IF cmd[r].op = "update" /\ row[r].default THEN cmd[r].currency ELSE currency[r] IN
  IF c # None /\ c # user[r].base THEN c ELSE base

\* The handler commits, when the rows it writes are free; a constraint may refuse.
Commit(r) ==
  LET table == [a \in Accounts |-> Written(r, a)]
      month == cmd[r].op = "patch" /\ pc[r] = "choose" IN
  /\ pc[r] \in {"commit", "choose"}
  /\ cmd[r].op # "use"
  /\ \A a \in Awaited(r) : lock[a] \in {None, r}
  /\ IF cmd[r].op = "patch" \/ Accepted(table)
     THEN /\ account' = IF cmd[r].op = "patch" THEN account ELSE table
          /\ base' = NewBase(r)
          /\ changed' = (changed \/ month)
          /\ Answer(r, "ok")
     ELSE Answer(r, "error") /\ UNCHANGED <<account, base, changed>>
  /\ UNCHANGED <<refs, met, requestVars>>

\* A transaction, a rule, a loan or a settlement is inserted with the account.
CommitUse(r) ==
  /\ pc[r] = "commit" /\ cmd[r].op = "use"
  /\ refs' = refs \cup {cmd[r].account}
  /\ Answer(r, "ok")
  /\ UNCHANGED <<account, base, changed, met, requestVars>>

\* The request ends without a commit: an active account has the name already, the
\* connection is lost, or the database gives up one of two that wait for each other.
\* Opening a page again is left to Arrive.
Abort(r) ==
  /\ r # Lister
  /\ pc[r] \notin {"new", "done"}
  /\ Answer(r, "aborted")
  /\ UNCHANGED <<account, base, changed, refs, met, requestVars>>

Handle(r) ==
  \/ Load(r) \/ CheckReferences(r) \/ Flush(r) \/ ClearDefaults(r) \/ LookForAny(r)
  \/ LookForDefault(r) \/ Promote(r) \/ Sync(r) \/ Commit(r) \/ CommitUse(r)

Next == \E r \in Requests : Handle(r) \/ Abort(r) \/ \E c \in Ask[r] : Arrive(r, c)

\* Handlers go on, and pages are opened again and again.
Fairness ==
  /\ \A r \in Requests : WF_vars(Handle(r))
  /\ WF_vars(\E c \in Ask[Lister] : Arrive(Lister, c))

Spec == Init /\ [][Next]_vars /\ Fairness
-----------------------------------------------------------------------------
\* Rows, locks and handlers keep their types, and a handler is over exactly when it has
\* answered.
TypeOK ==
  /\ account \in [Accounts -> Rows \cup {None}]
  /\ base \in Currencies
  /\ changed \in BOOLEAN
  /\ refs \subseteq Accounts
  /\ lock \in [Accounts -> Requests \cup {None}]
  /\ cmd \in [Requests -> CommandSet \cup {None}]
  /\ pc \in [Requests -> {"new", "load", "referenced", "flush", "clear", "any", "default",
                          "promote", "sync", "choose", "commit", "done"}]
  /\ user \in [Requests -> [base : Currencies, changed : BOOLEAN] \cup {None}]
  /\ \A r \in Requests : cmd[r] # None => user[r] \in [base : Currencies, changed : BOOLEAN]
  /\ row \in [Requests -> Rows \cup {None}]
  /\ found \in [Requests -> SUBSET Accounts]
  /\ currency \in [Requests -> Currencies \cup {None}]
  /\ reply \in [Requests -> {"none", "ok", "refused", "error", "aborted"}]
  /\ met \in [Requests -> BOOLEAN]
  /\ \A r \in Requests : reply[r] = "none" <=> pc[r] # "done"

Answered(r) == reply[r] = "none" /\ reply'[r] = "ok"
Follows == \A a \in Default : account[a].currency = base

\* The index and the check refuse nothing but races: a handler that ran alone is never
\* answered with an error, whatever overlapping ones have left behind
\* (set_default_account, ensure_active_default).
ErrorsAreRaces == \A r \in Requests : reply[r] = "error" => met[r]

\* What a handler that ran alone leaves: a default account if there is an active one at
\* all, provided there was a default before it or it is to make one. Disabling and archiving
\* the default hand over, a listing repairs (ensure_active_default). If it sets the
\* default, its currency or the base currency, it leaves the base currency equal to the
\* currency of the default (users/router.py: System currency follows the default
\* account); disabling and archiving do not.
LeavesOrder(r) ==
  Answered(r) /\ ~ met[r] /\ cmd[r].op # "use" =>
    /\ Default # {} \/ cmd[r].op \in {"create", "list", "set_default"} =>
         Default' # {} \/ Active' = {}
    /\ cmd[r].op = "set_default" \/ (cmd[r].op \in {"create", "update", "patch"} /\ Follows) =>
         Follows'

\* A handler that met no other leaves the accounts and the base currency in order when it is
\* answered, however the ones before it left them (accounts/services.py, users/router.py).
LoneLeavesOrder == [][\A r \in Requests : LeavesOrder(r)]_vars

\* Whether a request for the account has met another handler.
Met(op, a) ==
  \E r \in Requests : cmd[r] # None /\ cmd[r].op = op /\ cmd[r].account = a /\ met[r]

\* An account is archived while something names it only if whatever named it ran
\* together with the archiving (archive_account, is_referenced).
ArchivedIsUnused == \A a \in refs : account[a].archived => Met("use", a) /\ Met("archive", a)

\* Whatever overlapping requests have left behind, opening pages again and again brings
\* back a default among the active accounts and its currency as the base currency
\* (list_accounts).
EventuallyRepaired ==
  <>[]((Active # {} => Default # {}) /\ Follows)

-----------------------------------------------------------------------------
\* The inductive invariant. Where a request is on its way.
Path ==
  [create |-> {"default", "commit"},
   update |-> {"load", "commit"},
   disable |-> {"load", "flush", "default", "promote", "sync", "commit"},
   archive |-> {"load", "referenced", "flush", "default", "promote", "sync", "commit"},
   set_default |-> {"load", "clear", "commit"},
   use |-> {"load", "commit"},
   patch |-> {"sync", "choose", "commit"},
   list |-> {"any", "default", "promote", "sync", "commit"}]

OnPath(r) ==
  /\ cmd[r] = None <=> pc[r] = "new"
  /\ cmd[r] # None => pc[r] \in Path[cmd[r].op] \cup {"done"}
  /\ cmd[r] # None /\ r = Lister => cmd[r].op = "list"

\* What it works on exists, and what it makes is active.
HasRow(r) ==
  LET op == cmd[r].op IN
  r \in Running =>
    /\ op \in {"update", "disable", "archive", "set_default", "use"} /\ pc[r] # "load" =>
         row[r] # None /\ account[cmd[r].account] # None
    /\ op = "create" /\ pc[r] = "commit" => row[r] # None
    /\ op \in {"create", "list"} /\ row[r] # None => ~ row[r].archived /\ ~ row[r].disabled
    /\ found[r] \subseteq Rowed

\* Handlers that run at once have met.
Together == \A q, r \in Running : q # r => met[q] /\ met[r]

\* A handler has locked no row but the one it flushed.
LocksHeld ==
  /\ \A a \in Accounts : lock[a] # None =>
       /\ lock[a] \in Running
       /\ cmd[lock[a]].op \in {"disable", "archive"} /\ cmd[lock[a]].account = a
  /\ \A r \in Running :
       cmd[r].op \in {"disable", "archive"} /\ pc[r] \in {"default", "promote", "sync"} =>
         lock[cmd[r].account] = r

\* What a handler that has met no other has read still stands.
Lone(r) ==
  LET op == cmd[r].op  own == cmd[r].account IN
  r \in Running /\ ~ met[r] =>
    /\ op \in {"update", "disable", "archive", "set_default"} /\ pc[r] # "load" =>
         row[r] = account[own]
    /\ op = "create" /\ pc[r] = "commit" => (row[r].default => Default = {})
    /\ op = "set_default" /\ pc[r] # "load" => own \in Active
    /\ op = "set_default" /\ pc[r] = "commit" => found[r] = {a \in Rowed : account[a].default}
    /\ op \in {"disable", "archive"} =>
         /\ pc[r] = "promote" \/ found[r] # {} => Default \subseteq {own}
         /\ found[r] # {} => \E a \in Active \ {own} : found[r] = {a}
    /\ op = "list" =>
         /\ pc[r] = "promote" \/ found[r] # {} => Default = {}
         /\ found[r] # {} => \E a \in Active : found[r] = {a}
         /\ row[r] # None => Rowed = {} /\ found[r] = {}
    /\ op \in {"create", "update", "use"} => found[r] = {}

\* A use has found its account active, an archiving has found it unused, unless they met.
UseChecked ==
  \A r \in Running : cmd[r].op = "use" /\ pc[r] = "commit" =>
    LET a == cmd[r].account IN account[a].archived => met[r] /\ Met("archive", a)

ArchiveChecked ==
  \A r \in Running : cmd[r].op = "archive" /\ pc[r] \notin {"load", "referenced"} =>
    LET a == cmd[r].account IN a \in refs => met[r] /\ Met("use", a)

IInv ==
  /\ TypeOK
  /\ Accepted(account)
  /\ \A r \in Requests : OnPath(r) /\ HasRow(r) /\ Lone(r)
  /\ Together
  /\ LocksHeld
  /\ UseChecked
  /\ ArchiveChecked
  /\ \A a \in refs : account[a] # None
  /\ ArchivedIsUnused
  /\ ErrorsAreRaces

\* What a handler that has met no other has decided is right for the tables it will write.
Decided(r) ==
  LET op == cmd[r].op  own == cmd[r].account  end == {"sync", "commit"} IN
  r \in Running /\ ~ met[r] =>
    /\ user[r].base = base
    /\ op = "update" => currency[r] = None
    /\ op = "create" /\ pc[r] = "commit" =>
         /\ row[r].default \/ Default # {}
         /\ row[r].currency = cmd[r].currency
         /\ currency[r] = IF row[r].default THEN cmd[r].currency ELSE None
    /\ op = "set_default" /\ pc[r] = "commit" => currency[r] = row[r].currency
    /\ op = "patch" /\ pc[r] # "sync" =>
         /\ currency[r] = cmd[r].currency
         /\ Default # {} => \E a \in Default : account[a].currency = cmd[r].currency
    /\ op \in {"disable", "archive"} /\ pc[r] \in end /\ found[r] = {} =>
         own \notin Default \/ Active \subseteq {own}
    /\ op = "list" /\ row[r] # None => row[r].default
    /\ op = "list" /\ pc[r] \in end /\ row[r] = None /\ found[r] = {} =>
         Default # {} \/ Active = {}

\* What a request asks for is what it may ask for, and an account it is to create is not
\* there until it does.
NewIds ==
  \A r \in Requests :
    /\ cmd[r] # None => cmd[r] \in Ask[r]
    /\ \A c \in Ask[r] : c.op = "create" /\ pc[r] # "done" => account[c.account] = None

OrderInv == (\A r \in Requests : Decided(r)) /\ NewIds
=============================================================================
