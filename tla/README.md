# Verification of pfm-app in TLA+

pfm-app keeps one person's finances: a FastAPI server over PostgreSQL
(`src/server/app`), background workers that share its database, and a Next.js
client (`src/client/src`). This directory models the parts of the server whose
correctness depends on what runs at the same time, what fails half way, what is
tried again and what the calendar does, checks them with TLC and proves the main
results with TLAPS.

## The system

| part | state | operations | who it meets |
|---|---|---|---|
| outbox worker (`workers/outbox.py`, `modules/outbox`) | `outbox_events` with status, attempts, lease | claim a batch, process an event, record a failure | other workers, the handler, the clock |
| notification emails (`workers/notifications.py`, `adapters/email.py`) | `notifications.email_*` | send, mark sent | called by the outbox worker inside its transaction |
| notifications (`modules/notifications`) | `notifications` | create (with an outbox event), list, mark read, mark all read | outbox, client |
| notification stream (`modules/notifications/sse.py`) | what a connection has sent | snapshot, poll, send | transactions that commit between two polls |
| transactions (`modules/transactions`) | `transactions`, `transfer_links` | create, update, void, transfer, savings transfer | accounts, categories, goals, idempotency records |
| idempotency (`modules/idempotency`) | `idempotency_records`, unique per user, operation and key | look up, store | every retryable creation |
| savings (`modules/savings`) | `savings_goals`, `savings_contributions` | create, contribute, update, archive | savings transfers |
| accounts and base currency (`modules/accounts`, `modules/users`) | `accounts` with one default, `users.base_currency` | create, update, archive, disable, choose the default, list with repair | everything that refers to an account |
| categories, budgets (`modules/categories`, `modules/budgets`, `finance_defaults.py`) | their tables, with a unique key and an exclusion constraint | create, edit, archive, list with default categories | each other, two first listings |
| loans (`modules/loans`) | people, records, settlements, `loan_balance_adjustment` of accounts | lend, borrow, settle, edit, archive | accounts |
| recurring rules (`modules/recurring`) | `recurring_rules` with the period last paid | create, edit, pause, resume, archive, mark paid or received | transactions with their idempotency keys |
| schedules (`modules/recurring/schedule.py`) | none | next run, due window | time zones, month ends |
| reports (`modules/reports`) | none | dashboard, monthly, cash flow, spending | writes between its queries |
| sessions (`modules/auth`) | `refresh_sessions` in families, login codes | log in, refresh, detect reuse, log out, exchange a code | several tabs or requests of one client |
| identities (`modules/auth`, `modules/users`) | `users`, `oauth_identities`, registration tickets | register, provider callback, register by ticket, change an email | each other, through unique keys |
| receipts (`modules/receipts`, `adapters/storage.py`) | `receipts` and an object store | upload, delete | two stores without a common transaction |

Every request runs in a database session of its own. The sessions neither flush
nor expire on their own (`core/database.py`), the isolation level is READ
COMMITTED, and outside the workers, the marking of recurring periods and token
refresh no row is locked: the services read, decide and commit. What holds the
data together is unique keys, an exclusion constraint, checks, and the fact that
an UPDATE writes only columns the session changed. That is where the hard
behaviour is: requests that overlap, clients that retry, workers that lose their
lease, a crash between an external effect and the commit.

What makes each part correct:

* outbox: an email goes out at most as often as the event was claimed, no two
  workers handle an event at once, delivery and status agree, failure is final
  and comes only after the last attempt, and every event comes to rest;
* notifications: a list is complete and says nothing twice although rows become
  visible out of order, a stream tells of what stays unread, marking all covers
  what was there;
* ledger: a retried creation inserts its rows once and answers the same, money
  is conserved by transfers and savings transfers, a void is final;
* savings: a completed goal was earned by its contributions;
* accounts: one active default that is handed over and repaired, nothing refers
  to an archived account, the base currency follows the default;
* categories and budgets: budgets of one scope do not overlap, a listing leaves
  the default categories, listings never wait in a circle;
* loans: balances and outstanding amounts follow from records and settlements, and
  overlapping handlers spoil no more than what they overlapped on;
* recurring: one transaction per rule and period; runs fall on the days the rule
  names, and reminders agree with them;
* reports: total, buckets and categories of one report count the same rows;
* sessions: a refresh token is used once, its reuse ends the family, everyone is
  answered;
* identities: a code is for the owner of the provider's account, no user is left
  without a way to sign in, nobody is refused without a reason;
* receipts: every visible row has its files, and files without a row come from a
  fault.

## Modules

| module | what it is |
|---|---|
| `EmailDelivery` | what the outbox promises, without workers, leases or clocks |
| `Outbox` | the outbox, its workers and the email handler; one action per transaction or provider call |
| `Feed` | the notification list, the stream and the marks, while notifications are created |
| `NotificationProofs` | the outbox's invariants and its refinement, for any events and workers; lists and marks, for any notifications and pages |
| `Ledger` | income, expenses, transfers, savings transfers, edits, voids, goals and idempotency |
| `Accounts` | accounts, their default, and the base currency that follows it |
| `AccountsProofs` | archiving, the constraints and what a lone handler leaves, for any accounts and requests |
| `Catalog` | categories with their defaults, and budgets |
| `CatalogProofs` | budgets, and what listings do and leave, for any rows and overlapping requests |
| `Loans` | loan records, settlements, edits and the adjustment of account balances |
| `LoansProofs` | its properties, for any records, accounts and amounts, however handlers overlap |
| `Recurring` | recurring rules, their reminders, and the transactions marking them inserts |
| `Calendar` | months, leap years, weeks and instants; used by the next two |
| `Schedule` | next runs and due windows in zones whose clock changes |
| `Reports` | buckets and queries of the four reports |
| `PeriodProofs` | one transaction per occurrence and what goes with it, for any rules and times; the buckets and figures of reports, for any ranges and rows; the next runs and due windows of schedules, for any start, interval and zone |
| `Sessions` | refresh sessions and login codes of one user: rotation, reuse, expiry, logout |
| `Identities` | registration, provider callbacks, tickets and changes of email |
| `AuthProofs` | all safety properties of sessions and of identities, for any requests, codes, users and providers |
| `Receipts` | uploads and deletions over two stores that fail apart |
| `LedgerProofs` | idempotency, money, voids and goals, for any requests and accounts; receipts, for any uploads and deletions |
| `Sums` | lemmas about sums over finite sets of rows |

Each model has a module `MC...` and a `.cfg` with a small instance, but for
`EmailDelivery`, which `Outbox` instantiates, and `Calendar`: `MCCalendar`
composes `Reports` and `Schedule`, and a behaviour of it explores one report or
one rule.

Where one module proves about two models, names that would be declared twice differ:
`FeedInit` and `phase` beside `Init` and `pc` of `Outbox`, `stage` and `outcome` in
`Receipts` and `Identities`, `ReportsInit` and `RowValues` in `Reports`, `Schedules`,
`LocalTime` and `MonthAt` in `Schedule`.

The definitions marked "Mutant of" beside the one they vary (`WriteUnchecked`
beside `Write`, `LookAway` beside `Look`) are the faults the properties are tested
against; no specification uses them.

### Outbox

`status`, `attempts`, `lockedBy`, `lease`, `wait` and `delivery` are columns of
`outbox_events` and `notifications`; `rowLock` is the `FOR UPDATE` lock of a
session; `pc`, `batch`, `cur` and `lag` are the local state of `run_once`.
`Claim` is `claim_events` with the `WHERE` clause in `Available`; the order of
the claim (`available_at, id`) is left open, so any rows may come first.
`BeginEvent` and `SkipEvent` are the beginning of `process_event`; `SendEmail`
the provider's acceptance; `CommitProcessed` the common commit of event and
notification; `HandlerRaises` every way in which handler or commit fail;
`RecordFailure` the transaction that reschedules or gives up. `Crash` stands for
the death of the process and for an error that ends `poll_forever`.

Instants occur only in comparisons, so `available_at` and `locked_until` are
kept as the time left until them, and a worker keeps how long ago its tick read
the clock (`lag`), because the back-off is counted from that reading. `lag`
stops at the longest delay, beyond which it makes no difference. The claim
itself reads the clock and commits at one instant.

Worker and producer run apart in this repository: `OutboxWorker` is started by
tests only and the compose file starts `app.workers.recurring`, whose claim of
due rules returns nothing. Operators may requeue a failed event by hand; that is
not code and not modelled.

### Feed

`created_at` is the beginning of the transaction that inserts a notification, so
`Create` fixes it and `EndCreate` makes the row visible later, or drops it; rows
appear in another order than they sort in, and several may share an instant. The
client has one view at a time: `OpenList` and `ListPage` follow the cursors of
`list_notifications`, `Connect`, `Poll` and `Emit` are the loop of
`notification_sse_stream` with what it has sent in `seen`, and `Leave` closes
either. `LoadOne` and `CommitRead` are `mark_read`; `BeginAll` and `MarkAllRead`
are `mark_all_read`, which takes `read_at` before its one UPDATE and whose rows must
satisfy `read_at_not_before_created_at`. The filter by type, counts, heartbeats and
wording are left out. Whether a request that marks is lost before its commit makes
no difference to the others. Time is `Later`, because `Tick` is the outbox's.

### Ledger

A request goes through `Arrive`, `Lookup` (idempotency), `Load...` (the reads
and the refusals), `Tally` (the sum of a goal's contributions), `Write` (the
flushes, with the unique key of the idempotency record) and `Commit...`; between
any two steps other requests take theirs, and `Abort` may end it. `seen` is what
the handler loaded, and `Written` is how the session turns it into an UPDATE:
only fields that differ from what was loaded are written, over whatever the row
has become. `main`, `credit` and `gave` are the rows a request inserted,
`Balance` is the computed balance of an account. The loan adjustment in the
balance is left out, categories are reduced to the refusals they cause, and the
currency of an account or a goal does not change.

A client may send any command in any request, whatever it was answered before.
That covers the client that lost an answer and sends the request again.

### Accounts

A request goes through the queries of its service one step each: `Load`,
`CheckReferences`, `Flush`, `LookForDefault`, `Promote` and `Sync` for a disabling
or archiving of the default, `ClearDefaults` for a new default, `LookForAny` for the
listing. `row` is what it loaded, `found` the accounts its queries returned and that
it assigns to. No session flushes on its own, so a query does not see what the
handler only assigned: a new default found by `Promote` is not found by `Sync`. The
flushed row of a disabling stays locked to the end (`lock`), and `Commit` waits for
the rows it writes and for an index entry of another transaction. `Written` is the
UPDATE, as in the ledger; `Accepted` is the partial unique index together with the
check, and a commit they refuse answers with an error.

`Lister` is the page that lists accounts: it comes again and again, because that
listing is what repairs a lost default. A request "use" inserts any row that names
an account. `met` records whether another handler ran while one did, which is what
the properties distinguish. Names, opening balances and which active account is
newest are left out (the promoted one is any).

### Catalog

A listing of categories sees to one kind after the other (`KindOrder`):
`LookForAny`, then for each name `Look` and `Insert`, and one commit. What it inserted
is `pending`: another that inserts the same key waits (`Free`) and, if the row is
there by then, fails. All other requests read, check and write in one commit.
`CheckBudget` is `get_valid_category` with `validate_budget_period` on what was
loaded merged with what was sent; `CommitBudget` meets the checks and the exclusion
constraint (`BudgetAccepted`), which is what stands between two edits of one end of
a period each. Dates are numbers, of which some begin a month; amounts, icons and
colours are left out, and reads of budgets are with the reports.

### Loans

A record or settlement is named by the request that created it. A request goes
through `Arrive`, `LoadRecord`, `LoadAccount` for each account, `SumSettlements`
and one of the commits; the refusals are where the code has them, except those
for a person or a date, which are left to choice (`Abort`, which also stands for
a lost connection). As in the ledger, what a handler writes are the fields that
differ from what it loaded (`Written`). The adjustment of an account is such a
field, computed from what was read. `On` is what a record adds to an account,
`Adjust` the write of one adjustment by a difference.

No handler takes a lock, so any may overlap, and updates are lost. The properties say
what is lost and what is not. Two history variables tell the cases apart; no
action reads them. `stale` holds, for a handler at work, the records and accounts
another commit changed after it read them (`Overtake`). `raced` holds the records whose
last settlement or edit was by a handler to which they were stale (`Race`).

* A record that is not raced has no more settled than its principal, and its status
  follows. Two settlements that overlap can together exceed the principal of their
  record; no other record is harmed, and whatever was wrong, the next settlement or
  edit that is not overtaken makes it right or is refused: an edit must
  leave the settled sum within the principal, a settlement what is outstanding.
* An adjustment moves away from its sum only when a handler commits over an account
  that is stale to it, or edits a record that is. A settlement or archive of a record
  somebody is editing keeps the sums, because only changed columns are written; the
  mutant writes the whole row. Nothing takes a drift back: later commits keep it.

A settlement changes its account by the direction its record had then. Nothing
in the database remembers that direction, so `effect` keeps it in the model and
`AdjustmentsAddUp` speaks of it: turning a loan given into a loan taken does not
turn what was already repaid. A record from before accounts were stored has none
until an edit gives it one. People, due dates, currencies of records and
`settled_at` are left out, and so is the enabling of accounts.

### Recurring

A mark (`mark_expense_paid`, `mark_income_received`) goes through `Arrive`, which
reads the clock, `Lock`, which is `get_owned_for_update`, `Record` or `Refuse`,
and `CommitMark`; the row lock is held from the second to the last. Edits,
pauses, resumes and archives go through `LoadRule` and `CommitChange`: they read
without a lock, may be overtaken by anything, and their UPDATE (`Written`, as in
the ledger) waits for a mark that holds the row. `entries` are the transactions
with their idempotency records: rule, kind and period make the key, the rest
what the request hash covers. `Reminded` is membership in the due queue.

Instants are numbers, all months have `MonthLength` days and a time zone is a
fixed offset, so the clipping of the due day and daylight saving do not occur
(`Schedule` has them);
monthly and daily stand for the frequencies that can be marked and those that
cannot. Account, category, amount, currency and description of a rule are one
value, `terms`, so an UPDATE of one of them beside an UPDATE of another is not
told apart. Why an account or category refuses a request, or a balance does not
cover an expense, is left to choice.

### Calendar, Schedule and Reports

`Calendar` has the Gregorian calendar from 2023 on: days, months, weeks from Sunday
and instants in half hours, the unit of every time and offset the instance uses.

`Schedule` translates `schedule.py`, which reckons with local datetimes: a wall clock
and a fold. Between two datetimes of one zone Python compares and subtracts what the
wall shows, and `Utc` is the conversion back, with the rule for times that occur
twice or never. `Look` is a rule that is resumed or edited, and its reminder,
at any instant. The properties compare that with what a schedule means (`Names`,
`RunOn`): the days it names, one run on each. `RunFold` says which of two times that
look the same is meant, and `Shown` of a time of the day that the zone's clock has it
on that day. The comparison of wall times goes by instants when `ClockSteady` holds: no
change of the clock in the hour before, nor in the one after for a rule that started at
the second of two such times.

`Reports` is the four reports of `reports/services.py`: `Plan` is the sequence of their
queries, with the ranges and buckets computed as the code does, `RunQuery` runs one,
and `Write` changes a row between two, because every query has a snapshot of its own.
An answer is the set of rows its sums add; sums of disjoint sets add up whatever the
amounts are. The budgets of a month come in any order, because their query names none.
Percentages, labels, the order of categories and the count of goals are
left out.

### Sessions

A session is named by the request that inserted it. A refresh, a logout and the
exchange of a login code go through `Arrive`, where the clock is read, and
`Lock`, which is the `FOR UPDATE` read of the row; from there on the row is the
handler's until it ends. A refresh that finds its token used goes through
`ListFamily`, `LockFamily` and `CommitReuse`: the query finds the active rows of
its snapshot, waits for them one by one and keeps those that are active still,
so that a new session committed in between is not among them. `UseUp` is what
becomes of a row that is refused (`consumed_at` of a code, `revoked_at` of a
session). A login begins at "read", because it is given no row. `Answer` ends
the transaction and with it the locks; `Abort` is a lost connection or process.

The user may be deactivated once, by someone outside the server. `expires_at` of
a session that replaced another passes after that one's. Tokens and codes are
not told apart from their rows, passwords are a choice, and a request with an
unknown token, which changes nothing, does not come in. How users and
identities come to be is the subject of `Identities`; here a code is simply there.

### Identities

A callback goes through `LookForSubject`, then either `LoadOwner` and `CommitCode`
or `MatchEmail` and, for a user it finds, `LookForPair`, `InsertIdentity` and
`CommitLink`; for none it answers with a ticket. When the insertion meets a key that
was taken meanwhile, `LookAgain` is the second look after the rollback. A
registration with a password goes through `CheckEmail`, `InsertUser`, `CommitUser`;
one by ticket (`join`) also through `LookForSubject` and `InsertIdentity`. A key that is
flushed and not committed makes others wait (`HoldsEmail`, `HoldsIdentity`). Two
callbacks may bring different emails for one provider account, and `CommitEdit` changes
the email of a user. A ticket may be used more than once; that it expires, the HTTP
exchange with the provider and the state of the redirect are left out.

### Receipts

An upload goes through `ArriveUpload`, `Save` of the object and of the metadata,
`Insert`, `CommitUpload` and, when that fails, `Delete` of both files; a deletion
through `ArriveDelete`, `CommitDelete` and `Delete`. Every file operation may raise, every
handler may die (`Crash`), and a commit may take effect while its answer is lost, in
which case the upload takes the files of a row that is there. `faulty` and `lost`
record which receipts that happened to. The transaction may be voided at any time.

## Runs

| run | instance | distinct states | shows |
|---|---|---|---|
| `outbox` | 2 events, 2 workers, 3 attempts, batch 2, lease 1, back-off up to 1, 1 crash | 339 126 | handlers exclude each other, the refinement of `EmailDelivery`, every event comes to rest |
| `outbox_stranded` | 1 event, 2 workers, 2 attempts, 1 crash | - | violated: an expired lease cannot be reclaimed after the last attempt |
| `ledger_money` | 3 requests out of 9 commands, 2 accounts in two currencies, 1 goal, 1 key | 335 698 | idempotency, conservation of money, voids, completed goals |
| `recurring_once` | 3 requests out of 12 commands on one rule, 2 months of 2 days, 2 time zones | 1 062 791 | one transaction per occurrence, made as the rule stands; archived rules are never due |
| `sessions` | 5 requests: a login or code, a rotation, a second one or a logout, two returns of used tokens or the code | 179 693 | one active session per family, tokens and codes used once, what reuse leaves, every request is answered |
| `loans` | 4 requests: a loan, and three out of 8 edits, settlements and an archive of it or of 1 record that was there before, 2 accounts, amounts up to 3 | 653 573 | settlements within the principal, status and adjustments under any overlap, and their repair |
| `accounts` | 2 requests of any kind and the page, 2 accounts, a third that is created and the default one of a listing, 2 currencies | 342 019 | errors are races, archived accounts are unused, a lone request keeps order, pages repair the rest |
| `catalog` | 3 requests, 4 names, 2 default categories per kind, 3 month starts | 199 294 | budgets apart, listings complete and free of circles |
| `feed` | 3 notifications of 2 instants, pages of 1, a window of 2, 2 marks, 2 views | 573 581 | lists, stream and marks |
| `calendar` | 10 rules in 2 zones over about 190 instants; 48 reports over one row that is written between queries | 60 413 | figures of a report agree, buckets are the calendar's, next runs and reminders |
| `identities` | 3 requests, 2 users, 3 emails, 3 provider accounts of 2 providers | 834 628 | codes, ways to sign in, reasons of refusals |
| `receipts` | 2 uploads, 2 deletions | 115 057 | visible rows have files, orphans are explained |

Why the bounds are enough:

* Two workers suffice for the outbox because a lease has one holder and at most
  one that lost it; three attempts let an event be retried, reclaimed and given
  up. Lease and back-off have the same length, so they may run out in either order.
* Three requests suffice for the ledger, the rules, the catalog and the identities
  because their hazards are between two handlers and a row a third one created or
  changed. The requests that are not the target of an edit are interchangeable, and
  the ledger run uses that symmetry, as the run of loans does for its last three.
* Two requests and the page suffice for the accounts: two constraints of two rows
  each, and a page between any steps of the two.
* A family can be revoked after three requests (a login, a rotation, the return of
  the first token); five let two used tokens come back at once.
* Four requests on loans make a record, settle it twice at a time and then edit it: two
  that overlap and one after them that meets the damage. In this instance records are
  over-settled, have a wrong status, lose updates of adjustments and are made right again.
* Pages of one row put a page's end between any two notifications, two with one
  instant among them; a window of two with three notifications lets one fall out.
* For the calendar one row suffices, because `FiguresAgree` speaks of one row at a
  time. The dates are the turn of a year, the 28th to 31st of months, 29 February and
  Sundays; the instants surround every change of the clock, and one rule starts at the
  second of two times that look the same.
* One receipt would do, because no two share a file; the second upload shows that.

The systems stop when all requests are answered, so only the outbox runs check for
deadlock; that nobody waits for ever is a liveness property where handlers lock or
wait for keys (`sessions`, `catalog`).

Fairness is used in four places. For the outbox `poll_forever` keeps a worker going
and time passes (`FairSpec`); nothing is assumed of the provider, a handler may raise
at every attempt, and `EventuallySettled` excuses what a crashed worker left, because
`outbox_stranded` shows that it may be left for ever. Handlers of sessions, accounts
and the catalog go on whenever the row or key they wait for is free (`WF` on
`Handle`): the server runs them and PostgreSQL grants a lock that is released; a lock
never stays with a handler that is gone, because its transaction is rolled back. The
page of accounts is opened again and again (`WF` on its arrival): without a page
nothing repairs a lost default, and `EventuallyRepaired` says what opening pages
achieves. The stream's loop goes on while its client is there (`WF` on `Poll` and
`Emit`). The other specifications state no fairness and only safety.

## What is proved

All theorems hold for every instance that satisfies the module's named assumption.
`IInv`, or what is named in its place, is the inductive invariant of a model, and its
proof has one lemma or step per action. TLC checked each invariant before it was proved.

From `OutboxAssumption` (finitely many workers, positive bounds): types,
`EmailsWithinAttempts`, `HandlerExclusive`, `ProcessedIsDelivered`,
`LeaseIffProcessing`, `FailedOnlyWhenSpent`, `FailedIsFinal`, and that the outbox
implements `EmailDelivery`. `IInv` adds to these that whoever holds a row lock is in
that row's handler and the row is in processing (`LocksMatch`), that workers hold
only events that exist (`WorkIsInserted`), and that emails sent and workers that may
still send one do not exceed the attempts (`AttemptsAccountFor`). Without the last
one the bound on emails is not inductive: a worker that claimed and has not sent yet
would not be accounted for.

From `FeedAssumption`: types, `NothingTwice`, `PagesComplete` and `MarkAllCovers`.
The order of the list (`created_at`, then `id`) is shown to be total, and every set of
rows to have a sequence in that order; what is left is `FeedInv`. Down to its cursor a
list has all that it owes and below it nothing (`PagesSettled`), though rows with an older
`created_at` become visible while it is read; a stream remembers what it sent
(`StreamSettled`); a request to mark all rows knew only rows created before the instant it
took (`MarkSettled`).

From `LedgerAssumption`: types, `KeyOnce`, `ReplaySame`, `VoidSticks`, `MoneyConserved`
and `CompletedWasEarned`. `IInv` adds that a stored or held key belongs to one request
(`KeyHolding`), that rows appear with the end of their request (`RowsInserted`), and that
a handler has loaded what its command works on (`Loaded`). `MoneyInv` adds that a request's
rows are those its command inserts, up to edits of income and expenses (`RowsAsAsked`),
so that each step changes a sum of balances by what its request brings in or takes out;
and that what a contributing handler has summed stays true (`ViewsTrue`), because
contributions only add to it. `CompletedWasEarned` is about goals whose target nobody
changes: a handler may have compared with the target of before.

From `LoansAssumption`, for all behaviours of `Spec`, overlapping or not: types,
`SettledWithinPrincipal`, `StatusFollowsSettlements` and `AdjustmentsAddUp`. `LoansInv`
says that what a handler has read is what the database holds, except what is `stale` to
it (`ReadsHold`, `CommitsHold`): a commit changes nothing that another handler has
read without making it stale to that handler (`OthersHold`), whether it is itself
overtaken or not. A handler about to write a record or account that is not stale
therefore checked the sum of settlements that is there and adds to the adjustment that is
there; that the rows were right before is not needed, which is why the next commit that is
not overtaken repairs a record. `LoansStep` proves with each action that no adjustment
drifts otherwise (`OnlyRacesDrift`). Handlers one after the other are the special case in
which nothing is ever stale.

Sums are those of the community modules: a fold by a function chosen over all subsets.
`Sums` shows that this function exists and what it gives for a set with one element more,
by induction on finite sets in a form the provers take: what has the property is a set of
sets, and a minimal set outside it a contradiction.

From `AccountsAssumption`: types, `ArchivedIsUnused`, `ErrorsAreRaces` and
`LoneLeavesOrder`. `IInv` adds
the places a command comes through (`OnPath`), that the row it works on exists
(`HasRow`), that handlers that run at once have met (`Together`), that no row is locked
but by the one that flushed it (`LocksHeld`), and, the heart of it, that what a handler
that has met no other has read still stands (`Lone`): it is the default, or there is
none, as it found. `UseChecked` and `ArchiveChecked` say of a use and an archiving what
their looks are worth once they have met. `OrderInvariance` adds what such a handler has
decided about the accounts it found (`Decided`): at its commit that makes a default and a
base currency, whatever the handlers before it left.

From `CatalogAssumption`, which has the tables start as their constraints allow
(`Consistent`): types with the unique key, `BudgetsSound`, `ListsFailInRacesOnly` and
`ListLeavesDefaults`. `IInv` adds that a handler that has met no other is the only one
that runs (`Alone`), and that what such a listing inserts is still missing (`LookedFor`).
`ListInv` says of every listing, alone or not, that what it has seen or inserted is there:
keys go only with an edit, and no two transactions insert the same one, because the later
waits for the earlier.

From `RecurringAssumption`: types, `OncePerOccurrence`, `MarkerHasEntry`,
`ArchivedNeverReminded` and `EntryFollowsRule`. `IInv` adds that a mark holds its rule's
row from its read to its commit and the row stays what was read (`LocksHeld`), that
what it is about to commit was checked against that row and clashes with no
transaction inserted since (`Checked`: a mark of another rule may have committed
meanwhile), and that `archived_at` once set stays set although the status may change
(`ArchiveKept`: a handler that loaded the rule before the archive does not write the
column). Sequences of edits between two marks make the markers name periods of other
time zones or kinds; only the transactions, not the markers, carry the result.

From `ReportsAssumption`: `FiguresAgree` and `BucketsFollowCalendar`, for any ranges, also
longer than any year. The months of `Calendar` are shown to partition the days (`MonthOfDay`
and the lemmas before it), by the table of days in years of two lengths; the proofs reckon
with a leap year every fourth year, which the Gregorian calendar has until 2099.
`ReportBuckets` is recursive: that there is such a function for all instants is shown from
those for finitely many, and that its sequence tiles the range (`Tiles`, `Covers`) by
induction on how much of the range is left. A row is then in one bucket, and by
`ReportsInv` every answer of the plan still stands for the rows that were not written.

From `ScheduleAssumption`: `NextRunIsNext` and `RemindersMatchRuns`, for any rule, instant
and interval and any zone of two offsets that changes between them at any instants.
`ScheduleInv` is inductive, and each property follows from it in a state: what matters is
what the functions compute. A local time with its fold is of one instant (`RoundTrip`),
and while the clock is steady a wall that shows more is later (`CalmOrder`), also when its
time is one that the clock leaves out or has twice. The runs of a schedule are numbered:
the days it names are those of the numbers (`NamedDays`, where the month's length clamps
the day and the months are counted), the walls of the numbers rise (`WallsInOrder`), and
the code's division, or its search from the first month (`LastAfter` says that it ends),
finds the number whose wall is past the present one while the one before it is not
(`NextRunOf`). The month arithmetic of the reminders names the same run (`DueIsRun`).

From `SessionsAssumption`: types, `OneActivePerFamily`, `RedeemedOnce`, `FamilyIsChain`,
`RevokedForGood`, `NoRevival` and `ReuseRevokes`. `IInv` adds that a handler has its row
locked and as it was read (`LocksHeld`), that a session appears with the end of its
request (`Inserted`), that a family with a session revoked other than by rotation has
no active one (`TerminalIsLast`), that an active session missing from a handler's list
came by a rotation of one that is in it (`ListedCovers`), and that a token or code that
brought new tokens is rotated or consumed (`UsedUp`). The chain and the last three need
each other: that a rotation's new session is the only active one follows from the old
one having been it. The proofs reduce every step to one of four writes
(`SessionWrites`): none, a revocation, a new family, a rotation.

From `IdentitiesAssumption`: types, `CodesFollowIdentities`, `NoUserAlone` and
`RefusedWithReason`. `IInv` adds where each handler stands and what its earlier looks
have established that cannot be taken back (`Started`, `Stage`, `Command`): an identity,
once there, keeps its owner, and a user stays. No two handlers hold the key of one
provider account (`KeysHeld`), and owners exist (`OwnersExist`).

From `ReceiptsAssumption`: types, `ActiveIsStored` and `OrphansExplained`. `IInv` adds how
much is stored at each place of an upload (`UploadProgress`), that files go only after
the row (`DeleteProgress`), and that what no visible row owns has a handler on its way
to remove it (`BeingRemoved`).

Only model-checked:

* liveness (`EventuallySettled`, `EveryRequestAnswered` of sessions and of the catalog,
  `EventuallyRepaired`, `StreamTells`), because the prover does neither ENABLED nor
  fairness.

## Where code and documents differ

One difference is a run of its own:

* A crash during the last attempt strands an event in processing (`outbox_stranded`),
  although `docs/architecture/SYSTEM_DESIGN.md` lets workers reclaim expired locks.

The others were met while modelling. The properties above are stated so that they
hold; these are the cases they leave out.

* Outbox: a late failure report reopens a processed event and the email is sent again.
  `EmailDelivery` allows it, within the attempts.
* Accounts: a disabling or archiving of the default promotes another account, but the
  base currency does not follow: the promotion is only assigned, and the query of
  `sync_default_currency` does not see it, because the session does not flush.
  `users/router.py` says "System currency follows the default account."; the next
  listing makes it so.
* Accounts: a transaction that overlaps an archiving may name the archived account.
* Ledger: two overlapping updates of a transaction can leave it with the account of
  one and the currency of the other; two overlapping contributions can meet a goal's
  target without completing it; a contribution that read an active goal completes it
  after it was archived.
* Loans: two overlapping loans on one account leave its balance adjustment without one
  of them, for good; two overlapping settlements exceed the principal of their record
  until an edit raises it; an edit can take back an archive it overlaps.
* Categories: two overlapping first listings insert the same defaults, and one of them
  is answered with an internal error.
* Notifications: `mark_all_read` fails as a whole when a notification begins to be
  created after it took `read_at`. An open stream keeps its database session, so every
  open stream takes one of fifteen pooled connections.
* Schedules: `calculate_next_run_on_or_after` skips an occurrence exactly at the
  instant asked for, unless it is the first; in the hour after a change of the clock,
  and for rules that start at the second of two times that look the same in the hour
  before it, the comparison of wall times errs. A run at a time of the day that the
  clock leaves out is made up for by the offset before the change, which may be on
  another day.
* Reports: the balance of the dashboard leaves out `loan_balance_adjustment`, which
  the balance of an account includes. A row written while a report is made may be in
  some of its figures and not in others.

## Not modelled

* People, due dates and currencies of loans, and the creation of savings goals: single
  inserts and columns that no other handler reads before it writes. Why they refuse a
  loan is left to choice.
* The client's presentation, and its renewal of cookies (`lib/auth/server.ts`): what
  the server makes of parallel renewals is in `Sessions` (`ReuseRevokes`).
* The HTTP exchange with OAuth providers, hashing, and the signature of access tokens.
* The recurring worker: its claim returns no rules, so it changes no state.
* Migrations (the constraints they end with are in the models), configuration and
  logging.
