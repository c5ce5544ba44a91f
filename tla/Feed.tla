-------------------------------- MODULE Feed --------------------------------
(***************************************************************************)
(* What one user reads of the notifications (modules/notifications): the   *)
(* list page by page, the event stream, and the requests that mark rows as *)
(* read, while notifications are being created.                            *)
(*                                                                         *)
(* created_at is the beginning of the transaction that inserts a row, so   *)
(* rows may become visible in another order than they sort in, and several *)
(* may have the same instant.  Every query sees what is committed by then. *)
(***************************************************************************)
EXTENDS Integers, FiniteSets, Sequences, Functions

CONSTANTS
  Notes,     \* notifications of the user
  IdOrder,   \* where a notification's id sorts
  PageSize,  \* limit of list_notifications
  Window,    \* NOTIFICATION_STREAM_INITIAL_LIMIT
  Marks,     \* requests that mark as read
  All,       \* the target of POST /read-all
  Ask,       \* what each of them may be about
  None,      \* no cursor, no target
  MaxTime,   \* bound on the clock
  MaxVisits  \* bound on lists and streams the client opens

ASSUME FeedAssumption ==
  /\ IsFiniteSet(Notes)
  /\ IdOrder \in [Notes -> Nat]
  /\ \A m, n \in Notes : IdOrder[m] = IdOrder[n] => m = n
  /\ PageSize \in Nat \ {0} /\ Window \in Nat \ {0}
  /\ All \notin Notes /\ None \notin Notes \cup {All}
  /\ Ask \in [Marks -> SUBSET (Notes \cup {All})]
  /\ MaxTime \in Nat /\ MaxVisits \in Nat

VARIABLES
  now,      \* the clock of server and database
  state,    \* "absent", "open" in an uncommitted transaction, "stored" or "dropped"
  created,  \* created_at
  read,     \* read_at is set
  view,     \* what the client follows: "none", "pages", "listed" or "stream"
  unread,   \* unread_only of the list
  cursor,   \* cursor of the next page
  got,      \* notifications the client was given since it opened the view
  owed,     \* those that were visible when it opened the list
  seen,     \* seen_notification_ids of the stream
  out,      \* rows of the last poll that are still to be sent
  visits,   \* views opened so far
  target,   \* what a request marks
  phase,    \* "new", "loaded", "update" or "done"
  at,       \* read_at, as a request took it from the clock
  known,    \* notifications stored when a request for all of them came in
  reply     \* "none", "ok" or "error"

noteVars == <<now, state, created, read>>
viewVars == <<view, unread, cursor, got, owed, seen, out, visits>>
markVars == <<target, phase, at, known, reply>>
feedVars == <<noteVars, viewVars, markVars>>

-----------------------------------------------------------------------------
\* Ascending (created_at, id).
Before(m, n) ==
  created[m] < created[n] \/ (created[m] = created[n] /\ IdOrder[m] < IdOrder[n])

\* ORDER BY created_at DESC, id DESC
Ordered(rows) ==
  CHOOSE s \in [1 .. Cardinality(rows) -> rows] :
    /\ Range(s) = rows
    /\ \A i, j \in 1 .. Cardinality(rows) : i < j => Before(s[j], s[i])

\* LIMIT limit
Newest(rows, limit) ==
  IF Cardinality(rows) <= limit THEN Ordered(rows) ELSE SubSeq(Ordered(rows), 1, limit)

\* The rows list_owned selects from.
Visible(unreadOnly) == {n \in Notes : state[n] = "stored" /\ (unreadOnly => ~ read[n])}

\* Mutant of Behind: rows of the cursor's instant are skipped.
BehindByTime(n, c) == c = None \/ created[n] < created[c]

\* apply_notification_cursor
Behind(n, c) == c = None \/ Before(n, c)

\* The cursor is the (created_at, id) of the last row of a page that has a successor.
NextCursor(page, hasMore) == IF hasMore THEN page[Len(page)] ELSE None

FeedInit ==
  /\ now = 0
  /\ state = [n \in Notes |-> "absent"]
  /\ created = [n \in Notes |-> 0]
  /\ read = [n \in Notes |-> FALSE]
  /\ view = "none" /\ unread = FALSE /\ cursor = None
  /\ got = <<>> /\ owed = {} /\ seen = {} /\ out = <<>> /\ visits = 0
  /\ target = [r \in Marks |-> None]
  /\ phase = [r \in Marks |-> "new"]
  /\ at = [r \in Marks |-> 0]
  /\ known = [r \in Marks |-> {}]
  /\ reply = [r \in Marks |-> "none"]

-----------------------------------------------------------------------------
\* create_notification up to its flush: now() is when the transaction began.
Create(n) ==
  /\ state[n] = "absent"
  /\ state' = [state EXCEPT ![n] = "open"]
  /\ created' = [created EXCEPT ![n] = now]
  /\ UNCHANGED <<now, read, viewVars, markVars>>

\* The end of create_notification: its commit, or the rollback of any error.
EndCreate(n, outcome) ==
  /\ state[n] = "open"
  /\ state' = [state EXCEPT ![n] = outcome]
  /\ UNCHANGED <<now, created, read, viewVars, markVars>>

Later ==
  /\ now < MaxTime
  /\ now' = now + 1
  /\ UNCHANGED <<state, created, read, viewVars, markVars>>

\* The client opens the list without a cursor.
OpenList(unreadOnly) ==
  /\ view = "none"
  /\ visits < MaxVisits
  /\ view' = "pages"
  /\ unread' = unreadOnly
  /\ owed' = Visible(unreadOnly)
  /\ visits' = visits + 1
  /\ UNCHANGED <<noteVars, cursor, got, seen, out, markVars>>

\* list_notifications: one row more than the page shows whether there is another page.
ListPage ==
  /\ view = "pages"
  /\ LET rows == Newest({n \in Visible(unread) : Behind(n, cursor)}, PageSize + 1)
         hasMore == Len(rows) > PageSize
         page == IF hasMore THEN SubSeq(rows, 1, PageSize) ELSE rows
     IN  /\ got' = got \o page
         /\ cursor' = NextCursor(page, hasMore)
         /\ view' = IF hasMore THEN "pages" ELSE "listed"
  /\ UNCHANGED <<noteVars, unread, owed, seen, out, visits, markVars>>

\* notification_sse_stream up to its snapshot event.
Connect ==
  /\ view = "none"
  /\ visits < MaxVisits
  /\ view' = "stream"
  /\ visits' = visits + 1
  /\ UNCHANGED <<noteVars, unread, cursor, got, owed, seen, out, markVars>>

\* The stream asks for the newest unread rows, at first and after every pause.
Polling(rows) ==
  /\ view = "stream"
  /\ out = <<>>
  /\ out' = rows
  /\ UNCHANGED <<noteVars, view, unread, cursor, got, owed, seen, visits, markVars>>

\* Mutant of Poll: rows that sort before the newest one sent are taken for old.
PollNewer ==
  Polling(Ordered({n \in Range(Newest(Visible(TRUE), Window)) : \A m \in seen : Before(m, n)}))

\* The rows of the window that the stream has not seen, in the order they came in.
Poll == Polling(Ordered(Range(Newest(Visible(TRUE), Window)) \ seen))

\* One notification.created event.
Emitting(remembered) ==
  /\ view = "stream"
  /\ out # <<>>
  /\ got' = Append(got, Head(out))
  /\ seen' = seen \cup remembered
  /\ out' = Tail(out)
  /\ UNCHANGED <<noteVars, view, unread, cursor, owed, visits, markVars>>

\* Mutant of Emit: what was sent is not remembered.
EmitForgetting == Emitting({})

Emit == Emitting({Head(out)})

\* The client closes a view, or the connection of the stream breaks; both sides forget it.
Leave ==
  /\ view # "none"
  /\ view' = "none"
  /\ unread' = FALSE /\ cursor' = None
  /\ got' = <<>> /\ owed' = {} /\ seen' = {} /\ out' = <<>>
  /\ UNCHANGED <<noteVars, visits, markVars>>

-----------------------------------------------------------------------------
\* mark_read loads a row, and is over when that is read.
LoadOne(r, n) ==
  /\ phase[r] = "new"
  /\ state[n] = "stored"
  /\ target' = [target EXCEPT ![r] = n]
  /\ phase' = [phase EXCEPT ![r] = IF read[n] THEN "done" ELSE "loaded"]
  /\ reply' = [reply EXCEPT ![r] = IF read[n] THEN "ok" ELSE "none"]
  /\ UNCHANGED <<noteVars, viewVars, at, known>>

\* mark_all_read takes read_at from the clock.
BeginAll(r) ==
  /\ phase[r] = "new"
  /\ target' = [target EXCEPT ![r] = All]
  /\ phase' = [phase EXCEPT ![r] = "update"]
  /\ at' = [at EXCEPT ![r] = now]
  /\ known' = [known EXCEPT ![r] = Visible(FALSE)]
  /\ UNCHANGED <<noteVars, viewVars, reply>>

Answer(r, answer) ==
  /\ phase' = [phase EXCEPT ![r] = "done"]
  /\ reply' = [reply EXCEPT ![r] = answer]
  /\ UNCHANGED <<now, state, created, viewVars, target, at, known>>

\* mark_read commits the read_at it found missing.
CommitRead(r) ==
  /\ phase[r] = "loaded"
  /\ read' = [read EXCEPT ![target[r]] = TRUE]
  /\ Answer(r, "ok")

\* read_at_not_before_created_at, of every row an UPDATE would set.
ReadAtValid(rows, readAt) == \A n \in rows : created[n] <= readAt

\* mark_all_read: one UPDATE of the rows that are unread by then, or none of them.
Update(r, rows) ==
  /\ phase[r] = "update"
  /\ IF ReadAtValid(rows, at[r])
     THEN read' = [n \in Notes |-> read[n] \/ n \in rows] /\ Answer(r, "ok")
     ELSE UNCHANGED read /\ Answer(r, "error")

\* Mutant of MarkAllRead: the rows of a page are marked.
MarkPageRead(r) == Update(r, Range(Newest(Visible(TRUE), PageSize)))

MarkAllRead(r) == Update(r, Visible(TRUE))

FeedNext ==
  \/ \E n \in Notes : Create(n) \/ EndCreate(n, "stored") \/ EndCreate(n, "dropped")
  \/ Later
  \/ \E unreadOnly \in BOOLEAN : OpenList(unreadOnly)
  \/ ListPage
  \/ Connect
  \/ Poll
  \/ Emit
  \/ Leave
  \/ \E r \in Marks :
       \/ \E n \in Ask[r] \cap Notes : LoadOne(r, n)
       \/ CommitRead(r)
       \/ All \in Ask[r] /\ BeginAll(r)
       \/ MarkAllRead(r)

\* The stream's loop goes on as long as its client is there.
FeedSpec == FeedInit /\ [][FeedNext]_feedVars /\ WF_feedVars(Poll) /\ WF_feedVars(Emit)

-----------------------------------------------------------------------------
\* The values of rows, views and requests.
RowTypes ==
  /\ now \in 0 .. MaxTime
  /\ state \in [Notes -> {"absent", "open", "stored", "dropped"}]
  /\ created \in [Notes -> 0 .. MaxTime]
  /\ read \in [Notes -> BOOLEAN]

ViewTypes ==
  /\ view \in {"none", "pages", "listed", "stream"}
  /\ unread \in BOOLEAN
  /\ cursor \in Notes \cup {None}
  /\ got \in Seq(Notes) /\ out \in Seq(Notes)
  /\ owed \subseteq Notes /\ seen \subseteq Notes
  /\ visits \in 0 .. MaxVisits

MarkTypes ==
  /\ target \in [Marks -> Notes \cup {All, None}]
  /\ phase \in [Marks -> {"new", "loaded", "update", "done"}]
  /\ at \in [Marks -> 0 .. MaxTime]
  /\ known \in [Marks -> SUBSET Notes]
  /\ reply \in [Marks -> {"none", "ok", "error"}]

FeedTypeOK == RowTypes /\ ViewTypes /\ MarkTypes

\* Neither the pages of a list nor the events of a connection bring a notification twice,
\* whatever is created, committed late and marked in between.
NothingTwice == IsInjective(got)

\* A client that has followed the cursors to the end was given every notification that
\* was there when it began and still is what it asked for, also when several share the
\* instant a page ends at (list_notifications, apply_notification_cursor).
PagesComplete ==
  view = "listed" => owed \cap Visible(unread) \subseteq Range(got)

\* POST /read-all leaves nothing unread that was stored when it came in. It fails as a
\* whole only if another notification began to be created after it took its read_at.
MarkAllCovers ==
  \A r \in Marks :
    /\ target[r] = All /\ reply[r] = "ok" => \A n \in known[r] : read[n]
    /\ reply[r] = "error" => \E n \in Notes \ known[r] : created[n] > at[r]

\* A client that stays connected is told of every notification that stays unread and
\* among the newest of those, though it was committed after others that sort behind it.
StreamTells ==
  \A n \in Notes :
    []<>(\/ view # "stream"
         \/ n \notin Range(Newest(Visible(TRUE), Window))
         \/ n \in Range(got))

\* What the proofs need besides. Rows keep the instant they were created at, which is past;
RowsSettled == \A n \in Notes : created[n] <= now

\* a request for all rows knows rows that were created before it took its read_at, and fails
\* over a row that it does not know;
MarkSettled(r) ==
  /\ known[r] \subseteq Visible(FALSE)
  /\ phase[r] = "new" => reply[r] = "none" /\ target[r] = None
  /\ phase[r] = "loaded" => target[r] \in Notes /\ reply[r] = "none"
  /\ phase[r] = "update" =>
       /\ target[r] = All /\ reply[r] = "none"
       /\ \A n \in known[r] : created[n] <= at[r]
  /\ target[r] = All /\ reply[r] = "ok" => \A n \in known[r] : read[n]
  /\ reply[r] = "error" => \E n \in Visible(FALSE) \ known[r] : created[n] > at[r]

\* between two pages the client has what it is owed down to the cursor, and nothing beyond;
PagesSettled ==
  /\ cursor = None => got = <<>>
  /\ cursor # None => \A n \in Range(got) : ~ Before(n, cursor)
  /\ \A n \in owed \cap Visible(unread) : n \in Range(got) \/ Behind(n, cursor)

\* a stream remembers what it has sent, and what it is about to send is new and different.
StreamSettled == Range(got) = seen /\ Range(out) \cap seen = {} /\ IsInjective(out)

ViewSettled ==
  /\ Range(got) \cup Range(out) \cup owed \cup ({cursor} \ {None}) \subseteq Visible(FALSE)
  /\ view = "none" => got = <<>> /\ cursor = None /\ seen = {}
  /\ view \notin {"pages", "listed"} => cursor = None
  /\ view # "stream" => seen = {} /\ out = <<>>
  /\ view = "pages" => PagesSettled
  /\ view = "stream" => StreamSettled

FeedInv ==
  /\ FeedTypeOK /\ RowsSettled /\ (\A r \in Marks : MarkSettled(r)) /\ ViewSettled
  /\ NothingTwice /\ PagesComplete
=============================================================================
