----------------------------- MODULE MCRecurring -----------------------------
(***************************************************************************)
(* Recurring on a small instance: one monthly expense, due on the second   *)
(* of two days of the month, three requests, four instants over two months *)
(* and a time zone one day ahead.                                          *)
(***************************************************************************)
EXTENDS Recurring, TLC
CONSTANTS r1, r2, r3, rent, cheap, dear, utc, ahead, early, late

MCOffset == [z \in Zones |-> IF z = ahead THEN 1 ELSE 0]
MCNewRule ==
  [x \in Rules |->
     [status |-> "active", archivedAt |-> FALSE, type |-> "expense", frequency |-> "monthly",
      interval |-> 1, terms |-> cheap, zone |-> utc, start |-> 1, end |-> Never,
      nextRun |-> 1, paid |-> Never, received |-> Never]]

\* Edits of what is paid, of when it is due, and of what can be marked.
MCChanges ==
  {[terms |-> dear], [zone |-> ahead], [start |-> 3], [start |-> 0, end |-> 3],
   [type |-> "income", terms |-> dear], [frequency |-> "daily", interval |-> 2]}

MCCommands ==
  {[op |-> "expense", rule |-> rent, stamp |-> s] : s \in Stamps}
  \cup {[op |-> "income", rule |-> rent, stamp |-> early]}
  \cup {[op |-> "edit", rule |-> rent, change |-> change] : change \in MCChanges}
  \cup {[op |-> o, rule |-> rent] : o \in {"pause", "resume", "archive"}}

MCSymmetry == Permutations(Requests)
=============================================================================
