SPECIFICATION FeedSpec
CONSTANTS
  n1 = n1
  n2 = n2
  n3 = n3
  one = one
  all = all
  Notes = {n1, n2, n3}
  IdOrder <- MCIdOrder
  PageSize = 1
  Window = 2
  Marks = {one, all}
  All = All
  Ask <- MCAsk
  None = None
  MaxTime = 1
  MaxVisits = 2
CHECK_DEADLOCK FALSE
INVARIANTS
  NothingTwice
  PagesComplete
  MarkAllCovers
PROPERTIES
  StreamTells
