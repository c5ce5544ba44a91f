SPECIFICATION IdentitiesSpec
CONSTANTS
  r1 = r1
  r2 = r2
  r3 = r3
  u1 = u1
  u2 = u2
  e1 = e1
  e2 = e2
  e3 = e3
  s1 = s1
  s2 = s2
  t1 = t1
  SignIns = {r1, r2, r3}
  Founders = {u1, u2}
  Emails = {e1, e2, e3}
  Subjects = {s1, s2, t1}
  None = None
  Home <- MCHome
  Provider <- MCProvider
  Offers <- MCAsk
INVARIANTS
  CodesFollowIdentities
  NoUserAlone
PROPERTIES
  RefusedWithReason
CHECK_DEADLOCK FALSE
