SPECIFICATION ApiSpec
CONSTANTS
  Users = {u1, u2}
  Passwords = {p1, p2}
  Tokens = {t1, t2}
  Requests = {r1, r2}
  Meetings = {m1}
  MaxVersion = 2
  NoUser = NoUser
  NoSession = NoSession
  Nothing = Nothing
SYMMETRY Symmetry
INVARIANTS
  ApiTypeOK
  DetailsOnlyByOwners
PROPERTIES
  SetupOnlyOnce
  EndedSessionsStayEnded
  OthersFieldsKept
  ItemsKeepTheSummary
CHECK_DEADLOCK FALSE
