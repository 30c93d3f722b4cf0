SPECIFICATION Spec
CONSTANTS
  r1 = r1
  r2 = r2
  r3 = r3
  u1 = u1
  u2 = u2
  h1 = h1
  h2 = h2
  w1 = w1
  Chat = Chat
  NoLimit = NoLimit
  NoRequest = NoRequest
  Requests = {r1, r2, r3}
  GroupMade = {r1, r2, r3}
  Users = {u1, u2}
  Sender <- Senders
  Handlers = {h1, h2}
  Workers = {w1}
  Subs <- TwoSubs
  Owner <- Owners
  SubLimit <- Limits
  DailyLimit <- GroupLimits
  FreeLimit = 1
  Earlier = {2}
  LastDay = 1
  MaxMarked = 1
SYMMETRY Symmetry
CHECK_DEADLOCK FALSE
INVARIANTS
  TypeOK
  SubLedgerExact
  UserSubNeverOverrun
  FreeNeverOverrun
  GroupSubOverrunBounded
  GroupLedgerKept
  GroupQuotaOverrunBounded
