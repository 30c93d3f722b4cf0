SPECIFICATION FairSpec
CONSTANTS
  r1 = r1
  r2 = r2
  w1 = w1
  Requests = {r1, r2}
  Workers = {w1}
  MaxDeliveries = 2
  MaxBatch = 2
  MaxFaults = 2
INVARIANTS
  TypeOK
  PendingReadable
  NoJobLost
  DebitedOnce
  AttemptsBounded
  BacklogOffByFaults
  NoDebitWithoutDelivery
  DebitedStaysSettled
PROPERTIES
  NoResendAfterBooking
  EveryRequestSettles
  EveryEntryLeaves
