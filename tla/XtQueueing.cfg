CONSTANTS
  a = a
  b = b
  c = c
  d = d
  ab = ab
  bc = bc
  cd = cd
  aa = aa
  Chain = {a, b, c}
  XtRequest = {ab, bc, aa}
  TxChains <- MCTxChains
  ScpTimeout = 1
  MaxPendingQueue = 2
  NoXt = NoXt
  MaxArrivals = 4
  MaxPeriod = 0
  MaxVotes = 1
SPECIFICATION FairSpec
INVARIANTS
  TypeOK
  ReservationsExact
  NoLostWakeup
PROPERTIES
  StartedXtIsDecided
  QueueDrains
