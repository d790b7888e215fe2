CONSTANTS
  a = a
  b = b
  c = c
  d = d
  ab = ab
  bc = bc
  cd = cd
  aa = aa
  Chain = {a, b, c}
  XtRequest = {ab, bc}
  TxChains <- MCTxChains
  ScpTimeout = 1
  MaxPendingQueue = 1
  NoXt = NoXt
  MaxArrivals = 2
  MaxPeriod = 1
  MaxVotes = 3
SPECIFICATION Spec
INVARIANTS
  DecisionsAgree
  CommitNeedsEveryChain
  NumbersNeverReused
  IndInv
PROPERTIES
  RefinesAtomicCommit
