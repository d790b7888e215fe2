CONSTANTS
  a = a
  b = b
  ab = ab
  bb = bb
  solo = solo
  Chain = {a, b}
  Sender = {a, b}
  XtRequest = {ab, bb, solo}
  TxChains <- MCTxChains
  ProofWindow = 2
  InitPeriod = 1
  InitTarget = 2
  InitFinalized = 1
  GenesisHash = GenesisHash
  MaxPeriod = 4
  MaxInstances = 1
  MaxRollbacks = 1
SPECIFICATION Spec
CHECK_DEADLOCK FALSE
INVARIANTS
  TargetNotBelowFinalized
  
  ExpectsAnnouncedPeriod
  FinalizedPairOnL1
  ActiveChainsExact
  IndInv
