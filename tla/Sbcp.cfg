CONSTANTS
  a = a
  aa = aa
  None = None
  Chain = {a}
  XtRequest = {aa}
  TxChains <- MCTxChains
  ProofWindow = 2
  InitPeriod = 1
  InitTarget = 2
  InitFinalized = 1
  InitBlock = 0
  GenesisHash = GenesisHash
  MaxPeriod = 3
  MaxInstances = 1
  MaxRollbacks = 1
  MaxBlock = 2
  MaxXtPeriod = 1
  MaxInFlight = 3
SPECIFICATION Spec
CHECK_DEADLOCK FALSE
INVARIANTS
  QuietAgreement
  KeptProofsCurrent
  LockedInOwnBlock
  LockReleasable
  HistoryConsistent
  SettlementsAsAnnounced
  Inductive

  
