CONSTANTS
  Chain = {c1}
  Client = {k1}
  Outputs = {o1}
  DefaultOutputs = zero
  ZeroHash = ZeroHash
  None = None
  ProofWindow = 1
  MaxRetries = 2
  MaxAdmitted = 1
  MaxSubmissions = 3
  MaxRestarts = 1
SPECIFICATION Spec
INVARIANTS
  NeverAheadOfL1
  IndInv
