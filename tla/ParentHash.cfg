CONSTANTS
  Chain = {c1}
  Client = {k1}
  Outputs = {o1}
  DefaultOutputs = zero
  ZeroHash = ZeroHash
  None = None
  ProofWindow = 1
  MaxRetries = 1
  MaxAdmitted = 1
  MaxSubmissions = 2
  MaxRestarts = 0
SPECIFICATION Spec
INVARIANTS
  ParentWasAccepted
