CONSTANTS
  Chain = {c1, c2, c3}
  Client = {k1, k2}
  Outputs = {o1}
  DefaultOutputs = zero
  ZeroHash = ZeroHash
  None = None
  ProofWindow = 1
  MaxRetries = 1
  MaxAdmitted = 1
  MaxSubmissions = 1
  MaxRestarts = 0
SPECIFICATION Spec
PROPERTIES
  EveryChainReported
