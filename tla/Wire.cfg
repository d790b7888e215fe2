CONSTANTS
  HeaderMod = 8
  MaxMessageSize = 6
  MaxChainId = 7
  Error = Error
  ChainId = {1, 2}
  Data <- MCData
  MaxSize = 20
  MaxItems = 2
  MaxChars = 5
SPECIFICATION WireSpec
CHECK_DEADLOCK FALSE
INVARIANTS
  FrameIntact
  PreimageInjective
  ChainIdIsPrefix
