SPECIFICATION Spec
CONSTANTS
  Base = 2
  BitXor <- XorBits
  Open <- OpenMethod
  Method <- SomeMethods
  Data <- SomeData
  Id <- SomeIds
  Frame <- ShortFrames
INVARIANTS
  RoundTrip
  DecodeExact
