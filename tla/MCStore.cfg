SPECIFICATION Spec
CONSTANTS
  KeyBits = 3
  Keys = {1, 2, 3}
  Values = {1}
  HashKey <- MCHashKey
  MaxVersion = 2
  MaxWrites = 3
  MaxDepth = 2
INVARIANT VersionsIntact
INVARIANT RootOfContents
INVARIANT IterationExact
INVARIANT ProofsSound
INVARIANT ReadsAsked
CHECK_DEADLOCK FALSE
