\* Roles that are taken on, renewed and replaced, and the requests in between.
SPECIFICATION Spec
CONSTANTS
  Roles <- TwoRoles
  OccursIn <- NameInArn
  Sets = {s1, s2}
  Domain = 16
  Bucket = 6
  Paths <- ShortAndLimit
  Values <- ShortAndFull
  Sources <- LongSource
  Tokens <- LongTokens
  Protocols <- BothProtocols
INVARIANTS TypeOK HeldForItsRole SignsWhatItSends QueryInOrder
  UriWhole HashedWhole
PROPERTIES KeepsSession
\* An undefined step ends the behaviour.
CHECK_DEADLOCK FALSE
