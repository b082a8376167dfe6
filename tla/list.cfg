\* Both versions of the list API and both commands, short and full pages,
\* answers that cannot be read, failures, and two writes of other clients.
SPECIFICATION FairSpec
CONSTANTS
  MaxName = 5
  Kind <- MixedKind
  Versions <- BothVersions
  PageSizes <- PagesOfOneOrTwo
  MaxWrites = 2
  Unparsable = TRUE
INVARIANTS TypeOK ListCompleteIfExact NoDuplicates ListTruthful
PROPERTIES KeepsPromise MarkerAdvances ListReturns
