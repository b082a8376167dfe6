\* Is a request for a role bounded by the timeouts of the handle?
SPECIFICATION Spec
CONSTANTS
  Apis <- OnlyRole
  Settings <- Timeouts
  MaxDepth = 1
INVARIANTS EveryTransferBounded
