\* Any calls one after another on a handle, requests for a role among them.
SPECIFICATION Spec
CONSTANTS
  Apis <- ApiFunctions
  Settings <- TimeoutsAndCallback
  MaxDepth = 2
INVARIANTS TypeOK AsOnFreshHandle WireMethod ErrorIsNotData LastErrorIsLatest
  SuccessIsServers OnlyOuterPagesLeak ContentTypeOfLastGet TimeoutApplied
