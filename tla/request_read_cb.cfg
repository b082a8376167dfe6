\* What a read callback is given when the request fails.
SPECIFICATION Spec
CONSTANTS
  Apis <- GetAndDelete
  Settings <- Callback
  MaxDepth = 1
INVARIANTS ErrorIsNotStreamed
