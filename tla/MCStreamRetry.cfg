\* A lost answer to events_read, and the transport's retry.
SPECIFICATION Spec
CONSTANTS
  Reader = {r1}
  Window = 4
  Limit = 2
  Recovery = "retry"
  Scheduler = "eventloop"
  MaxEvents = 6
  MaxLostReads = 1
  MaxLostAcks = 0
  MaxRestarts = 0
INVARIANT NothingSkipped
