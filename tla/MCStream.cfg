\* Two consumers of one stream on AsyncFPServer, and answers of each kind lost.
SPECIFICATION FairSpec
CONSTANTS
  Reader = {r1, r2}
  Window = 2
  Limit = 2
  Recovery = "resubscribe"
  Scheduler = "eventloop"
  MaxEvents = 5
  MaxLostReads = 2
  MaxLostAcks = 1
  MaxRestarts = 1
INVARIANTS NothingSkipped WindowBoundsUnacked DeliveredOnce
PROPERTY ArrivesUnlessLost
