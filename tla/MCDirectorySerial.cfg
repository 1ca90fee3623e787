\* Calls that do not overlap, and a server started twice.
SPECIFICATION FederationSpec
CONSTANTS
  Worker = {w1, w2}
  TTL = 2
  RequireSignature = FALSE
  Scheduler = "serial"
  MaxTime = 4
  MaxEntries = 2
  MaxStarts = 2
SYMMETRY Symmetry
INVARIANTS LatestCardServed SignaturesVerify StoppedServerForgotten
PROPERTY FreshEntryStays
