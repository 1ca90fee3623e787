\* FPHTTPPublishedServer: a thread per request, interleaving at every store access.
SPECIFICATION Spec
CONSTANTS
  Worker = {w1, w2}
  Activity = {a1}
  Key = {k1}
  NoKey = NoKey
  NoBody = NoBody
  runs = runs
  waits = waits
  owner = owner
  initiator = owner
  Body <- MCBody
  Parties <- MCParties
  Handled <- MCHandled
  Entity <- MCEntity
  Targets = {"input_required"}
  SessionGoals = {}
  Scheduler = "threads"
SYMMETRY WorkerSymmetry
INVARIANT RetryAfterAnswerIsReplay
PROPERTIES IllegalOnlyFromStaleCopy
