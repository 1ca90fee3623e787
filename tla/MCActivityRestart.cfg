\* AsyncFPServer over SQLite, stopped at any step and started again once.
SPECIFICATION FairRestartSpec
CONSTANTS
  Worker = {w1, w2}
  Activity = {a1, a2}
  Key = {k1}
  NoKey = NoKey
  NoBody = NoBody
  runs = runs
  waits = waits
  owner = owner
  initiator = owner
  Body <- MCBody
  Parties <- MCParties
  Handled <- MCHandled
  Entity <- MCEntity
  Targets = {}
  SessionGoals = {}
  MaxRestarts = 1
  Scheduler = "eventloop"
INVARIANT AnswerMatchesRequest
PROPERTY EveryRequestAnswered
