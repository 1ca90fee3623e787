\* AsyncFPServer: tasks that interleave only while a handler is awaited.
SPECIFICATION Spec
CONSTANTS
  Worker = {w1, w2}
  Activity = {a1, a2}
  Key = {k1}
  NoKey = NoKey
  NoBody = NoBody
  runs = runs
  waits = waits
  owner = owner
  initiator = initiator
  Body <- MCBody
  Parties <- MCParties
  Handled <- MCHandled
  Entity <- MCEntity
  Targets = {"working", "input_required", "rejected"}
  SessionGoals = {"active", "paused", "closed"}
  Scheduler = "eventloop"
SYMMETRY Symmetry
PROPERTY TerminalIsFinal
