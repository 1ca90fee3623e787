\* AsyncFPServer over SQLite: no operation interleaves with another.
SPECIFICATION Spec
CONSTANTS
  Worker = {w1, w2}
  e1 = e1
  e2 = e2
  e3 = e3
  lead = lead
  participant = participant
  Entity <- MCEntity
  Role <- MCRole
  Participant = participant
  Assignments <- MCAssignments
  Goals = {"active", "paused", "closing", "failed"}
  Durable = TRUE
  Scheduler = "eventloop"
SYMMETRY Symmetry
INVARIANTS TypeOK RolesMatchParticipants LogTellsSession
PROPERTY LifecycleSpec
