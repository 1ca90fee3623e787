\* FPServer in threads over the in-memory stores, or one request at a time over SQLite
\* with a crash and a restart; an access that raises on both.
SPECIFICATION EconomySpec
CONSTANTS
  Publisher = {p1, p2}
  Activity = {a1}
  NoActivity = NoActivity
  Secret = Secret
  BundleLimit = 1
  MaxEvents = 2
  MaxReceipts = 1
  MaxDecisions = 2
  MaxCrashes = 1
  MaxFailures = 1
SYMMETRY Symmetry
INVARIANTS ActivityWithinSession EventsComeWithReceipts AllowedBeforeSettled 
