\* AsyncFPServer, or two threads of FPHTTPPublishedServer, over SQLite.
SPECIFICATION Spec
CONSTANTS
  Thread = {t1, t2}
  Store <- Tables
  Key <- MCKey
  Row <- MCRow
  NoRow = NoRow
  Org = 0
  Id = {1, 2}
  Member = {m1}
  Role = {buyer, seller}
  MaxBegun = 2
SYMMETRY Symmetry
INVARIANTS RemovedStaysRevoked OrganizationHasEntity NoDirtyReads NothingLeftOpen
PROPERTIES OnlyAllowedChanges DurableSpec
