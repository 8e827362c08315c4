SPECIFICATION Spec
CONSTANTS
  reducer = reducer
  verifier = verifier
  session = session
  Erasers = {e1, e2}
  Writers = {reducer, verifier, session}
  LockOf <- LockTable
  DocOf <- DocTable
  Files = {"proof", "run", "state"}
  Deleted = {"proof"}
  Tracked = {"state"}
  Rank <- Order
  Intent = "intent"
  Manifest = "manifest"
  Free = free
  Wedged = wedged
  MaxEdits = 1
SYMMETRY Symmetry
INVARIANTS AuditTellsTruth Resumable
PROPERTY ImplementsTransition
CHECK_DEADLOCK FALSE
