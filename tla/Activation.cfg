SPECIFICATION Spec
CONSTANTS
  Activators = {a1}
  Sessions = {request, byHand}
  Requests = {request}
  Free = free
  Wedged = wedged
  MaxEdits = 1
INVARIANTS Recoverable RequestPinHeld
PROPERTY ImplementsTransition
CHECK_DEADLOCK FALSE
