CONSTANTS
  Type = {message, t1, t2, t3}
  Root = message
  Handler = {h1, h2, h3}
  NoHandler = NoHandler
SPECIFICATION Spec
SYMMETRY Perms
INVARIANTS DispatchIsMostSpecific AcceptedIffHandled
CHECK_DEADLOCK FALSE
