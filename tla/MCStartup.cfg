CONSTANTS
  Api = {api}
  Brain = {brain}
  Attempts = 3
  Failures = 8

SPECIFICATION Spec
INVARIANTS
  TypeOK
  StartupFitsProbe
PROPERTIES
  BackInRotation
  OutOfRotation
CHECK_DEADLOCK FALSE
