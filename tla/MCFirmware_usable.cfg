\* Interfaces that exist and cannot be used.
SPECIFICATION Spec
CONSTANTS
  Retries = 0
  None = None
INVARIANTS UsableAsDocumented
