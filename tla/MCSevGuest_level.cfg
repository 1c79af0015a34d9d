\* A guest at a level other than 0 that names no level.
SPECIFICATION Spec
CONSTANTS
  None = None
  Malformed = Malformed
  Thread = {t1}
  Data = {d1}
  Level = {0, 1}
  GuestLevel = 1
  Retries = 0
  Operation = {"report"}
  Stray = {}
  Version = {0}
  Fault = {}
  CERT_MAX = 4
  CERT_GRANULARITY = 2
  CertSize = {0}
  MaxCalls = 1
  MaxTcb = 0
CHECK_DEADLOCK FALSE
INVARIANTS DefaultLevelAccepted
