\* An extended report whose auxblob cannot be read.
SPECIFICATION Spec
CONSTANTS
  None = None
  Malformed = Malformed
  t1 = t1
  t2 = t2
  p1 = p1
  p2 = p2
  Thread = {t1}
  Proc = {p1}
  ProcOf <- OneThread
  PidOf <- OnePid
  Data = {d1}
  Level = {0}
  DefaultVmpl = 0
  Retries = 0
  Operation = {"open", "extended_report"}
  Stray = {}
  IoError = {"Io"}
  MaxCalls = 2
  MaxName = 2
  MaxGen = 0
  MaxTcb = 0
CHECK_DEADLOCK FALSE
INVARIANTS EmptyMeansUnprovisioned
