\* Who owns which report directory: two processes that share a pid and a
\* configfs mount, with every system call free to fail and restarts at any
\* point.
SPECIFICATION Spec
CONSTANTS
  None = None
  Malformed = Malformed
  t1 = t1
  t2 = t2
  p1 = p1
  p2 = p2
  Thread = {t1, t2}
  Proc = {p1, p2}
  ProcOf <- TwoProcs
  PidOf <- SamePid
  Data = {d1}
  Level = {0}
  DefaultVmpl = 0
  Retries = 2
  Operation = {"open", "report"}
  Stray = {}
  IoError = {"IoBusy"}
  MaxCalls = 2
  MaxName = 7
  MaxGen = 0
  MaxTcb = 0
CHECK_DEADLOCK FALSE
INVARIANTS TypeOK EntryOwned NoEntryLeak AttemptsBounded
