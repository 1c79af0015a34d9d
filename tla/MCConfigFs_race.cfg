\* What one thread is answered while other software writes into its directory
\* and the host updates the TCB: every operation and both retries.
SPECIFICATION FairSpec
CONSTANTS
  None = None
  Malformed = Malformed
  t1 = t1
  t2 = t2
  p1 = p1
  p2 = p2
  Thread = {t1}
  Proc = {p1}
  ProcOf <- OneThread
  PidOf <- OnePid
  Data = {d1, d2}
  Level = {0, 1}
  DefaultVmpl = 0
  Retries = 2
  Operation = {"open", "privlevel_floor", "report", "extended_report"}
  Stray = {}
  IoError = {}
  MaxCalls = 2
  MaxName = 6
  MaxGen = 3
  MaxTcb = 1
CHECK_DEADLOCK FALSE
INVARIANTS UntouchedAnswer
PROPERTIES KeepsPromise CallsReturn
