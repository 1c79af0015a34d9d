\* Two threads on one handle of a provider that answers with any report it has
\* ever seen, or with no report at all.
SPECIFICATION Spec
CONSTANTS
  None = None
  Malformed = Malformed
  t1 = t1
  t2 = t2
  p1 = p1
  p2 = p2
  Thread = {t1, t2}
  Proc = {p1}
  ProcOf <- OneProc
  PidOf <- OnePid
  Data = {d1, d2}
  Level = {0, 1}
  DefaultVmpl = 0
  Retries = 1
  Operation = {"open", "extended_report"}
  Stray <- AnyAnswer
  IoError = {}
  MaxCalls = 3
  MaxName = 6
  MaxGen = 0
  MaxTcb = 0
SYMMETRY Symmetry
CHECK_DEADLOCK FALSE
PROPERTIES KeepsPromise AnswersFinal
INVARIANTS OnlyLeftoversInTheWay
