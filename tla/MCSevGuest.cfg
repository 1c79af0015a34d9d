\* What calls cost, how they end and what they answer, while ioctls fail in
\* every way, the VMPCK is lost, the host changes its certificates and the
\* kernel may hand out any report it has ever seen.
SPECIFICATION FairSpec
CONSTANTS
  None = None
  Malformed = Malformed
  Thread = {t1}
  Data = {d1, d2}
  Level = {0, 1}
  GuestLevel = 0
  Retries = 2
  Operation = {"report", "extended_report", "derive_key"}
  Stray <- AnyAnswer
  Version = {0, 2}
  Fault <- SomeFaults
  CERT_MAX = 4
  CERT_GRANULARITY = 2
  CertSize = {0, 2, 3, 4, 6}
  MaxCalls = 2
  MaxTcb = 2
CHECK_DEADLOCK FALSE
INVARIANTS TypeOK SpendBounded BusyExhausted BufferSane
PROPERTIES EmptyMeansNone CallsReturn KeepsPromise KeepsTrustedPromise
