\* Data sealed on one machine and opened on another, with up to two builder
\* calls, among them calls that bind what was bound before.
SPECIFICATION Spec
CONSTANTS
  NoFmc = NoFmc
  None = None
  MAX_SVN = 2
  FIELD_LEN = 3
  NUMBER_LEN = 2
  World <- Worlds
  Vmpl = {1, 4}
  Svn = {1}
  Mit <- SomeVectors
  MaxCalls = 2
INVARIANTS TypeOK Reproducible OutOfReach ReportNamesTcb TcbSurvives
           FieldsWritten BitsAccounted ExamplesHold RollbackShown
