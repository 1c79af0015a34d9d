SPECIFICATION Spec
CONSTANTS
  ENTRY_SIZE = 3
  BLOB_MAX = 12
  MAX_ENTRIES = 3
  MaxLen = 13
  Guid = {zero, vcek, odd}
  ZeroGuid = zero
  Named = {vcek}
  Unknown = Unknown
  None = None
  Place <- SomePlaces
CHECK_DEADLOCK FALSE
INVARIANTS TypeOK Faithful FirstOfKind Accepting NoAmplification
PROPERTIES Decided
