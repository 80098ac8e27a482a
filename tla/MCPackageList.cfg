CONSTANTS
  Sources <- MCSources
  Splits <- MCSplits
  Malformed = Malformed
  OutOfRange = OutOfRange
SPECIFICATION Spec
INVARIANTS TypeOK RecordsAreFound NothingInvented TornIsPrefix OwnChecksum
CHECK_DEADLOCK FALSE
