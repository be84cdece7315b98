SPECIFICATION Spec
CONSTANTS
  ShortTop = 2
  IntTop = 8
  LongTop = 32
  FloatTop = 4
  DoubleTop = 16
  Steps <- MCSteps
  LowWords <- MCLowWords
  Sample <- MCSample
  Names = {A, B}
  Enumerators <- MCEnumerators
  NoNumber = NoNumber
  NoName = NoName
CHECK_DEADLOCK FALSE
INVARIANTS TypeOK NumbersArrive SelfAssignmentIsIdentity EnumeratorsAreFound
