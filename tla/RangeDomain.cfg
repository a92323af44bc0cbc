SPECIFICATION Spec
CONSTANTS
  Half = 4
  NarrowHalf = 2
  NoInt = NoInt
  MaxMet = 2
INVARIANTS MeetIsLeast ArithmeticSound CastSound
PROPERTY Monotone
CHECK_DEADLOCK FALSE
