\* A signal and a management command together: an END is overwritten.
CONSTANTS
  WMax = 2
  LsSize = 2
  MaxQuits = 2
  CanFail = FALSE
SPECIFICATION Spec
PROPERTY EndIsFinal
CHECK_DEADLOCK FALSE
