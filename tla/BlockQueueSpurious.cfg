SPECIFICATION Spec
CONSTANTS
  m1 = m1
  m2 = m2
  m3 = m3
  Msg <- MCMsg
  Null = Null
  Garbage = Garbage
CHECK_DEADLOCK FALSE
SYMMETRY MsgSymmetry
INVARIANTS NoLostWakeup TakenIsFront
