SPECIFICATION FairSpec
CONSTANTS
  Up = up
  Down = down
  Hb = hb
  State = state
  Inh = inh
  None = none
  h1 = h1
  h2 = h2
  h3 = h3
  h4 = h4
  Timer <- MCTimer
  Handle <- MCHandle
  MaxHandler = 2
CHECK_DEADLOCK FALSE
INVARIANTS TypeOK   TimersKept
PROPERTY RetriesEnd
