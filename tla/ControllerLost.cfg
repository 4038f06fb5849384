SPECIFICATION Spec
CONSTANTS
  Up = up
  Down = down
  s1 = s1
  s2 = s2
  Starter <- MCStarter
  Main = s1
  PipeKills = FALSE
  OneLossAtATime = FALSE
CHECK_DEADLOCK FALSE
INVARIANT AnnouncedSurvives
