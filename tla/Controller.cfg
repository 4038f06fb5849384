SPECIFICATION FairSpec
CONSTANTS
  Up = up
  Down = down
  s1 = s1
  s2 = s2
  Starter <- MCStarter
  Main = s1
  PipeKills = TRUE
  OneLossAtATime = TRUE
CHECK_DEADLOCK FALSE
INVARIANTS TypeOK NoMisuse  CleanStart
PROPERTIES Reconnects LostReconnects
