SPECIFICATION FairSpec
CONSTANTS
  up = up
  l1 = l1
  l2 = l2
  Link <- MCLink
  Listener <- MCListener
  MaxOrphans = 1
INVARIANT TypeOK
PROPERTIES    CloseWakesReader
