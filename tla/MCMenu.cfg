SPECIFICATION FairSpec
CONSTANTS
  menu = menu
  NULL = NULL
  Users = {u1, u2}
  MaxFaults = 1
  MaxNest = 2
  Lines <- MCLines
  MAXMENUARGS = 4
  USERSTACK = 64
CHECK_DEADLOCK FALSE
INVARIANTS
  SumsAgree
  QuietShutdown
  ArgsLaidOut
PROPERTIES
  CountReturns
