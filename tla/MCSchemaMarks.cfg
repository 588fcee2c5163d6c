SPECIFICATION FairSpec
CONSTANTS
  Cmd = {c1}
  Legacy <- BeforeTokens
  MaxFailures = 1
CHECK_DEADLOCK FALSE
INVARIANT UntrackedIsOld
