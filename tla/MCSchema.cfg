SPECIFICATION FairSpec
CONSTANTS
  Cmd = {c1, c2}
  Legacy <- Releases
  MaxFailures = 1
CHECK_DEADLOCK FALSE
INVARIANT SchemaComplete
PROPERTIES RowsKept CommandsFinish
