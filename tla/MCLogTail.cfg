SPECIFICATION FairSpec
CONSTANTS
  HasPart <- PartOf
  Record <- TwoIterations
  Queries <- UserQueries
  MaxLines = 3
  MaxRuns = 2
CHECK_DEADLOCK FALSE
PROPERTIES FollowComplete FollowEnds
