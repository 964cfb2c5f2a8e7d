SPECIFICATION WatchSpec
CONSTANTS
  MembCounts = {2, 3}
PROPERTIES
  TwoNodesEnd
