SPECIFICATION FairStoreSpec
CONSTANTS
  Codes = {"docked", "mowing"}
  Zones = {front}
  Pcts = {0}
  ResetDrop = 1
  MaxPoints = 1
  DecidePolls = 1
  Files <- MCFiles
  Lives = {"crash", "stop", "reload"}
PROPERTY UnsavedIsSaved
