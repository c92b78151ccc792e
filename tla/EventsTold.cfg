SPECIFICATION FairSpec
CONSTANTS
  Polls = {tick}
  Codes = {"", "0101", "0102", "0103", "0202", "0204", "0210", "0220", "0301"}
  Family <- MCFamily
  ErrorClearPolls = 3
  Saves = TRUE
  Reloads = TRUE
INVARIANT TypeOK
PROPERTIES
  EventsAreOwed
  JobEndIsReported
