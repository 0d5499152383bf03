\* The scanning services without a guard.
SPECIFICATION ServicesSpec
CONSTANTS
  Services = {"stream", "api", "web", "mcp"}
  t0 = t0
  clean = clean
  marked = marked
  hidden = hidden
  quoted = quoted
  strong = strong
  long = long
  mixed = mixed
  binary = binary
  None = None
  Chunks <- MCChunks
  StreamConfidence <- MCStreamConfidence
  WindowSize = 3
  Thresholds = {1, 5}
  Intervals = {1, 2, 3}
  MaxChunks = 4
  ApiTexts <- MCTexts
  EmptyText = t0
  Confidence <- MCConfidence
  Marked = {marked, quoted}
  Truncated <- MCTruncated
  Documents <- MCDocuments
  GuardedPaths = {"chat"}
  Paths = {"chat", "home"}
  Requests <- MCRequests
  Undecodable = {binary}
  BlockOnThreat = TRUE
  BlankEntry = BlankEntry
  Entries <- MCEntries
  Batches <- MCBatches
CHECK_DEADLOCK FALSE
INVARIANTS
  StreamIsScanned
  ScansAgree
  AppSeesWhatPassed
PROPERTIES
  Served
