\* record() and its searches; calls stop when the graph is full.
SPECIFICATION SearchSpec
CONSTANTS
  Keys = {a, b, c, d}
  Requests <- MCRequests
  NoCall = NoCall
  MaxEdges = 5
INVARIANTS
  GraphStaysAcyclic
PROPERTIES
  ImplementsRecord
  StepsAreCounted
  CallsReturn
CHECK_DEADLOCK FALSE
