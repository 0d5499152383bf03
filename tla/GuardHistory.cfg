\* The detectors with a history.
SPECIFICATION HistorySpec
CONSTANTS
  a = a
  small = small
  big = big
  NoValue = NoValue
  NoKey = NoKey
  NoTask = NoTask
  Keys = {a}
  Values = {small, big}
  Tasks = {}
  Content <- NoFindings
  Redacted <- Unredacted
  Anomalies <- Anything
  Rules <- ReviewRules
  DefaultAction = "allow"
  ProtectedByPolicy <- None
  ImmutableExact <- None
  ImmutableGlob <- None
  MaxSnapshots = 1
  SnapshotOnBlock = FALSE
  InitialStores <- EmptyStore
  WriteCalls <- ResultWrites
  PromoteCalls <- None
  BaselineCalls <- None
  RetireCalls <- AllKeys
  AuthorizeCalls <- None
  Labels <- None
  Tampers <- None
  Size <- Sizes
  MaxBytes = 100
  GrowthFactor = 10
  Window = 1
  MaxWrites = 2
  Cooldown = 1
  MaxSelfWrites = 2
  HistorySize = 2
  Similar <- Alike
  MaxTime = 2
  MaxCalls = 4
INVARIANTS
  AnomaliesExact
  SelfLoopExact
PROPERTIES
  ImplementsGuard
