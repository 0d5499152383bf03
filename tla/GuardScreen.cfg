\* Screening, protected and immutable keys, snapshots and rollback, under the
\* strict policy.
SPECIFICATION Spec
CONSTANTS
  a = a
  b = b
  c = c
  plain = plain
  secret = secret
  masked = masked
  inject = inject
  NoValue = NoValue
  NoKey = NoKey
  NoTask = NoTask
  Content <- MCContent
  Redacted <- MCRedacted
  DefaultAction = "allow"
  Keys = {a, b}
  Values = {plain, secret, masked, inject}
  Tasks = {}
  Anomalies <- SizeOnly
  Rules <- StrictRules
  ProtectedByPolicy <- None
  ImmutableExact <- OnlyA
  ImmutableGlob <- OnlyA
  MaxSnapshots = 1
  SnapshotOnBlock = TRUE
  InitialStores <- ScreenStores
  WriteCalls <- ScreenWrites
  PromoteCalls <- None
  BaselineCalls <- None
  RetireCalls <- RetireAll
  AuthorizeCalls <- None
  Labels <- Manual
  Tampers <- ScreenTampers
INVARIANTS
  TypeOK
  ProtectedFromGuard
  NoUnsafeCommit
  ReadReturnsSafe
PROPERTIES
  RetiredIsCaptured
  BaselineStable
  ImmutableKeepsItsWord
  ImplementsFacade
