\* Classes, promotion and tasks.
SPECIFICATION Spec
CONSTANTS
  a = a
  b = b
  c = c
  plain = plain
  secret = secret
  masked = masked
  inject = inject
  NoValue = NoValue
  NoKey = NoKey
  NoTask = NoTask
  Content <- MCContent
  Redacted <- MCRedacted
  DefaultAction = "allow"
  Keys = {a, b}
  Values = {plain}
  Tasks = {t1, t2}
  Anomalies <- None
  Rules <- StrictRules
  ProtectedByPolicy <- None
  ImmutableExact <- None
  ImmutableGlob <- None
  MaxSnapshots = 1
  SnapshotOnBlock = TRUE
  InitialStores <- EmptyStore
  WriteCalls <- ClassWrites
  PromoteCalls <- ClassPromotions
  BaselineCalls <- None
  RetireCalls <- None
  AuthorizeCalls <- None
  Labels <- None
  Tampers <- None
INVARIANTS
  UntrustedClassCapped
PROPERTIES
  UntrustedNeverElevated
  PreferenceNeedsOptIn
