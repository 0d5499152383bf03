\* Trust, lineage and authority.
SPECIFICATION Spec
CONSTANTS
  a = a
  b = b
  c = c
  plain = plain
  secret = secret
  masked = masked
  inject = inject
  NoValue = NoValue
  NoKey = NoKey
  NoTask = NoTask
  Content <- MCContent
  Redacted <- MCRedacted
  DefaultAction = "allow"
  Keys = {a, b, c}
  Values = {plain}
  Tasks = {}
  Anomalies <- None
  Rules <- StrictRules
  ProtectedByPolicy <- None
  ImmutableExact <- None
  ImmutableGlob <- None
  MaxSnapshots = 1
  SnapshotOnBlock = TRUE
  InitialStores <- EmptyStore
  WriteCalls <- TrustWrites
  PromoteCalls <- None
  BaselineCalls <- TrustBaselines
  RetireCalls <- None
  AuthorizeCalls <- TrustAuthorizations
  Labels <- None
  Tampers <- None
INVARIANTS
  LineageAcyclic
  HighTrustIsAttested
  VerifiedRolesNeverFilled
PROPERTIES
  DerivedWithinParents
