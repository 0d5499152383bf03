\* The REST server under the strict policy.
SPECIFICATION ServerSpec
CONSTANTS
  note = note
  config = config
  plain = plain
  secret = secret
  masked = masked
  inject = inject
  null = null
  NullValue = null
  NoValue = NoValue
  NoKey = NoKey
  NoTask = NoTask
  ScanKey = note
  CheckKey = note
  EventLimits <- MCLimits
  MaxEvents = 2
  Content <- MCContent
  Redacted <- MCRedacted
  DefaultAction = "allow"
  Keys = {note, config}
  Values = {plain, secret, masked, inject, null}
  Tasks = {}
  Anomalies <- MCAnomalies
  Rules <- StrictRules
  ProtectedByPolicy = {config}
  ImmutableExact <- MCNone
  ImmutableGlob <- MCNone
  MaxSnapshots = 1
  SnapshotOnBlock = FALSE
  InitialStores <- MCEmpty
  WriteCalls <- MCWrites
  PromoteCalls <- MCNone
  BaselineCalls <- MCNone
  RetireCalls <- MCNone
  AuthorizeCalls <- MCNone
  Labels <- MCNone
  Tampers <- MCNone
CHECK_DEADLOCK FALSE
INVARIANTS
  ReadTellsWhatWasStored
  EventsAreTold
PROPERTIES
  ScanForecastsWrite
