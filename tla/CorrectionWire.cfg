CONSTANTS
  Devices = {esp32}
  Txns = {t1, t2}
  Offsets = {1, 3}
  MaxStep = 2
  MaxAccumulated = 3
  Cooldown = 1
  Timeout = 1
  MaxRetries = 1
  HasTransport = TRUE
  MaxCrashes = 1
  MaxLosses = 1
  MaxReboots = 1
  TornWrites = FALSE
  esp32 = esp32
  t1 = t1
  t2 = t2

SPECIFICATION Spec
SYMMETRY Symmetry
INVARIANTS
  TypeOK
  AppliedIsReal
  WireIsJournaled
  ExecutionsWithinRetryBudget
  HealthNeverOvercounts
  BooksNeverExceedDevice
PROPERTIES
  StopsOnlyOnLateAnswer
  KeepsLifecycle
