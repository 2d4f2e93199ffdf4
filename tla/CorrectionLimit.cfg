CONSTANTS
  Devices = {esp32}
  Txns = {t1, t2}
  Offsets = {1, 3}
  MaxStep = 2
  MaxAccumulated = 3
  Cooldown = 1
  Timeout = 1
  MaxRetries = 0
  HasTransport = TRUE
  MaxCrashes = 0
  MaxLosses = 0
  MaxReboots = 0
  TornWrites = FALSE
  esp32 = esp32
  t1 = t1
  t2 = t2

SPECIFICATION Spec
INVARIANTS
  DeviceWithinLimit
