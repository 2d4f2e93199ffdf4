CONSTANTS
  Devices = {virtual_led}
  Txns = {t1, t2, t3}
  Offsets = {1, 3}
  MaxStep = 2
  MaxAccumulated = 3
  Cooldown = 1
  Timeout = 1
  MaxRetries = 1
  HasTransport = FALSE
  MaxCrashes = 2
  MaxLosses = 0
  MaxReboots = 0
  TornWrites = TRUE
  virtual_led = virtual_led
  t1 = t1
  t2 = t2
  t3 = t3

SPECIFICATION Spec
SYMMETRY Symmetry
INVARIANTS
  RecoveryIsComplete
