CONSTANTS
  Devices = {esp32}
  Txns = {t1, t2}
  Offsets = {1}
  MaxStep = 2
  MaxAccumulated = 3
  Cooldown = 1
  Timeout = 1
  MaxRetries = 1
  HasTransport = TRUE
  MaxCrashes = 1
  MaxLosses = 1
  MaxReboots = 0
  TornWrites = FALSE
  esp32 = esp32
  t1 = t1
  t2 = t2

  Scripts <- SmallScripts
  Silence <- NoScript

SPECIFICATION EngineSpec
INVARIANTS
  NothingIsLost
  AnsweredOnce
  LedsFollowButtons
PROPERTIES
  SentIsDecided
CHECK_DEADLOCK FALSE
