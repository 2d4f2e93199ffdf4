CONSTANTS
  Devices = {led, esp32}
  Physical = {esp32}
  Offsets <- SmallOffsets
  MaximumOffset = 0
  Interval = 1
  AdaptiveIntervals = {2}
  SketchMax = 2
  MaxDelay = 1
  MaxTime = 3
  MaxInFlight = 1
  MaxCalls = 2
  MaxCrashes = 1
  led = led
  esp32 = esp32

SPECIFICATION LiveSpec
INVARIANTS
  OffByHalfTheTripAtMost
PROPERTIES
  FailedUntilRecovered
  SyncTimeNeverGoesBack
  EndsOnlyOnSecondReject
  DueIsServed
CHECK_DEADLOCK FALSE
