\* The ATECC608B HAL: a wrong PIN, then the right one.
SPECIFICATION Spec
CONSTANTS
  Mnemonics = {m1}
  Pins = {p1, p2}
  DeviceIds = {d1}
  PIN_LEN = 2
  PIN_MAX_ATTEMPTS = 2
  COUNTER_MAX = 3
  UserData = {"settings"}
  SeFaults = FALSE
  SeInitFaults = FALSE
  Atecc = TRUE
  DevBuild = FALSE
  None = None
INVARIANTS
  UnlockRestoresAttempts
