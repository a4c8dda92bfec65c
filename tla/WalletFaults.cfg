\* A DEV_BUILD on the ATECC608B, which may not be provisioned; a release build is this without
\* the errors LOCKED and OFFLINE.  Any SE call may fail, or take effect although it is reported failed; power may
\* fail, or the watchdog reset the device, between any two writes.
SPECIFICATION Spec
CONSTANTS
  Mnemonics = {m1}
  Pins = {p1}
  DeviceIds = {d1}
  PIN_LEN = 1
  PIN_MAX_ATTEMPTS = 1
  COUNTER_MAX = 1
  UserData = {}
  SeFaults = TRUE
  SeInitFaults = TRUE
  Atecc = TRUE
  DevBuild = TRUE
  None = None
CONSTRAINT NotProvisioned
INVARIANTS
  TypeOK
  AuthBeforeUse
