\* The stub HAL: every SE call succeeds; power may fail between any two writes, as often
\* as it likes; a wiped device comes back as a new one.
SPECIFICATION FairSpec
CONSTANTS
  Mnemonics = {m1}
  Pins = {p1, p2}
  DeviceIds = {d1, d2}
  PIN_LEN = 2
  PIN_MAX_ATTEMPTS = 2
  COUNTER_MAX = 3
  UserData = {"settings"}
  SeFaults = FALSE
  SeInitFaults = FALSE
  Atecc = FALSE
  DevBuild = FALSE
  None = None
INVARIANTS
  PinEntryReady
  UnlockRestoresAttempts
  SeedPairConsistent
  PinSetupHasSeed
  MnemonicReady
  WipedObjectsGone
PROPERTIES
  PinLimitsAttempts
  PinReplacedOnlyByOwner
  SeedKept
  WipedBecomesNew
