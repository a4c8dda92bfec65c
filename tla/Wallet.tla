------------------------------- MODULE Wallet -------------------------------
(***************************************************************************)
(* The life cycle of the wallet: boot decision, seed creation and restore, *)
(* PIN creation, PIN entry with its attempt counter, wipe and factory      *)
(* reset, the signing bracket, and the loss of power between any two       *)
(* writes to the secure element (SE) or to NVS.                            *)
(*                                                                         *)
(* Translated from wallet1.ino (setup, loop, handleNavigation and their    *)
(* helpers), pin_manager.cpp, wallet_storage.cpp and watchdog.cpp.  The    *)
(* firmware is one Arduino task, so nothing runs between two statements of *)
(* a handler except a reset.  A handler is therefore cut at each write     *)
(* that survives a reset: pc names the handler's next write, and pc = "ui" *)
(* means that loop() is between two iterations.  Reads are done in the     *)
(* same step as the write (or the screen change) they decide.              *)
(***************************************************************************)
EXTENDS Naturals, Sequences

CONSTANTS
  Mnemonics,         \* BIP39 mnemonics the user may generate or restore
  Pins,              \* PINs the user may type
  DeviceIds,         \* anti-phishing identities the RNG may produce
  PIN_LEN,           \* digits of a PIN (6 in the code)
  PIN_MAX_ATTEMPTS,  \* wrong PINs before the wipe (5 in the code)
  COUNTER_MAX,       \* largest value of the attempt counter (255 in the code)
  UserData,          \* NVS namespaces the user's sessions leave data in
  SeFaults,          \* may an SE call fail, take effect unacknowledged, or hang?
  SeInitFaults,      \* may se051_init fail?
  Atecc,             \* the ATECC608B HAL: no counter reset, no slot for TEMP
  DevBuild,          \* compiled with -DDEV_BUILD?
  None               \* an absent object

ASSUME LengthAssumption   == PIN_LEN \in Nat \ {0}
ASSUME AttemptsAssumption == PIN_MAX_ATTEMPTS \in Nat \ {0}
ASSUME CounterAssumption  == COUNTER_MAX \in Nat /\ COUNTER_MAX >= PIN_MAX_ATTEMPTS
ASSUME FlagsAssumption    == /\ SeFaults \in BOOLEAN
                             /\ SeInitFaults \in BOOLEAN
                             /\ Atecc \in BOOLEAN
                             /\ DevBuild \in BOOLEAN

Seeds == [mnemonic : Mnemonics, passphrase : BOOLEAN]

ASSUME NoneAssumption ==
  None \notin Mnemonics \cup Pins \cup DeviceIds \cup Seeds \cup BOOLEAN

(* SE objects that hold a value.  TEMP is the scratch key 0xF0 of the signer; *)
(* the attempt counter 0x05 is a variable of its own.                         *)
SeObjects == {"BIP32_MASTER", "CHAIN_CODE", "PIN_HASH", "ANTI_PHISH",
              "FW_HASH", "HAS_PASSPHRASE", "TEMP"}

SeContents ==
  [BIP32_MASTER : Seeds \cup {None}, CHAIN_CODE : Seeds \cup {None},
   PIN_HASH : Pins \cup {None}, ANTI_PHISH : DeviceIds \cup {None},
   FW_HASH : {TRUE, None}, HAS_PASSPHRASE : BOOLEAN \cup {None}, TEMP : {TRUE, None}]

(* Mutants of ResetObjects: the PIN goes first; the objects of later user      *)
(* stories, or the PIN, are forgotten.                                        *)
ResetPinFirst   == <<"PIN_HASH", "BIP32_MASTER", "CHAIN_CODE", "ANTI_PHISH",
                     "PIN_COUNTER", "FW_HASH", "HAS_PASSPHRASE">>
ResetOnlyFive   == <<"BIP32_MASTER", "CHAIN_CODE", "PIN_HASH", "ANTI_PHISH", "PIN_COUNTER">>
ResetWithoutPin == <<"BIP32_MASTER", "CHAIN_CODE", "ANTI_PHISH",
                     "PIN_COUNTER", "FW_HASH", "HAS_PASSPHRASE">>

(* What wallet_factory_reset deletes, in its order, and the NVS namespaces    *)
(* that the settings menu's factory reset erases after it.                    *)
ResetObjects  == <<"BIP32_MASTER", "CHAIN_CODE", "PIN_HASH", "ANTI_PHISH",
                   "PIN_COUNTER", "FW_HASH", "HAS_PASSPHRASE">>
ResetSpaces   == <<"settings", "account", "balance", "tx_history">>
Namespaces    == {"settings", "account", "balance", "tx_history"}

ASSUME UserDataAssumption == UserData \subseteq Namespaces

(* Screens, grouped by what has to have happened before one may be shown.     *)
(* BIP39_VERIFY and BIP39_RESTORE are BIP39_PREDICTIVE_INPUT with             *)
(* predictiveIsVerify true and false.                                         *)
SetupScreens  == {"BOOT_MENU", "MNEMONIC_DISPLAY", "BIP39_VERIFY", "BIP39_RESTORE",
                  "RESTORE_ERROR", "RESTORE_PASSPHRASE", "PASSPHRASE_PROMPT",
                  "PASSPHRASE_ENTRY", "PIN_SETUP"}
ResetScreens  == {"SETTINGS_FACTORY_RESET_CONFIRM", "SETTINGS_FACTORY_RESET_SURE"}
PinScreens    == {"SETTINGS_CHANGE_PIN_OLD", "SETTINGS_CHANGE_PIN_NEW",
                  "SETTINGS_CHANGE_PIN_CONFIRM", "SETTINGS_PIN_MISMATCH"}
OpenScreens   == {"BOOT_PASSPHRASE", "DEVICE_ID_DISPLAY", "MAIN_MENU",
                  "TX_OUTPUT_REVIEW", "SETTINGS_MENU"} \cup PinScreens \cup ResetScreens
LockScreens   == {"PIN_ENTRY", "SE_ERROR", "WATCHDOG_RECOVERY", "WALLET_WIPED"}
Screens       == SetupScreens \cup OpenScreens \cup LockScreens \cup {"SCREENSAVER"}

(* The states that loop() sends to the screensaver, and among them those it   *)
(* may lock.                                                                  *)
IdleScreens   == {"MAIN_MENU", "MNEMONIC_DISPLAY", "BIP39_VERIFY", "BIP39_RESTORE",
                  "PIN_ENTRY", "SETTINGS_MENU"} \cup ResetScreens
LockableScreens == IdleScreens \ {"BIP39_VERIFY", "BIP39_RESTORE", "PIN_ENTRY"}

Flows == {"new", "restore"}   \* mnemonicWords and restoreWords

VARIABLES
  (* survive a reset *)
  keys,           \* SE objects
  counter,        \* SE attempt counter (absent reads as 0)
  xpub,           \* NVS "wlt": account xpub, named by the seed it came from
  nvs,            \* NVS namespaces that hold data of the user
  signingActive,  \* NVS "watchdog": signing_active
  (* lost at a reset *)
  ui,             \* currentState
  pc,             \* next write of the handler being run, "ui" or "boot"
  pinAttempts, pinPosition,
  pinDigits,      \* the PIN typed, once complete
  changePin,      \* changePinOldDigits and changePinNewDigits
  words,          \* mnemonicWords and restoreWords: the mnemonic held in RAM
  passphraseIsNewWallet,
  seInitErr, seAvailable,
  screensaverPrevState,
  seedJob,        \* the seed wallet_generate_seed is storing
  wipeJob,        \* what the running wipe has still to delete
  wdtReset,       \* the reset was the watchdog's; read once, by setup()
  (* history, not in the program *)
  proved,         \* a PIN was verified or created since the last boot or lock
  tries           \* PINs tried since the PIN was last proved or created (saturates)

seVars     == <<keys, counter>>
nvsVars    == <<xpub, nvs, signingActive>>
pinVars    == <<pinAttempts, pinPosition, pinDigits, changePin>>
setupVars  == <<words, passphraseIsNewWallet, seedJob>>
bootVars   == <<seInitErr, seAvailable, wdtReset>>
ghostVars  == <<proved, tries>>
vars == <<seVars, nvsVars, ui, pc, pinVars, setupVars, bootVars,
          screensaverPrevState, wipeJob, ghostVars>>

Labels == {"boot", "ui", "verify", "unlocked", "deviceId", "resetAttempts",
           "storeChain", "undoMaster", "storeXpub", "checkPubkey",
           "dropChain", "setFlag", "wipe", "sign", "signTemp"}

TypeOK ==
  /\ keys \in SeContents
  /\ counter \in 0..COUNTER_MAX
  /\ xpub \in Seeds \cup {None}
  /\ nvs \in SUBSET Namespaces
  /\ signingActive \in BOOLEAN
  /\ ui \in Screens
  /\ pc \in Labels
  /\ pinAttempts \in 0..COUNTER_MAX
  /\ pinPosition \in 0..PIN_LEN
  /\ pinDigits \in Pins \cup {None}
  /\ changePin \in [{"old", "new"} -> Pins \cup {None}]
  /\ words \in [Flows -> Mnemonics \cup {None}]
  /\ passphraseIsNewWallet \in BOOLEAN
  /\ seInitErr \in {"OK", "LOCKED", "OFFLINE", "OTHER"}
  /\ seAvailable \in BOOLEAN
  /\ screensaverPrevState \in IdleScreens
  /\ seedJob \in Seeds \cup {None}
  /\ wipeJob \in Seq(SeObjects \cup Namespaces \cup {"PIN_COUNTER"})
  /\ wdtReset \in BOOLEAN
  /\ proved \in BOOLEAN
  /\ tries \in 0..PIN_MAX_ATTEMPTS

-----------------------------------------------------------------------------
(* SE calls.  A write is acknowledged ("ok"), refused ("fail"), or takes      *)
(* effect although the caller sees an error ("lost": the reply was).          *)

Writes == IF SeFaults THEN {"ok", "fail", "lost"} ELSE {"ok"}
Reads  == IF SeFaults THEN BOOLEAN ELSE {TRUE}

SeStore(obj, val, w) == keys' = IF w = "fail" THEN keys ELSE [keys EXCEPT ![obj] = val]
SeDelete(obj, w)     == SeStore(obj, None, w)

(* Mutant of Increment: no limit at the width of the counter.                 *)
IncrementUnbounded(w) == counter' = IF w = "fail" THEN counter ELSE counter + 1

(* pin_increment_attempts, and deletion or reset of the counter.              *)
Increment(w) == counter' = IF w = "fail" \/ counter >= COUNTER_MAX THEN counter ELSE counter + 1

(* Mutant of Reset: the counter only ever counts up.                          *)
ResetNever(w) == UNCHANGED counter

Reset(w)     == counter' = IF w # "fail" /\ ~Atecc THEN 0 ELSE counter

(* The limit of the attempts counted, and the wipe once it is reached, both   *)
(* by the copy in RAM.  Mutant: off by one.                                   *)
LockedOutEarly == pinAttempts + 1 >= PIN_MAX_ATTEMPTS
LockedOut == pinAttempts >= PIN_MAX_ATTEMPTS

(* pin_get_attempts answers 0 when the read fails.                            *)
AttemptsRead(r) == IF r THEN counter' ELSE 0

pin_is_set(r)            == r /\ keys["PIN_HASH"] # None

(* Mutant of wallet_is_initialized: one of the two objects is enough.         *)
MasterIsEnough(r) == r /\ keys["BIP32_MASTER"] # None

wallet_is_initialized(r) == r /\ keys["BIP32_MASTER"] # None /\ keys["CHAIN_CODE"] # None
wallet_has_passphrase(r) == r /\ keys["HAS_PASSPHRASE"] = TRUE
pin_verify(p, r)         == r /\ keys["PIN_HASH"] = p

Saturate(n) == IF n < PIN_MAX_ATTEMPTS THEN n + 1 ELSE n

At(screen) == pc = "ui" /\ ui = screen

(* Show a screen and go back to loop().                                       *)
Show(screen) == ui' = screen /\ pc' = "ui"

ClearDigits == pinPosition' = 0 /\ pinDigits' = None

Init ==
  /\ keys = [o \in SeObjects |-> None]
  /\ counter = 0
  /\ xpub = None
  /\ nvs = {}
  /\ signingActive = FALSE
  /\ ui = "PIN_SETUP"
  /\ pc = "boot"
  /\ pinAttempts = 0 /\ pinPosition = 0 /\ pinDigits = None
  /\ changePin = [k \in {"old", "new"} |-> None]
  /\ words = [f \in Flows |-> None]
  /\ passphraseIsNewWallet = FALSE
  /\ seInitErr = "OK" /\ seAvailable = FALSE
  /\ screensaverPrevState = "MAIN_MENU"
  /\ seedJob = None
  /\ wipeJob = <<>>
  /\ wdtReset = FALSE
  /\ proved = FALSE /\ tries = 0

-----------------------------------------------------------------------------
(* Reset and boot.                                                            *)

(* Everything that is not in the SE or in NVS returns to its initial value.   *)
LoseRam ==
  /\ pc' = "boot" /\ ui' = "PIN_SETUP"
  /\ pinAttempts' = 0 /\ ClearDigits
  /\ changePin' = [k \in {"old", "new"} |-> None]
  /\ words' = [f \in Flows |-> None]
  /\ passphraseIsNewWallet' = FALSE
  /\ seInitErr' = "OK" /\ seAvailable' = FALSE
  /\ screensaverPrevState' = "MAIN_MENU"
  /\ seedJob' = None /\ wipeJob' = <<>>
  /\ proved' = FALSE
  /\ UNCHANGED <<seVars, nvsVars, tries>>

PowerLoss ==
  /\ pc # "boot"
  /\ LoseRam
  /\ wdtReset' = FALSE

(* A handler stuck in an SE call for 10 s is reset by the task watchdog.      *)
WatchdogReset ==
  /\ SeFaults /\ pc \notin {"boot", "ui"}
  /\ LoseRam
  /\ wdtReset' = TRUE

(* ESP.restart() of the WALLET_WIPED screen, by a button or after 4 s.        *)
Restart ==
  /\ At("WALLET_WIPED")
  /\ LoseRam
  /\ wdtReset' = FALSE

(* Only a DEV_BUILD tells the errors of se051_init apart.                     *)
InitErrors == {"OK"} \cup (IF ~SeInitFaults THEN {}
                            ELSE IF DevBuild THEN {"LOCKED", "OFFLINE", "OTHER"}
                            ELSE {"OTHER"})

(* Mutants of BootScreen: an uninitialised wallet is set up although a PIN is  *)
(* set; a wallet without a PIN is set up although it is initialised.          *)
BootSeedFirst(avail, r) ==
  IF signingActive \/ wdtReset          THEN "WATCHDOG_RECOVERY"
  ELSE IF ~avail                        THEN "SE_ERROR"
  ELSE IF ~wallet_is_initialized(r[2])  THEN "BOOT_MENU"
  ELSE IF pin_is_set(r[1])              THEN "PIN_ENTRY"
  ELSE "PIN_SETUP"

BootAsRecovery(avail, r) ==
  IF signingActive \/ wdtReset THEN "WATCHDOG_RECOVERY"
  ELSE IF ~avail               THEN "SE_ERROR"
  ELSE IF pin_is_set(r[1])     THEN "PIN_ENTRY"
  ELSE "BOOT_MENU"

(* The screen setup() boots into; r says which of its three reads succeed.    *)
BootScreen(avail, r) ==
  IF signingActive \/ wdtReset      THEN "WATCHDOG_RECOVERY"
  ELSE IF ~avail                    THEN "SE_ERROR"
  ELSE IF pin_is_set(r[1])          THEN "PIN_ENTRY"
  ELSE IF ~wallet_is_initialized(r[2]) THEN "BOOT_MENU"
  ELSE "PIN_SETUP"

Boot ==
  /\ pc = "boot"
  /\ \E err \in InitErrors, r \in [1..3 -> Reads] :
       /\ seInitErr' = err
       /\ seAvailable' = (err = "OK" \/ (DevBuild /\ err \in {"LOCKED", "OFFLINE"}))
       /\ Show(BootScreen(seAvailable', r))
       /\ pinAttempts' = IF ui' = "PIN_ENTRY" /\ r[3] THEN counter ELSE 0
  /\ signingActive' = FALSE /\ wdtReset' = FALSE
  /\ UNCHANGED <<seVars, xpub, nvs, pinPosition, pinDigits, changePin, setupVars,
                 screensaverPrevState, wipeJob, ghostVars>>

(* Mutant of EnterPinEntry: the RAM copy of the counter is trusted.           *)
EnterPinEntryCached(r) ==
  /\ Show("PIN_ENTRY")
  /\ ClearDigits
  /\ proved' = FALSE
  /\ UNCHANGED <<pinAttempts, seVars, nvsVars, changePin, setupVars, screensaverPrevState,
                 wipeJob, wdtReset, tries>>

EnterPinEntry(r) ==
  /\ Show("PIN_ENTRY")
  /\ ClearDigits
  /\ pinAttempts' = IF r THEN counter ELSE 0
  /\ proved' = FALSE
  /\ UNCHANGED <<seVars, nvsVars, changePin, setupVars, screensaverPrevState,
                 wipeJob, wdtReset, tries>>

(* SE_ERROR: any button initialises the SE again.                             *)
RetrySe ==
  /\ At("SE_ERROR")
  /\ \E err \in InitErrors, set \in Reads, r \in Reads :
       /\ seInitErr' = err
       /\ seAvailable' = (err = "OK" \/ (DevBuild /\ err = "LOCKED"))
       /\ IF err = "OK" /\ pin_is_set(set)
          THEN EnterPinEntry(r)
          ELSE /\ Show(IF seAvailable' THEN "BOOT_MENU" ELSE "SE_ERROR")
               /\ UNCHANGED <<seVars, nvsVars, pinVars, setupVars, screensaverPrevState,
                              wipeJob, wdtReset, ghostVars>>

LeaveWatchdogRecovery ==
  /\ At("WATCHDOG_RECOVERY")
  /\ UNCHANGED <<seInitErr, seAvailable>>
  /\ IF seAvailable
     THEN \E r \in Reads : EnterPinEntry(r)
     ELSE /\ Show("SE_ERROR")
          /\ UNCHANGED <<seVars, nvsVars, pinVars, setupVars, screensaverPrevState,
                         wipeJob, wdtReset, ghostVars>>

-----------------------------------------------------------------------------
(* Idle timers of loop(), without their clock: IdleTimers has it.             *)

idleFrame == <<seVars, nvsVars, setupVars, bootVars, wipeJob>>

(* Mutant of StartScreensaver: a locked wallet does not note where it was.    *)
StartScreensaverStale ==
  /\ pc = "ui" /\ ui \in IdleScreens
  /\ Show("SCREENSAVER")
  /\ screensaverPrevState' = IF ui = "PIN_ENTRY" THEN screensaverPrevState ELSE ui
  /\ UNCHANGED <<idleFrame, pinVars, ghostVars>>

StartScreensaver ==
  /\ pc = "ui" /\ ui \in IdleScreens
  /\ Show("SCREENSAVER")
  /\ screensaverPrevState' = ui
  /\ UNCHANGED <<idleFrame, pinVars, ghostVars>>

LeaveScreensaver ==
  /\ At("SCREENSAVER")
  /\ Show(screensaverPrevState)
  /\ UNCHANGED <<idleFrame, pinVars, screensaverPrevState, ghostVars>>

AutoLock ==
  /\ pc = "ui" /\ ui \in LockableScreens
  /\ \E r \in Reads : EnterPinEntry(r)
  /\ UNCHANGED <<seInitErr, seAvailable>>

-----------------------------------------------------------------------------
(* Setup: a new mnemonic, or a restored one, then its seed.                   *)

setupFrame == <<nvsVars, pinVars, wdtReset, screensaverPrevState, wipeJob, ghostVars>>

(* startMnemonicCeremony; without entropy the SE is initialised again.        *)
StartMnemonicCeremony ==
  /\ At("BOOT_MENU")
  /\ \/ /\ \E m \in Mnemonics : words' = [words EXCEPT !["new"] = m]
        /\ Show("MNEMONIC_DISPLAY")
        /\ UNCHANGED <<seInitErr, seAvailable>>
     \/ /\ SeFaults
        /\ words' = [words EXCEPT !["new"] = None]
        /\ seInitErr' \in InitErrors
        /\ seAvailable' = (seInitErr' = "OK")
        /\ Show("SE_ERROR")
  /\ UNCHANGED <<setupFrame, seVars, passphraseIsNewWallet, seedJob>>

StartVerification ==
  /\ At("MNEMONIC_DISPLAY")
  /\ Show("BIP39_VERIFY")
  /\ UNCHANGED <<setupFrame, seVars, setupVars, seInitErr, seAvailable>>

(* The third right word ends the verification, a wrong one restarts it.       *)
VerifyWords ==
  /\ At("BIP39_VERIFY")
  /\ \/ Show("PASSPHRASE_PROMPT") /\ passphraseIsNewWallet' = TRUE
     \/ Show("MNEMONIC_DISPLAY") /\ UNCHANGED passphraseIsNewWallet
  /\ UNCHANGED <<setupFrame, seVars, words, seedJob, seInitErr, seAvailable>>

StartRestoreProcess ==
  /\ At("BOOT_MENU")
  /\ Show("BIP39_RESTORE")
  /\ words' = [words EXCEPT !["restore"] = None]
  /\ UNCHANGED <<setupFrame, seVars, passphraseIsNewWallet, seedJob, seInitErr, seAvailable>>

(* The 24th word: a valid checksum, a bad one; or the 5-minute abort.         *)
FinishRestoreWords ==
  /\ At("BIP39_RESTORE")
  /\ \/ /\ \E m \in Mnemonics : words' = [words EXCEPT !["restore"] = m]
        /\ Show("RESTORE_PASSPHRASE")
     \/ Show("RESTORE_ERROR") /\ UNCHANGED words
     \/ Show("BOOT_MENU") /\ words' = [words EXCEPT !["restore"] = None]
  /\ UNCHANGED <<setupFrame, seVars, passphraseIsNewWallet, seedJob, seInitErr, seAvailable>>

RetryRestore ==
  /\ At("RESTORE_ERROR")
  /\ Show("BIP39_RESTORE")
  /\ UNCHANGED <<setupFrame, seVars, setupVars, seInitErr, seAvailable>>

AskPassphrase ==
  /\ pc = "ui"
  /\ \/ ui = "RESTORE_PASSPHRASE" /\ passphraseIsNewWallet' = FALSE
     \/ ui = "PASSPHRASE_PROMPT" /\ UNCHANGED passphraseIsNewWallet
  /\ Show("PASSPHRASE_ENTRY")
  /\ UNCHANGED <<setupFrame, seVars, words, seedJob, seInitErr, seAvailable>>

(* Mutant of JobFlow: the flow is not looked at.                              *)
JobFlowRestore == "restore"

(* The mnemonic wallet_generate_seed is called with.                          *)
JobFlow == IF ui # "RESTORE_PASSPHRASE" /\ passphraseIsNewWallet THEN "new" ELSE "restore"

seedFrame == <<setupFrame, words, passphraseIsNewWallet, seInitErr, seAvailable, ui>>

(* wallet_generate_seed: store the master key ...                             *)
StoreMaster ==
  /\ pc = "ui" /\ ui \in {"RESTORE_PASSPHRASE", "PASSPHRASE_PROMPT", "PASSPHRASE_ENTRY"}
  /\ \E w \in Writes, p \in IF ui = "PASSPHRASE_ENTRY" THEN BOOLEAN ELSE {FALSE} :
       /\ seedJob' = [mnemonic |-> words[JobFlow], passphrase |-> p]
       /\ SeStore("BIP32_MASTER", seedJob', w)
       /\ pc' = IF w = "ok" THEN "storeChain" ELSE "setFlag"
  /\ UNCHANGED <<seedFrame, counter>>

(* ... the chain code, taking the master key back if that fails ...           *)
StoreChain ==
  /\ pc = "storeChain"
  /\ \E w \in Writes :
       /\ SeStore("CHAIN_CODE", seedJob, w)
       /\ pc' = IF w = "ok" THEN "storeXpub" ELSE "undoMaster"
  /\ UNCHANGED <<seedFrame, counter, seedJob>>

UndoMaster ==
  /\ pc = "undoMaster"
  /\ \E w \in Writes : SeDelete("BIP32_MASTER", w)
  /\ pc' = "setFlag"
  /\ UNCHANGED <<seedFrame, counter, seedJob>>

(* ... the account xpub in NVS ...                                            *)
StoreXpub ==
  /\ pc = "storeXpub"
  /\ xpub' = seedJob
  /\ pc' = "checkPubkey"
  /\ UNCHANGED <<seVars, nvs, signingActive, ui, pinVars, setupVars, bootVars,
                 screensaverPrevState, wipeJob, ghostVars>>

(* ... and read the public key back, deleting both objects if that fails.     *)
CheckPubkey ==
  /\ pc = "checkPubkey"
  /\ \E r \in Reads, w \in Writes :
       \/ r /\ pc' = "setFlag" /\ UNCHANGED keys
       \/ ~r /\ SeDelete("BIP32_MASTER", w) /\ pc' = "dropChain"
  /\ UNCHANGED <<seedFrame, counter, seedJob>>

DropChain ==
  /\ pc = "dropChain"
  /\ \E w \in Writes : SeDelete("CHAIN_CODE", w)
  /\ pc' = "setFlag"
  /\ UNCHANGED <<seedFrame, counter, seedJob>>

(* The callers ignore both results: flag, zeroed words, PIN_SETUP.            *)
SetPassphraseFlag ==
  /\ pc = "setFlag"
  /\ \E w \in Writes : SeStore("HAS_PASSPHRASE", seedJob.passphrase, w)
  /\ words' = [words EXCEPT ![JobFlow] = None]
  /\ Show("PIN_SETUP")
  /\ ClearDigits
  /\ seedJob' = None
  /\ UNCHANGED <<counter, nvsVars, pinAttempts, changePin, passphraseIsNewWallet,
                 bootVars, screensaverPrevState, wipeJob, ghostVars>>

-----------------------------------------------------------------------------
(* PIN creation and PIN entry.                                                *)

pinFrame == <<nvsVars, changePin, setupVars, bootVars, screensaverPrevState>>

(* A digit that does not complete the PIN.                                    *)
TypeDigit ==
  /\ pc = "ui" /\ ui \in {"PIN_SETUP", "PIN_ENTRY"}
  /\ pinPosition + 1 < PIN_LEN
  /\ pinPosition' = pinPosition + 1
  /\ UNCHANGED <<pinFrame, seVars, ui, pc, pinAttempts, pinDigits, wipeJob, ghostVars>>

(* Mutant of CreatePin: a DEV_BUILD goes on whatever kept the PIN from being  *)
(* stored.                                                                    *)
CreatePinDevBuild(p) ==
  /\ At("PIN_SETUP")
  /\ pinPosition + 1 = PIN_LEN
  /\ \E w \in Writes :
       /\ SeStore("PIN_HASH", p, w)
       /\ IF w = "ok" \/ DevBuild
          THEN /\ pc' = "resetAttempts"
               /\ pinPosition' = PIN_LEN /\ pinDigits' = p
          ELSE pc' = "ui" /\ ClearDigits
       /\ IF w = "ok" THEN proved' = TRUE /\ tries' = 0 ELSE UNCHANGED <<proved, tries>>
  /\ UNCHANGED <<pinFrame, counter, ui, pinAttempts, wipeJob>>

(* pin_setup; on success the attempt counter is reset next.  An unprovisioned *)
(* SE in a DEV_BUILD goes on without a PIN.                                   *)
CreatePin(p) ==
  /\ At("PIN_SETUP")
  /\ pinPosition + 1 = PIN_LEN
  /\ \E w \in Writes :
       /\ SeStore("PIN_HASH", p, w)
       /\ IF w = "ok" \/ (DevBuild /\ seInitErr = "LOCKED")
          THEN /\ pc' = "resetAttempts"
               /\ pinPosition' = PIN_LEN /\ pinDigits' = p
          ELSE pc' = "ui" /\ ClearDigits
       /\ IF w = "ok" THEN proved' = TRUE /\ tries' = 0 ELSE UNCHANGED <<proved, tries>>
  /\ UNCHANGED <<pinFrame, counter, ui, pinAttempts, wipeJob>>

(* The last digit at PIN_ENTRY: count the attempt before the PIN is verified. *)
CountAttempt(p) ==
  /\ At("PIN_ENTRY")
  /\ pinPosition + 1 >= PIN_LEN
  /\ pinPosition' = PIN_LEN /\ pinDigits' = p
  /\ \E w \in Writes, r \in Reads :
       IF LockedOut
       THEN UNCHANGED <<counter, pinAttempts>>
       ELSE Increment(w) /\ pinAttempts' = AttemptsRead(r)
  /\ pc' = "verify"
  /\ tries' = Saturate(tries)
  /\ UNCHANGED <<pinFrame, keys, ui, wipeJob, proved>>

(* pin_verify: right, wrong, or wrong once too often.                         *)
VerifyPin ==
  /\ pc = "verify"
  /\ \E r \in Reads :
       \/ /\ pin_verify(pinDigits, r)
          /\ pc' = "resetAttempts"
          /\ proved' = TRUE /\ tries' = 0
          /\ UNCHANGED <<pinPosition, pinDigits, wipeJob>>
       \/ /\ ~pin_verify(pinDigits, r) /\ LockedOut
          /\ pc' = "wipe" /\ wipeJob' = ResetObjects
          /\ UNCHANGED <<pinPosition, pinDigits, proved, tries>>
       \/ /\ ~pin_verify(pinDigits, r) /\ ~LockedOut
          /\ pc' = "ui" /\ ClearDigits
          /\ UNCHANGED <<wipeJob, proved, tries>>
  /\ UNCHANGED <<pinFrame, seVars, ui, pinAttempts>>

(* pin_reset_attempts, after a PIN was verified or created.                   *)
ResetAttempts ==
  /\ pc = "resetAttempts"
  /\ \E w \in Writes : Reset(w)
  /\ pinAttempts' = 0
  /\ pc' = IF ui = "PIN_SETUP" THEN "deviceId" ELSE "unlocked"
  /\ UNCHANGED <<pinFrame, keys, ui, pinPosition, pinDigits, wipeJob, ghostVars>>

openFrame == <<pinFrame, pinAttempts, pinPosition, pinDigits, counter, wipeJob, ghostVars>>

(* The session passphrase is asked for when the flag says so.                 *)
AskSessionPassphrase ==
  /\ pc = "unlocked"
  /\ \E r \in Reads :
       IF wallet_has_passphrase(r)
       THEN Show("BOOT_PASSPHRASE") /\ passphraseIsNewWallet' = FALSE
       ELSE pc' = "deviceId" /\ UNCHANGED <<ui, passphraseIsNewWallet>>
  /\ UNCHANGED <<nvsVars, changePin, words, seedJob, bootVars, screensaverPrevState,
                 keys, counter, pinAttempts, pinPosition, pinDigits, wipeJob, ghostVars>>

EnterSessionPassphrase ==
  /\ At("BOOT_PASSPHRASE")
  /\ pc' = "deviceId"
  /\ UNCHANGED <<openFrame, keys, ui>>

(* enterDeviceIdDisplay: the identity is generated once.                      *)
EnterDeviceIdDisplay ==
  /\ pc = "deviceId"
  /\ \E r \in Reads :
       IF r /\ keys["ANTI_PHISH"] # None
       THEN UNCHANGED keys
       ELSE \/ \E id \in DeviceIds, w \in Writes : SeStore("ANTI_PHISH", id, w)
            \/ SeFaults /\ UNCHANGED keys      \* no entropy
  /\ Show("DEVICE_ID_DISPLAY")
  /\ UNCHANGED openFrame

-----------------------------------------------------------------------------
(* The open wallet.                                                           *)

(* Menu navigation: no write.                                                 *)
Links == {<<"DEVICE_ID_DISPLAY", "MAIN_MENU">>,
          <<"MAIN_MENU", "SETTINGS_MENU">>,
          <<"MAIN_MENU", "TX_OUTPUT_REVIEW">>, <<"TX_OUTPUT_REVIEW", "MAIN_MENU">>,
          <<"SETTINGS_MENU", "SETTINGS_FACTORY_RESET_CONFIRM">>,
          <<"SETTINGS_FACTORY_RESET_CONFIRM", "SETTINGS_MENU">>,
          <<"SETTINGS_FACTORY_RESET_CONFIRM", "SETTINGS_FACTORY_RESET_SURE">>,
          <<"SETTINGS_FACTORY_RESET_SURE", "SETTINGS_MENU">>,
          <<"SETTINGS_PIN_MISMATCH", "SETTINGS_MENU">>}

Navigate ==
  /\ pc = "ui"
  /\ \E l \in Links : l[1] = ui /\ Show(l[2])
  /\ UNCHANGED <<openFrame, keys>>

(* Settings, account labels, balances and history leave data in NVS.          *)
SaveUserData ==
  /\ pc = "ui" /\ ui \in {"MAIN_MENU", "SETTINGS_MENU"}
  /\ \E s \in UserData : nvs' = nvs \cup {s}
  /\ UNCHANGED <<seVars, xpub, signingActive, ui, pc, pinVars, setupVars, bootVars,
                 screensaverPrevState, wipeJob, ghostVars>>

changeFrame == <<nvsVars, setupVars, bootVars, screensaverPrevState, counter,
                 pinAttempts, pinPosition, pinDigits, wipeJob, ghostVars>>

StartChangePin ==
  /\ At("SETTINGS_MENU")
  /\ Show("SETTINGS_CHANGE_PIN_OLD")
  /\ changePin' = [k \in {"old", "new"} |-> None]
  /\ UNCHANGED <<changeFrame, keys>>

(* The old PIN; its attempts are not counted.                                 *)
EnterOldPin(p) ==
  /\ At("SETTINGS_CHANGE_PIN_OLD")
  /\ changePin' = [changePin EXCEPT !["old"] = p]
  /\ \E r \in Reads :
       Show(IF pin_verify(p, r) THEN "SETTINGS_CHANGE_PIN_NEW" ELSE "SETTINGS_MENU")
  /\ UNCHANGED <<changeFrame, keys>>

EnterNewPin(p) ==
  /\ At("SETTINGS_CHANGE_PIN_NEW")
  /\ changePin' = [changePin EXCEPT !["new"] = p]
  /\ Show("SETTINGS_CHANGE_PIN_CONFIRM")
  /\ UNCHANGED <<changeFrame, keys>>

(* pin_change verifies the old PIN again; its result is ignored.              *)
ConfirmNewPin(p) ==
  /\ At("SETTINGS_CHANGE_PIN_CONFIRM")
  /\ IF p = changePin["new"]
     THEN /\ \E r \in Reads, w \in Writes :
               IF pin_verify(changePin["old"], r)
               THEN SeStore("PIN_HASH", p, w)
               ELSE UNCHANGED keys
          /\ changePin' = [k \in {"old", "new"} |-> None]
          /\ Show("SETTINGS_MENU")
     ELSE /\ Show("SETTINGS_PIN_MISMATCH")
          /\ UNCHANGED <<keys, changePin>>
  /\ UNCHANGED changeFrame

-----------------------------------------------------------------------------
(* Wipes.  wallet_factory_reset ignores every delete's result.                *)

wipeFrame == <<xpub, signingActive, pinVars, setupVars, bootVars, screensaverPrevState>>

ConfirmFactoryReset ==
  /\ At("SETTINGS_FACTORY_RESET_SURE")
  /\ pc' = "wipe" /\ wipeJob' = ResetObjects \o ResetSpaces
  /\ UNCHANGED <<wipeFrame, seVars, nvs, ui, proved, tries>>

WipeNext ==
  /\ pc = "wipe" /\ wipeJob # <<>>
  /\ \E w \in Writes :
       \/ /\ Head(wipeJob) \in SeObjects
          /\ SeDelete(Head(wipeJob), w)
          /\ UNCHANGED <<counter, nvs>>
       \/ /\ Head(wipeJob) = "PIN_COUNTER"
          /\ Reset(w)
          /\ UNCHANGED <<keys, nvs>>
       \/ /\ Head(wipeJob) \in Namespaces
          /\ nvs' = nvs \ {Head(wipeJob)}
          /\ UNCHANGED seVars
  /\ wipeJob' = Tail(wipeJob)
  /\ UNCHANGED <<wipeFrame, ui, pc, ghostVars>>

FinishWipe ==
  /\ pc = "wipe" /\ wipeJob = <<>>
  /\ Show("WALLET_WIPED")
  /\ UNCHANGED <<wipeFrame, seVars, nvs, wipeJob, proved, tries>>

-----------------------------------------------------------------------------
(* The signing bracket.  psbt_sign stores a child key for each input and      *)
(* deletes it after the signature; PsbtSigner has the inputs.                 *)

signFrame == <<xpub, nvs, counter, ui, pinVars, setupVars, bootVars,
               screensaverPrevState, wipeJob, ghostVars>>

StartSigning ==
  /\ At("TX_OUTPUT_REVIEW")
  /\ signingActive' = TRUE
  /\ pc' = "sign"
  /\ UNCHANGED <<signFrame, keys>>

(* A failed store ends the signing with no delete.                            *)
StoreTempKey ==
  /\ pc = "sign"
  /\ keys["BIP32_MASTER"] # None /\ keys["CHAIN_CODE"] # None
  /\ \E w \in IF Atecc THEN {"fail"} ELSE Writes :
       /\ SeStore("TEMP", TRUE, w)
       /\ pc' = IF w = "ok" THEN "signTemp" ELSE "sign"
  /\ UNCHANGED <<signFrame, signingActive>>

DeleteTempKey ==
  /\ pc = "signTemp"
  /\ \E w \in Writes : SeDelete("TEMP", w)
  /\ pc' = "sign"
  /\ UNCHANGED <<signFrame, signingActive>>

FinishSigning ==
  /\ pc = "sign"
  /\ signingActive' = FALSE
  /\ Show("MAIN_MENU")
  /\ UNCHANGED <<xpub, nvs, seVars, pinVars, setupVars, bootVars,
                 screensaverPrevState, wipeJob, ghostVars>>

(* handle_provision_hash, from the serial port at the top of loop().          *)
ProvisionHash ==
  /\ pc = "ui" /\ seAvailable
  /\ \E r \in Reads, w \in Writes :
       /\ ~wallet_is_initialized(r)
       /\ SeStore("FW_HASH", TRUE, w)
  /\ UNCHANGED <<counter, nvsVars, ui, pc, pinVars, setupVars, bootVars,
                 screensaverPrevState, wipeJob, ghostVars>>

-----------------------------------------------------------------------------
SetupStep ==
  \/ StartMnemonicCeremony \/ StartVerification \/ VerifyWords
  \/ StartRestoreProcess \/ FinishRestoreWords \/ RetryRestore \/ AskPassphrase
  \/ StoreMaster \/ StoreChain \/ UndoMaster \/ StoreXpub \/ CheckPubkey
  \/ DropChain \/ SetPassphraseFlag

PinStep ==
  \/ TypeDigit
  \/ \E p \in Pins : CreatePin(p)
  \/ \E p \in Pins : CountAttempt(p)
  \/ VerifyPin \/ ResetAttempts
  \/ AskSessionPassphrase \/ EnterSessionPassphrase \/ EnterDeviceIdDisplay

OpenStep ==
  \/ Navigate \/ SaveUserData \/ StartChangePin
  \/ \E p \in Pins : EnterOldPin(p)
  \/ \E p \in Pins : EnterNewPin(p)
  \/ \E p \in Pins : ConfirmNewPin(p)
  \/ StartSigning \/ StoreTempKey \/ DeleteTempKey \/ FinishSigning

Next ==
  \/ PowerLoss \/ WatchdogReset \/ Restart \/ Boot
  \/ RetrySe \/ LeaveWatchdogRecovery
  \/ StartScreensaver \/ LeaveScreensaver \/ AutoLock
  \/ SetupStep \/ PinStep \/ OpenStep
  \/ ConfirmFactoryReset \/ WipeNext \/ FinishWipe
  \/ ProvisionHash

Spec == Init /\ [][Next]_vars
=============================================================================
