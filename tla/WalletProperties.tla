-------------------------- MODULE WalletProperties --------------------------
(***************************************************************************)
(* What the life cycle of module Wallet promises, each property under the  *)
(* faults its comment names.                                               *)
(***************************************************************************)
EXTENDS Wallet

(* The screen the buttons act on next: that under the screensaver, if any.    *)
Shown == IF ui = "SCREENSAVER" THEN screensaverPrevState ELSE ui

Seed == keys["BIP32_MASTER"]
HasSeed == keys["BIP32_MASTER"] # None /\ keys["CHAIN_CODE"] # None
HasPin  == keys["PIN_HASH"] # None

-----------------------------------------------------------------------------
(* The lock.                                                                  *)

(* No screen of the open wallet is ever reached, by boot, recovery,           *)
(* screensaver, auto-lock or a failing SE, unless a PIN was verified or       *)
(* created since the device last booted or locked.  A DEV_BUILD goes on       *)
(* without one in a single case: its SE said at start that it is not          *)
(* provisioned yet and cannot store the PIN that is created.                  *)
AuthBeforeUse ==
  Shown \in OpenScreens => proved \/ (DevBuild /\ seInitErr = "LOCKED")

(* The attempt counter in the SE has recorded every PIN tried since the PIN   *)
(* was last proved, wherever power was cut.                                   *)
AttemptsCounted == HasPin => tries <= counter

(* The copy of the counter in RAM that decides about the wipe is not stale    *)
(* when the next digit of a PIN is typed.                                     *)
PinAttemptsInSync == pc = "ui" /\ Shown = "PIN_ENTRY" => pinAttempts = counter

(* pinDigits is never indexed past its end: every way into PIN creation or    *)
(* PIN entry, and every way back to it, has reset the position.               *)
DigitIndexInBounds ==
  pc = "ui" /\ Shown \in {"PIN_SETUP", "PIN_ENTRY"} => pinPosition < PIN_LEN

(* Whichever way a PIN screen is come to, by boot, recovery, auto-lock, under *)
(* the screensaver or after a wrong PIN: the digit typed next has its cell,   *)
(* and the attempt it leads to is counted from the SE's own number.           *)
PinEntryReady == PinAttemptsInSync /\ DigitIndexInBounds

(* prd.json, US-017: "Counter reset to 0 only after successful PIN entry":    *)
(* whoever is at the menu has the whole budget of attempts again.             *)
UnlockRestoresAttempts == At("MAIN_MENU") => counter = 0

(* The attempt counter, the PIN object and the handlers of PIN_ENTRY keep the *)
(* promise of PinLockout, wherever power is cut (SE calls that succeed).      *)
LockPhase ==
  IF pc = "wipe"    THEN "wiping"
  ELSE IF ~HasPin   THEN "none"
  ELSE IF proved    THEN "open"
  ELSE "locked"

Lockout == INSTANCE PinLockout WITH
  MAX   <- PIN_MAX_ATTEMPTS,
  left  <- IF counter >= PIN_MAX_ATTEMPTS THEN 0 ELSE PIN_MAX_ATTEMPTS - counter,
  phase <- LockPhase,
  paid  <- pc = "verify"

PinLimitsAttempts == Lockout!Spec

(* A PIN that is set is replaced only by someone who is unlocked and has just *)
(* typed it, never by the setup that an interrupted wipe leads to.            *)
PinReplacedOnlyByOwner ==
  [][LET new == keys'["PIN_HASH"]
     IN  HasPin /\ new \notin {keys["PIN_HASH"], None}
           => proved /\ changePin["old"] = keys["PIN_HASH"]]_vars

-----------------------------------------------------------------------------
(* The seed.                                                                  *)

(* A wallet that counts as initialised has the master key and the chain code  *)
(* of one seed, although the two are stored, and deleted, one at a time.      *)
SeedPairConsistent == HasSeed => keys["BIP32_MASTER"] = keys["CHAIN_CODE"]

(* An initialised wallet keeps its seed until a wipe.                         *)
SeedKept == [][HasSeed /\ pc # "wipe" => UNCHANGED <<keys["BIP32_MASTER"], keys["CHAIN_CODE"]>>]_vars

(* A PIN is asked for at setup only when there is a whole seed to guard.      *)
PinSetupHasSeed == pc = "ui" /\ Shown = "PIN_SETUP" => HasSeed

(* wallet_generate_seed is called with 24 words, and with those of the flow   *)
(* the user went through.                                                     *)
MnemonicReady ==
  pc = "ui" => CASE ui = "RESTORE_PASSPHRASE" -> words["restore"] # None
                 [] ui \in {"PASSPHRASE_PROMPT", "PASSPHRASE_ENTRY"} -> words[JobFlow] # None
                 [] OTHER -> TRUE

-----------------------------------------------------------------------------
(* The wipe.                                                                  *)

(* WALLET WIPED is shown only when what wallet_factory_reset deletes of the   *)
(* owner is gone, seed, PIN, identity and passphrase flag, and the attempts   *)
(* start again from none.  This is less than README.md:161 says, where a      *)
(* factory reset deletes "all object IDs": the code does not delete the       *)
(* scratch key 0xF0 (TEMP), which a reset during signing leaves behind, nor   *)
(* the account xpub in NVS.  The firmware hash is deleted but not asked for   *)
(* here: it may have been provisioned again before the screen is left.        *)
WipedObjectsGone ==
  At("WALLET_WIPED") =>
    /\ \A o \in SeObjects \ {"TEMP", "FW_HASH"} : keys[o] = None
    /\ counter = 0

(* The screen of a wiped device is followed by that of a new one, also when   *)
(* power is cut meanwhile.                                                    *)
WipedBecomesNew == At("WALLET_WIPED") ~> At("BOOT_MENU")

(* loop() runs, and the 4 s timer of WALLET_WIPED with it; a device without   *)
(* power is switched on again.                                                *)
Fairness == WF_vars(Boot) /\ WF_vars(Restart)
FairSpec == Spec /\ Fairness
=============================================================================
