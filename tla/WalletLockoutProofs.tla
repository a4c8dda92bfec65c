-------------------------- MODULE WalletLockoutProofs --------------------------
(***************************************************************************)
(* More proofs about module Wallet, for all values of its constants: what  *)
(* the counter of failed PINs does, and what the owner is promised.        *)
(***************************************************************************)
EXTENDS WalletProofs, SequenceTheorems

-----------------------------------------------------------------------------
(***************************************************************************)
(* Module Wallet implements PinLockout, for all values of its constants,   *)
(* with an SE whose calls succeed and whose counter can be reset, and      *)
(* power that may fail between any two writes.                             *)
(***************************************************************************)

(* The RAM copy of the counter decides about the wipe only where it is fresh. *)
EntryInv ==
  /\ pc = "ui" /\ Shown = "PIN_ENTRY" => pinAttempts = counter /\ ~proved
  /\ pc = "verify" => pinAttempts = counter /\ ~proved /\ Shown = "PIN_ENTRY"
  /\ pc = "boot" => ~proved
  /\ pc = "resetAttempts" => tries = 0

(* Setup handlers run on a device without a PIN.                              *)
FreshInv ==
  /\ pc = "ui" /\ Shown \in SetupScreens => ~HasPin
  /\ pc \in StoreLabels => ~HasPin

(* A wipe that has not come to the PIN still has it to do, and resets the     *)
(* counter after it.                                                          *)
WipeInv ==
  pc = "wipe" /\ HasPin =>
    \E j \in 1..Len(wipeJob) :
      /\ wipeJob[j] = "PIN_HASH"
      /\ \A i \in 1..j : wipeJob[i] # "PIN_COUNTER"

CountInv == HasPin => tries <= counter

LockInv == EntryInv /\ FreshInv /\ WipeInv /\ CountInv

LEMMA LockInit == Init => LockInv
BY DEF Init, LockInv, EntryInv, FreshInv, WipeInv, CountInv, HasPin, SeObjects, StoreLabels

LEMMA LockEnter ==
  ASSUME NoFaults, LockInv, NEW r \in Reads, EnterPinEntry(r)
  PROVE  LockInv'
<1>1. r = TRUE
  BY Calls
<1>2. ui' = "PIN_ENTRY" /\ pc' = "ui" /\ pinAttempts' = counter /\ proved' = FALSE
      /\ UNCHANGED <<keys, counter, tries>>
  BY <1>1 DEF EnterPinEntry, Show, seVars
<1> QED BY <1>2 DEF LockInv, EntryInv, FreshInv, WipeInv, CountInv, HasPin, Shown, StoreLabels, SetupScreens

LEMMA LockBoot ==
  ASSUME NoFaults, SeedInv, LockInv,
         PowerLoss \/ WatchdogReset \/ Restart \/ Boot \/ RetrySe \/ LeaveWatchdogRecovery
  PROVE  LockInv'
<1> USE Calls DEF LockInv, HasPin
<1>1. CASE PowerLoss \/ WatchdogReset \/ Restart
  BY <1>1 DEF PowerLoss, WatchdogReset, Restart, LoseRam, seVars, EntryInv, FreshInv, WipeInv, CountInv,
     StoreLabels
<1>2. CASE Boot
  <2>1. PICK r \in [1..3 -> Reads] :
          /\ Show(BootScreen(seAvailable', r))
          /\ pinAttempts' = IF ui' = "PIN_ENTRY" /\ r[3] THEN counter ELSE 0
    BY <1>2 DEF Boot
  <2>2. r[1] \in {TRUE} /\ r[3] \in {TRUE}
    <3>1. 1 \in 1..3 /\ 3 \in 1..3
      OBVIOUS
    <3> QED BY <2>1, <3>1, Zenon
  <2>3. pc = "boot" /\ pc' = "ui" /\ UNCHANGED <<keys, counter, proved, tries>>
    BY <1>2, <2>1 DEF Boot, Show, seVars, ghostVars
  <2>4. \/ ui' \in {"WATCHDOG_RECOVERY", "SE_ERROR", "PIN_ENTRY"}
        \/ ~HasPin /\ ui' \in {"BOOT_MENU", "PIN_SETUP"}
    BY <2>1, <2>2 DEF Show, BootScreen, pin_is_set
  <2>5. ui' = "PIN_ENTRY" => pinAttempts' = counter
    BY <2>1, <2>2
  <2> QED BY <2>3, <2>4, <2>5 DEF EntryInv, FreshInv, WipeInv, CountInv, Shown, SetupScreens, StoreLabels
<1>3. CASE RetrySe
  BY <1>3 DEF RetrySe, At, SeedInv, CalmSE
<1>4. CASE LeaveWatchdogRecovery
  BY <1>4, LockEnter DEF LeaveWatchdogRecovery, At, SeedInv, CalmSE
<1> QED BY <1>1, <1>2, <1>3, <1>4

LEMMA LockIdle ==
  ASSUME NoFaults, TypeInv, LockInv, StartScreensaver \/ LeaveScreensaver \/ AutoLock
  PROVE  LockInv'
<1>1. CASE StartScreensaver \/ LeaveScreensaver
  <2>1. Shown' = Shown /\ pc = "ui" /\ pc' = "ui"
    BY <1>1 DEF StartScreensaver, LeaveScreensaver, At, Show, Shown, TypeInv, TypeOK, IdleScreens, ResetScreens
  <2>2. UNCHANGED <<keys, counter, pinAttempts, proved, tries>>
    BY <1>1 DEF StartScreensaver, LeaveScreensaver, idleFrame, seVars, pinVars, ghostVars
  <2> QED BY <2>1, <2>2 DEF LockInv, EntryInv, FreshInv, WipeInv, CountInv, HasPin, StoreLabels
<1>2. CASE AutoLock
  BY <1>2, LockEnter DEF AutoLock
<1> QED BY <1>1, <1>2

(* Setup neither makes a PIN nor counts an attempt.                           *)
LEMMA SetupFacts ==
  ASSUME NoFaults, TypeInv, SeedInv, LockInv, SetupStep
  PROVE  /\ UNCHANGED <<counter, proved, tries>>
         /\ ~HasPin /\ ~HasPin'
         /\ pc \in StoreLabels \cup {"ui"}
         /\ \/ pc' = "ui" /\ ui' \in SetupScreens \cup {"SE_ERROR"}
            \/ pc' \in StoreLabels
<1>0. DOMAIN keys = SeObjects
  BY DEF TypeInv, TypeOK, SeContents, SeObjects
<1>1. UNCHANGED <<counter, proved, tries>>
  BY DEF SetupStep, StartMnemonicCeremony, StartVerification, VerifyWords, StartRestoreProcess,
     FinishRestoreWords, RetryRestore, AskPassphrase, StoreMaster, StoreChain, UndoMaster, StoreXpub,
     CheckPubkey, DropChain, SetPassphraseFlag, setupFrame, seedFrame, seVars, ghostVars
<1>2. ~HasPin
  <2>1. CASE pc = "ui"
    BY <2>1 DEF SetupStep, StartMnemonicCeremony, StartVerification, VerifyWords, StartRestoreProcess,
       FinishRestoreWords, RetryRestore, AskPassphrase, StoreMaster, StoreChain, UndoMaster, StoreXpub,
       CheckPubkey, DropChain, SetPassphraseFlag, At, LockInv, FreshInv, Shown, SetupScreens
  <2>2. CASE pc # "ui"
    BY <2>2 DEF SetupStep, StartMnemonicCeremony, StartVerification, VerifyWords, StartRestoreProcess,
       FinishRestoreWords, RetryRestore, AskPassphrase, StoreMaster, StoreChain, UndoMaster, StoreXpub,
       CheckPubkey, DropChain, SetPassphraseFlag, At, LockInv, FreshInv, StoreLabels
  <2> QED BY <2>1, <2>2
<1>3. ~HasPin'
  <2>1. \/ UNCHANGED keys
        \/ \E v : \E o \in {"BIP32_MASTER", "CHAIN_CODE", "HAS_PASSPHRASE"} : keys' = [keys EXCEPT ![o] = v]
    <3>1. CASE StoreMaster
      BY <3>1 DEF StoreMaster, SeStore
    <3>2. CASE StoreChain \/ UndoMaster \/ CheckPubkey \/ DropChain
      BY <3>2 DEF StoreChain, UndoMaster, CheckPubkey, DropChain, SeDelete, SeStore
    <3>3. CASE SetPassphraseFlag
      <4>1. UNCHANGED keys \/ keys' = [keys EXCEPT !["HAS_PASSPHRASE"] = seedJob.passphrase]
        BY <3>3, Zenon DEF SetPassphraseFlag, SeStore
      <4>2. "HAS_PASSPHRASE" \in {"BIP32_MASTER", "CHAIN_CODE", "HAS_PASSPHRASE"}
        OBVIOUS
      <4> QED BY <4>1, <4>2, Zenon
    <3>4. CASE \/ StartMnemonicCeremony \/ StartVerification \/ VerifyWords \/ StartRestoreProcess
               \/ FinishRestoreWords \/ RetryRestore \/ AskPassphrase \/ StoreXpub
      BY <3>4 DEF StartMnemonicCeremony, StartVerification, VerifyWords, StartRestoreProcess,
         FinishRestoreWords, RetryRestore, AskPassphrase, StoreXpub, seVars
    <3> QED BY <3>1, <3>2, <3>3, <3>4 DEF SetupStep
  <2> QED BY <1>0, <1>2, <2>1 DEF HasPin, SeObjects
<1>4. \/ pc' = "ui" /\ ui' \in SetupScreens \cup {"SE_ERROR"}
      \/ pc' \in StoreLabels
  BY DEF SetupStep, StartMnemonicCeremony, StartVerification, VerifyWords, StartRestoreProcess,
     FinishRestoreWords, RetryRestore, AskPassphrase, StoreMaster, StoreChain, UndoMaster, StoreXpub,
     CheckPubkey, DropChain, SetPassphraseFlag, Show, SetupScreens, StoreLabels
<1>5. pc \in StoreLabels \cup {"ui"}
  BY DEF SetupStep, StartMnemonicCeremony, StartVerification, VerifyWords, StartRestoreProcess,
     FinishRestoreWords, RetryRestore, AskPassphrase, StoreMaster, StoreChain, UndoMaster, StoreXpub,
     CheckPubkey, DropChain, SetPassphraseFlag, At, StoreLabels
<1> QED BY <1>1, <1>2, <1>3, <1>4, <1>5

LEMMA LockSetup == ASSUME NoFaults, TypeInv, SeedInv, LockInv, SetupStep PROVE LockInv'
BY SetupFacts DEF LockInv, EntryInv, FreshInv, WipeInv, CountInv, Shown, SetupScreens, StoreLabels

-----------------------------------------------------------------------------
LEMMA LockPin == ASSUME NoFaults, TypeInv, SeedInv, LockInv, PinStep PROVE LockInv'
<1> USE Calls DEF LockInv, pinFrame, seVars, nvsVars, setupVars, bootVars, ghostVars, At, Show, HasPin
<1>0. keys \in SeContents /\ counter \in 0..COUNTER_MAX /\ tries \in 0..PIN_MAX_ATTEMPTS
  BY DEF TypeInv, TypeOK
<1>1. CASE TypeDigit
  BY <1>1 DEF TypeDigit, EntryInv, FreshInv, WipeInv, CountInv, Shown
<1>2. ASSUME NEW p \in Pins, CreatePin(p) PROVE LockInv'
  <2>1. pc' = "resetAttempts" /\ tries' = 0 /\ UNCHANGED counter
    BY <1>2 DEF CreatePin
  <2> QED BY <1>0, <2>1, CounterAssumption DEF EntryInv, FreshInv, WipeInv, CountInv, StoreLabels
<1>3. ASSUME NEW p \in Pins, CountAttempt(p) PROVE LockInv'
  <2>1. pc = "ui" /\ Shown = "PIN_ENTRY" /\ Shown' = "PIN_ENTRY" /\ pc' = "verify"
        /\ UNCHANGED <<keys, proved>> /\ tries' = Saturate(tries)
    BY <1>3 DEF CountAttempt, Shown
  <2>2. IF LockedOut THEN UNCHANGED <<counter, pinAttempts>>
        ELSE Increment("ok") /\ pinAttempts' = counter'
    <3>1. PICK w \in Writes, r \in Reads :
            IF LockedOut
            THEN UNCHANGED <<counter, pinAttempts>>
            ELSE Increment(w) /\ pinAttempts' = AttemptsRead(r)
      BY <1>3 DEF CountAttempt
    <3>2. w = "ok" /\ r \in {TRUE}
      BY Zenon
    <3> QED BY <3>1, <3>2, Zenon DEF AttemptsRead
  <2>3. pinAttempts = counter /\ ~proved
    BY <2>1 DEF EntryInv
  <2>4. pinAttempts' = counter'
    BY <2>2, <2>3
  <2>5. tries <= counter => tries' <= counter'
    BY <1>0, <2>1, <2>2, <2>3, CounterAssumption, AttemptsAssumption DEF LockedOut, Increment, Saturate
  <2> QED BY <2>1, <2>3, <2>4, <2>5 DEF EntryInv, FreshInv, WipeInv, CountInv, StoreLabels
<1>4. CASE VerifyPin
  <2>1. pc = "verify" /\ Shown = "PIN_ENTRY" /\ Shown' = "PIN_ENTRY" /\ ~proved /\ pinAttempts = counter
        /\ UNCHANGED <<keys, counter, pinAttempts>>
    BY <1>4 DEF VerifyPin, EntryInv, Shown
  <2>2. \/ pc' = "resetAttempts" /\ tries' = 0
        \/ pc' = "wipe" /\ wipeJob' = ResetObjects /\ UNCHANGED <<proved, tries>>
        \/ pc' = "ui" /\ UNCHANGED <<proved, tries>>
    BY <1>4 DEF VerifyPin
  <2>3. WipeInv'
    <3>1. CASE pc' = "wipe" /\ wipeJob' = ResetObjects
      <4>1. 3 \in 1..Len(wipeJob') /\ wipeJob'[3] = "PIN_HASH"
            /\ \A i \in 1..3 : wipeJob'[i] # "PIN_COUNTER"
        BY <3>1 DEF ResetObjects
      <4> QED BY <4>1, Zenon DEF WipeInv
    <3> QED BY <2>2, <3>1 DEF WipeInv
  <2> QED BY <1>0, <2>1, <2>2, <2>3 DEF EntryInv, FreshInv, CountInv, StoreLabels, SetupScreens
<1>5. CASE ResetAttempts
  <2>1. tries' = 0 /\ counter' \in 0..COUNTER_MAX /\ pc' \in {"unlocked", "deviceId"}
    BY <1>0, <1>5, CounterType DEF ResetAttempts, EntryInv
  <2> QED BY <2>1, CounterAssumption DEF EntryInv, FreshInv, WipeInv, CountInv, StoreLabels
<1>6. CASE AskSessionPassphrase \/ EnterSessionPassphrase \/ EnterDeviceIdDisplay
  <2>1. UNCHANGED <<keys["PIN_HASH"], counter, tries>>
    BY <1>0, <1>6 DEF AskSessionPassphrase, EnterSessionPassphrase, EnterDeviceIdDisplay, openFrame, SeStore,
       SeContents
  <2>2. \/ pc' = "deviceId"
        \/ pc' = "ui" /\ ui' \in {"BOOT_PASSPHRASE", "DEVICE_ID_DISPLAY"}
    BY <1>6 DEF AskSessionPassphrase, EnterSessionPassphrase, EnterDeviceIdDisplay
  <2> QED BY <2>1, <2>2 DEF EntryInv, FreshInv, WipeInv, CountInv, Shown, SetupScreens, StoreLabels
<1> QED BY <1>1, <1>2, <1>3, <1>4, <1>5, <1>6 DEF PinStep

(* The open wallet has a PIN, and does not touch the counter.                 *)
LEMMA OpenFacts ==
  ASSUME NoFaults, TypeInv, SeedInv, OpenStep
  PROVE  /\ UNCHANGED <<counter, proved, tries>>
         /\ HasPin /\ HasPin'
         /\ (pc = "ui" /\ Shown \in OpenScreens) \/ pc \in {"sign", "signTemp"}
         /\ (pc' = "ui" /\ ui' \in OpenScreens) \/ pc' \in {"sign", "signTemp"}
<1> USE Calls DEF OpenStep, openFrame, pinFrame, changeFrame, signFrame, seVars, ghostVars, At, Show
<1>1. keys \in SeContents
  BY DEF TypeInv, TypeOK
<1>2. UNCHANGED <<counter, proved, tries>>
  BY DEF Navigate, SaveUserData, StartChangePin, EnterOldPin, EnterNewPin, ConfirmNewPin,
     StartSigning, StoreTempKey, DeleteTempKey, FinishSigning
<1>3. /\ (pc = "ui" /\ ui \in OpenScreens) \/ pc \in {"sign", "signTemp"}
      /\ (pc' = "ui" /\ ui' \in OpenScreens) \/ pc' \in {"sign", "signTemp"}
  <2>1. CASE Navigate
    <3>1. PICK l \in Links : l[1] = ui /\ ui' = l[2]
      BY <2>1 DEF Navigate
    <3>2. l[1] \in OpenScreens /\ l[2] \in OpenScreens
      BY DEF Links, OpenScreens, PinScreens, ResetScreens
    <3> QED BY <2>1, <3>1, <3>2 DEF Navigate
  <2>2. CASE ~Navigate
    BY <2>2 DEF SaveUserData, StartChangePin, EnterOldPin, EnterNewPin, ConfirmNewPin,
       StartSigning, StoreTempKey, DeleteTempKey, FinishSigning, OpenScreens, PinScreens
  <2> QED BY <2>1, <2>2
<1>5. (pc = "ui" /\ Shown \in OpenScreens) \/ pc \in {"sign", "signTemp"}
  BY <1>3, ScreensApart DEF Shown
<1>6. HasPin
  BY <1>5 DEF SeedInv, PinStage
<1>7. HasPin'
  <2>1. \/ UNCHANGED keys["PIN_HASH"]
        \/ \E p \in Pins : keys' = [keys EXCEPT !["PIN_HASH"] = p]
    BY <1>1 DEF Navigate, SaveUserData, StartChangePin, EnterOldPin, EnterNewPin, ConfirmNewPin,
       StartSigning, StoreTempKey, DeleteTempKey, FinishSigning, SeDelete, SeStore, SeContents
  <2> QED BY <1>1, <1>6, <2>1, NoneAssumption DEF HasPin, SeContents
<1> QED BY <1>2, <1>3, <1>5, <1>6, <1>7

LEMMA LockOpen == ASSUME NoFaults, TypeInv, SeedInv, LockInv, OpenStep PROVE LockInv'
BY OpenFacts, ScreensApart DEF LockInv, EntryInv, FreshInv, WipeInv, CountInv, Shown, LockScreens,
   StoreLabels

LEMMA LockWipe ==
  ASSUME NoFaults, TypeInv, SeedInv, LockInv, ConfirmFactoryReset \/ WipeNext \/ FinishWipe \/ ProvisionHash
  PROVE  LockInv'
<1> USE Calls DEF LockInv, HasPin, wipeFrame, seVars, nvsVars, setupVars, bootVars, pinVars, ghostVars, At, Show
<1>1. keys \in SeContents /\ counter \in 0..COUNTER_MAX /\ tries \in 0..PIN_MAX_ATTEMPTS
  BY DEF TypeInv, TypeOK
<1>2. CASE ConfirmFactoryReset
  <2>1. wipeJob' = ResetObjects \o ResetSpaces /\ pc' = "wipe" /\ UNCHANGED <<keys, counter, tries>>
    BY <1>2 DEF ConfirmFactoryReset
  <2>2. ResetSpaces \in Seq(WipeItems)
    BY DEF ResetSpaces, WipeItems, Namespaces
  <2>3. /\ ResetObjects \in Seq(WipeItems) /\ Len(ResetObjects) \in Nat /\ 3 \in 1..Len(ResetObjects)
        /\ ResetObjects[1] = "BIP32_MASTER" /\ ResetObjects[2] = "CHAIN_CODE" /\ ResetObjects[3] = "PIN_HASH"
    BY DEF ResetObjects, WipeItems, SeObjects
  <2>4. /\ 3 \in 1..Len(wipeJob') /\ wipeJob'[3] = "PIN_HASH"
        /\ wipeJob'[1] = "BIP32_MASTER" /\ wipeJob'[2] = "CHAIN_CODE"
    BY <2>1, <2>2, <2>3
  <2>5. WipeInv'
    <3>1. \A i \in 1..3 : wipeJob'[i] # "PIN_COUNTER"
      BY <2>4
    <3> QED BY <2>4, <3>1, Zenon DEF WipeInv
  <2> QED BY <2>1, <2>5 DEF EntryInv, FreshInv, CountInv, StoreLabels
<1>3. CASE WipeNext
  <2> DEFINE head == Head(wipeJob)
  <2>1. wipeJob \in Seq(WipeItems) /\ wipeJob # <<>> /\ wipeJob' = Tail(wipeJob)
        /\ pc = "wipe" /\ pc' = "wipe" /\ UNCHANGED tries
    BY <1>3 DEF WipeNext, TypeInv, TypeOK, WipeItems
  <2>2. \/ /\ head \in SeObjects /\ head # "PIN_COUNTER"
           /\ keys' = [keys EXCEPT ![head] = None] /\ UNCHANGED counter
        \/ /\ head = "PIN_COUNTER" /\ UNCHANGED keys
        \/ /\ head \notin SeObjects /\ head # "PIN_COUNTER" /\ UNCHANGED <<keys, counter>>
    BY <1>3 DEF WipeNext, SeDelete, SeStore, SeObjects, Namespaces
  <2>3. keys'["PIN_HASH"] = IF head = "PIN_HASH" THEN None ELSE keys["PIN_HASH"]
    BY <1>1, <2>2 DEF SeContents, SeObjects
  <2>4. CASE ~HasPin'
    BY <2>1, <2>4 DEF EntryInv, FreshInv, WipeInv, CountInv, StoreLabels
  <2>5. CASE HasPin'
    <3>1. HasPin /\ head # "PIN_HASH"
      BY <2>3, <2>5
    <3>2. PICK j \in 1..Len(wipeJob) :
            /\ wipeJob[j] = "PIN_HASH"
            /\ \A i \in 1..j : wipeJob[i] # "PIN_COUNTER"
      BY <2>1, <3>1 DEF WipeInv
    <3>3. j # 1 /\ head # "PIN_COUNTER"
      BY <2>1, <3>1, <3>2
    <3>4. j - 1 \in 1..Len(wipeJob') /\ wipeJob'[j - 1] = "PIN_HASH"
          /\ \A i \in 1..(j - 1) : wipeJob'[i] # "PIN_COUNTER"
      BY <2>1, <3>2, <3>3
    <3>5. WipeInv'
      BY <3>4, Zenon DEF WipeInv
    <3>6. CountInv'
      BY <2>1, <2>2, <3>1, <3>3 DEF CountInv
    <3> QED BY <2>1, <3>5, <3>6 DEF EntryInv, FreshInv, StoreLabels
  <2> QED BY <2>4, <2>5
<1>4. CASE FinishWipe
  BY <1>4 DEF FinishWipe, EntryInv, FreshInv, WipeInv, CountInv, Shown, SetupScreens, StoreLabels
<1>5. CASE ProvisionHash
  <2>1. UNCHANGED keys["PIN_HASH"]
    BY <1>1, <1>5 DEF ProvisionHash, SeStore, SeContents
  <2> QED BY <1>5, <2>1 DEF ProvisionHash, EntryInv, FreshInv, WipeInv, CountInv, Shown
<1> QED BY <1>2, <1>3, <1>4, <1>5

LEMMA LockStep == NoFaults => (TypeInv /\ SeedInv /\ LockInv /\ [Next]_vars => LockInv')
<1> SUFFICES ASSUME NoFaults, TypeInv, SeedInv, LockInv, [Next]_vars PROVE LockInv'
  OBVIOUS
<1>1. CASE Next
  BY <1>1, LockBoot, LockIdle, LockSetup, LockPin, LockOpen, LockWipe DEF Next
<1>2. CASE UNCHANGED vars
  BY <1>2 DEF vars, seVars, nvsVars, pinVars, setupVars, bootVars, ghostVars, LockInv, EntryInv, FreshInv,
     WipeInv, CountInv, Shown, HasPin
<1> QED BY <1>1, <1>2

LEMMA LockInvariance == ASSUME NoFaults PROVE Spec => []LockInv
<1>1. TypeInv /\ SeedInv /\ LockInv /\ [Next]_vars => LockInv'
  BY LockStep
<1> QED BY <1>1, LockInit, TypeInvariance, SeedInvariance, PTL DEF Spec

(* The counter in the SE has recorded every PIN that was tried, wherever      *)
(* power was cut: CountAttempt comes before VerifyPin, and a wipe resets the  *)
(* counter only behind the PIN.  Also for a counter that cannot be reset.     *)
THEOREM AlwaysAttemptsCounted == ASSUME NoFaults PROVE Spec => []AttemptsCounted
<1>1. LockInv => AttemptsCounted
  BY DEF LockInv, CountInv, AttemptsCounted
<1> QED BY <1>1, LockInvariance, PTL

(* Whichever way PIN_ENTRY was come to, the copy of the counter in RAM that   *)
(* decides about the wipe is that of the SE.                                  *)
THEOREM AlwaysPinAttemptsInSync == ASSUME NoFaults PROVE Spec => []PinAttemptsInSync
<1>1. LockInv => PinAttemptsInSync
  BY DEF LockInv, EntryInv, PinAttemptsInSync
<1> QED BY <1>1, LockInvariance, PTL

(* With the cells of pinDigits: a PIN screen is always ready for a digit.     *)
THEOREM AlwaysPinEntryReady == ASSUME NoFaults PROVE Spec => []PinEntryReady
BY AlwaysPinAttemptsInSync, AlwaysDigitIndexInBounds, PTL DEF PinEntryReady

-----------------------------------------------------------------------------
(* The refinement of PinLockout, action by action.                            *)

LockStable == UNCHANGED <<counter, LockPhase>> /\ pc # "verify" /\ pc' # "verify"

LEMMA Stutter == LockStable => UNCHANGED Lockout!vars
BY DEF LockStable, Lockout!vars

LEMMA Locks ==
  ASSUME NoFaults, SeedInv,
         \/ PowerLoss \/ WatchdogReset \/ Restart \/ Boot \/ RetrySe \/ LeaveWatchdogRecovery
         \/ StartScreensaver \/ LeaveScreensaver \/ AutoLock
  PROVE  Lockout!LoseSession \/ LockStable
<1> USE DEF HasPin, seVars, ghostVars
<1>1. CASE PowerLoss \/ WatchdogReset \/ Restart
  BY <1>1 DEF PowerLoss, WatchdogReset, Restart, LoseRam, LockPhase, Lockout!LoseSession
<1>2. CASE Boot
  BY <1>2 DEF Boot, Show, LockPhase, LockStable
<1>3. CASE RetrySe
  BY <1>3 DEF RetrySe, At, SeedInv, CalmSE
<1>4. CASE StartScreensaver \/ LeaveScreensaver
  BY <1>4 DEF StartScreensaver, LeaveScreensaver, idleFrame, At, Show, LockPhase, LockStable
<1>5. CASE LeaveWatchdogRecovery \/ AutoLock
  <2>1. pc = "ui" /\ pc' = "ui" /\ proved' = FALSE /\ UNCHANGED <<keys, counter>>
    BY <1>5 DEF LeaveWatchdogRecovery, AutoLock, EnterPinEntry, At, Show, SeedInv, CalmSE
  <2> QED BY <2>1 DEF LockPhase, Lockout!LoseSession
<1> QED BY <1>1, <1>2, <1>3, <1>4, <1>5

LEMMA Pays ==
  ASSUME NoFaults, TypeInv, SeedInv, LockInv, NEW p \in Pins, CountAttempt(p)
  PROVE  Lockout!Pay
<1> USE Calls DEF LockInv, HasPin
<1>1. counter \in 0..COUNTER_MAX
  BY DEF TypeInv, TypeOK
<1>2. pc = "ui" /\ Shown = "PIN_ENTRY" /\ pc' = "verify" /\ UNCHANGED <<keys, proved>>
  BY DEF CountAttempt, At, Shown
<1>3. IF LockedOut THEN UNCHANGED counter ELSE Increment("ok")
  <2>1. PICK w \in Writes : IF LockedOut THEN UNCHANGED counter ELSE Increment(w)
    BY DEF CountAttempt
  <2> QED BY <2>1
<1>4. pinAttempts = counter /\ ~proved
  BY <1>2 DEF EntryInv
<1>5. LockPhase \in {"none", "locked"} /\ UNCHANGED LockPhase
  BY <1>2, <1>4 DEF LockPhase
<1> QED BY <1>1, <1>2, <1>3, <1>4, <1>5, AttemptsAssumption, CounterAssumption
    DEF Lockout!Pay, LockedOut, Increment

LEMMA Decides ==
  ASSUME NoFaults, TypeInv, SeedInv, LockInv, VerifyPin
  PROVE  Lockout!Accept \/ Lockout!Reject \/ Lockout!StartWipe
<1> USE DEF LockInv, HasPin
<1>1. counter \in 0..COUNTER_MAX
  BY DEF TypeInv, TypeOK
<1>2. pc = "verify" /\ pinAttempts = counter /\ ~proved /\ UNCHANGED <<keys, counter>>
  BY DEF VerifyPin, EntryInv, seVars
<1>3. \/ HasPin /\ pc' = "resetAttempts" /\ proved' = TRUE
      \/ LockedOut /\ pc' = "wipe"
      \/ ~LockedOut /\ pc' = "ui" /\ UNCHANGED proved
  BY <1>2, Calls DEF VerifyPin, pin_verify, SeedInv, PinStage
<1>4. CASE HasPin /\ pc' = "resetAttempts" /\ proved' = TRUE
  BY <1>2, <1>4 DEF Lockout!Accept, LockPhase
<1>5. CASE LockedOut /\ pc' = "wipe"
  BY <1>1, <1>2, <1>5, AttemptsAssumption DEF Lockout!StartWipe, LockPhase, LockedOut
<1>6. CASE ~LockedOut /\ pc' = "ui" /\ UNCHANGED proved
  BY <1>1, <1>2, <1>6, AttemptsAssumption DEF Lockout!Reject, LockPhase, LockedOut
<1> QED BY <1>3, <1>4, <1>5, <1>6

LEMMA PinSteps ==
  ASSUME NoFaults, ~Atecc, TypeInv, SeedInv, AuthInv, LockInv, PinStep
  PROVE  Lockout!Next \/ LockStable
<1> USE Calls DEF LockInv, HasPin, seVars, ghostVars, pinFrame, openFrame, At, Show
<1>1. keys \in SeContents
  BY DEF TypeInv, TypeOK
<1>2. CASE TypeDigit
  BY <1>2 DEF TypeDigit, LockPhase, LockStable
<1>3. ASSUME NEW p \in Pins, CreatePin(p) PROVE Lockout!SetPin
  <2>1. pc = "ui" /\ Shown = "PIN_SETUP" /\ pc' = "resetAttempts" /\ proved' = TRUE
        /\ keys' = [keys EXCEPT !["PIN_HASH"] = p] /\ UNCHANGED counter
    BY <1>3 DEF CreatePin, SeStore, Shown
  <2>2. ~HasPin /\ HasPin'
    BY <1>1, <2>1, NoneAssumption DEF FreshInv, SetupScreens, SeContents
  <2> QED BY <2>1, <2>2 DEF LockPhase, Lockout!SetPin
<1>4. ASSUME NEW p \in Pins, CountAttempt(p) PROVE Lockout!Pay
  BY <1>4, Pays
<1>5. CASE VerifyPin
  BY <1>5, Decides DEF Lockout!Next
<1>6. CASE ResetAttempts
  <2>1. pc = "resetAttempts" /\ pc' \in {"unlocked", "deviceId"} /\ counter' = 0 /\ UNCHANGED <<keys, proved>>
    BY <1>6 DEF ResetAttempts, Reset
  <2>2. HasPin /\ proved
    BY <2>1 DEF SeedInv, PinStage, AuthInv, Passed, NoFaults
  <2> QED BY <2>1, <2>2, AttemptsAssumption DEF LockPhase, Lockout!Restore, Lockout!Next
<1>7. CASE AskSessionPassphrase \/ EnterSessionPassphrase \/ EnterDeviceIdDisplay
  <2>1. UNCHANGED <<keys["PIN_HASH"], counter, proved>>
    BY <1>1, <1>7 DEF AskSessionPassphrase, EnterSessionPassphrase, EnterDeviceIdDisplay, SeStore, SeContents
  <2>2. pc \in {"unlocked", "ui", "deviceId"} /\ pc' \in {"ui", "deviceId"}
    BY <1>7 DEF AskSessionPassphrase, EnterSessionPassphrase, EnterDeviceIdDisplay
  <2> QED BY <2>1, <2>2 DEF LockPhase, LockStable
<1> QED BY <1>2, <1>3, <1>4, <1>5, <1>6, <1>7 DEF PinStep, Lockout!Next

LEMMA Wipes ==
  ASSUME NoFaults, ~Atecc, TypeInv, SeedInv, AuthInv, LockInv,
         ConfirmFactoryReset \/ WipeNext \/ FinishWipe \/ ProvisionHash
  PROVE  Lockout!Next \/ LockStable
<1> USE Calls DEF LockInv, HasPin, seVars, ghostVars, wipeFrame, At, Show
<1>1. keys \in SeContents
  BY DEF TypeInv, TypeOK
<1>2. CASE ConfirmFactoryReset
  <2>1. HasPin /\ proved /\ pc = "ui" /\ pc' = "wipe" /\ UNCHANGED counter
    BY <1>2 DEF ConfirmFactoryReset, Shown, OpenScreens, ResetScreens, SeedInv, PinStage,
       AuthInv, Passed, NoFaults
  <2> QED BY <2>1 DEF LockPhase, Lockout!StartWipe, Lockout!Next
<1>3. CASE WipeNext
  <2>1. pc = "wipe" /\ pc' = "wipe" /\ (counter' = 0 \/ UNCHANGED counter)
    BY <1>3 DEF WipeNext, Reset
  <2> QED BY <2>1, AttemptsAssumption DEF LockPhase, LockStable, Lockout!Restore, Lockout!Next
<1>4. CASE FinishWipe
  <2>1. pc = "wipe" /\ wipeJob = <<>> /\ pc' = "ui" /\ UNCHANGED <<keys, counter>>
    BY <1>4 DEF FinishWipe
  <2>2. ~HasPin
    BY <2>1 DEF WipeInv
  <2> QED BY <2>1, <2>2 DEF LockPhase, Lockout!EndWipe, Lockout!Next
<1>5. CASE ProvisionHash
  BY <1>1, <1>5 DEF ProvisionHash, SeStore, SeContents, LockPhase, LockStable
<1> QED BY <1>2, <1>3, <1>4, <1>5

LEMMA LockoutInit == Init => Lockout!Init
BY AttemptsAssumption DEF Init, Lockout!Init, LockPhase, HasPin, SeObjects

LEMMA LockoutStep ==
  (NoFaults /\ ~Atecc) =>
    (TypeInv /\ SeedInv /\ AuthInv /\ LockInv /\ [Next]_vars => [Lockout!Next]_(Lockout!vars))
<1> SUFFICES ASSUME NoFaults, ~Atecc, TypeInv, SeedInv, AuthInv, LockInv, [Next]_vars
             PROVE  Lockout!Next \/ LockStable \/ UNCHANGED Lockout!vars
  BY Stutter
<1>1. CASE SetupStep
  BY <1>1, SetupFacts DEF LockPhase, LockStable, StoreLabels
<1>2. CASE OpenStep
  BY <1>2, OpenFacts DEF LockPhase, LockStable
<1>3. CASE UNCHANGED vars
  BY <1>3 DEF vars, seVars, ghostVars, Lockout!vars, LockPhase, HasPin
<1> QED BY <1>1, <1>2, <1>3, Locks, PinSteps, Wipes DEF Next, Lockout!Next

(* PIN_ENTRY implements a budget of attempts: one is paid for before its      *)
(* outcome is known, none is returned by a reset at any point, the last one   *)
(* that fails ends in a wipe, and only an unlocked wallet or a wipe returns   *)
(* them.                                                                      *)
THEOREM AlwaysPinLimitsAttempts == ASSUME NoFaults, ~Atecc PROVE Spec => PinLimitsAttempts
<1>1. TypeInv /\ SeedInv /\ AuthInv /\ LockInv /\ [Next]_vars => [Lockout!Next]_(Lockout!vars)
  BY LockoutStep
<1> QED BY <1>1, LockoutInit, TypeInvariance, SeedInvariance, AuthInvariance, LockInvariance, PTL
    DEF Spec, PinLimitsAttempts, Lockout!Spec

-----------------------------------------------------------------------------
(***************************************************************************)
(* What the owner of the wallet is promised, for all values of the         *)
(* constants, with an SE whose calls succeed and whose counter can be      *)
(* reset, and power that may fail between any two writes: the whole budget *)
(* of attempts after an unlock, a PIN that nobody else replaces, and a     *)
(* wiped device with nothing left of what the wipe lists.                  *)
(***************************************************************************)

(* From the reset of the counter to the next lock there is no attempt.        *)
BudgetInv ==
  /\ pc = "ui" /\ Shown \in OpenScreens => counter = 0
  /\ pc \in {"unlocked", "deviceId", "sign", "signTemp"} => counter = 0

Personal == SeObjects \ {"TEMP", "FW_HASH"}
ToDo(item) == \E i \in 1..Len(wipeJob) : wipeJob[i] = item

(* While a wipe runs, what is not gone yet is on its list.                    *)
GoneInv ==
  /\ pc = "wipe" => /\ \A o \in Personal : keys[o] = None \/ ToDo(o)
                    /\ counter = 0 \/ ToDo("PIN_COUNTER")
  /\ At("WALLET_WIPED") => (\A o \in Personal : keys[o] = None) /\ counter = 0

LockedInvs == TypeInv /\ AuthInv /\ SeedInv /\ LockInv

-----------------------------------------------------------------------------
LEMMA BudgetInit == Init => BudgetInv
BY DEF Init, BudgetInv

(* A step that ends in a handler or screen before the unlock.                 *)
LEMMA BudgetElsewhere ==
  ASSUME pc' \notin {"unlocked", "deviceId", "sign", "signTemp"}, pc' = "ui" => Shown' \notin OpenScreens
  PROVE  BudgetInv'
BY DEF BudgetInv

LEMMA BudgetStep == NoFaults /\ ~Atecc => (LockedInvs /\ BudgetInv /\ [Next]_vars => BudgetInv')
<1> SUFFICES ASSUME NoFaults, ~Atecc, LockedInvs, BudgetInv, [Next]_vars PROVE BudgetInv'
  OBVIOUS
<1> USE Calls, ScreenFacts DEF At, Show, LockedInvs
<1>1. CASE PowerLoss \/ WatchdogReset \/ Restart
  BY <1>1, BudgetElsewhere DEF PowerLoss, WatchdogReset, Restart, LoseRam
<1>2. CASE Boot
  <2>1. pc' = "ui" /\ ui' \in {"WATCHDOG_RECOVERY", "SE_ERROR", "PIN_ENTRY", "BOOT_MENU", "PIN_SETUP"}
    BY <1>2 DEF Boot, BootScreen
  <2> QED BY <2>1, BudgetElsewhere DEF Shown
<1>3. CASE RetrySe
  BY <1>3 DEF RetrySe, SeedInv, CalmSE
<1>4. CASE LeaveWatchdogRecovery \/ AutoLock
  <2>1. pc' = "ui" /\ ui' \in {"SE_ERROR", "PIN_ENTRY"}
    BY <1>4 DEF LeaveWatchdogRecovery, AutoLock, EnterPinEntry
  <2> QED BY <2>1, BudgetElsewhere DEF Shown
<1>5. CASE StartScreensaver \/ LeaveScreensaver
  <2>1. Shown' = Shown /\ pc = "ui" /\ pc' = "ui"
    BY <1>5 DEF StartScreensaver, LeaveScreensaver, Shown, TypeInv, TypeOK, IdleScreens, ResetScreens
  <2>2. UNCHANGED counter
    BY <1>5 DEF StartScreensaver, LeaveScreensaver, idleFrame, seVars
  <2> QED BY <2>1, <2>2 DEF BudgetInv
<1>6. CASE SetupStep
  <2>1. (pc' = "ui" /\ ui' \in SetupScreens \cup {"SE_ERROR"}) \/ pc' \in StoreLabels
    BY <1>6, SetupFacts
  <2> QED BY <2>1, BudgetElsewhere DEF Shown, StoreLabels, SetupScreens
<1>7. CASE PinStep
  <2> USE DEF pinFrame, openFrame, ghostVars
  <2>1. CASE TypeDigit
    BY <2>1, BudgetElsewhere DEF TypeDigit, Shown
  <2>2. CASE \E p \in Pins : CreatePin(p)
    BY <2>2, BudgetElsewhere DEF CreatePin, Shown
  <2>3. CASE \E p \in Pins : CountAttempt(p)
    BY <2>3, BudgetElsewhere DEF CountAttempt
  <2>4. CASE VerifyPin
    BY <2>4, BudgetElsewhere DEF VerifyPin, LockInv, EntryInv, Shown
  <2>5. CASE ResetAttempts
    BY <2>5 DEF ResetAttempts, Reset, BudgetInv
  <2>6. CASE AskSessionPassphrase \/ EnterSessionPassphrase \/ EnterDeviceIdDisplay
    <3>1. counter = 0
      BY <2>6, ScreensApart DEF AskSessionPassphrase, EnterSessionPassphrase, EnterDeviceIdDisplay, BudgetInv,
         Shown, OpenScreens
    <3>2. UNCHANGED counter
      BY <2>6 DEF AskSessionPassphrase, EnterSessionPassphrase, EnterDeviceIdDisplay
    <3> QED BY <3>1, <3>2 DEF BudgetInv
  <2> QED BY <1>7, <2>1, <2>2, <2>3, <2>4, <2>5, <2>6 DEF PinStep
<1>8. CASE OpenStep
  <2>1. /\ UNCHANGED counter
        /\ (pc = "ui" /\ Shown \in OpenScreens) \/ pc \in {"sign", "signTemp"}
    BY <1>8, OpenFacts
  <2> QED BY <2>1 DEF BudgetInv
<1>9. CASE ConfirmFactoryReset \/ WipeNext \/ FinishWipe
  BY <1>9, BudgetElsewhere DEF ConfirmFactoryReset, WipeNext, FinishWipe, Shown
<1>10. CASE ProvisionHash
  BY <1>10 DEF ProvisionHash, BudgetInv, Shown
<1>11. CASE UNCHANGED vars
  BY <1>11 DEF vars, seVars, BudgetInv, Shown
<1> QED BY <1>1, <1>2, <1>3, <1>4, <1>5, <1>6, <1>7, <1>8, <1>9, <1>10, <1>11 DEF Next

LEMMA LockedInvariance == ASSUME NoFaults PROVE Spec => []LockedInvs
BY TypeInvariance, AuthInvariance, SeedInvariance, LockInvariance, PTL DEF LockedInvs

(* Whoever comes to the main menu has all the attempts again: VerifyPin and   *)
(* CreatePin go there by pin_reset_attempts only, and nothing counts on the   *)
(* way, whatever power cuts and locks lie between (prd.json, US-017).         *)
THEOREM AlwaysUnlockRestoresAttempts ==
  ASSUME NoFaults, ~Atecc PROVE Spec => []UnlockRestoresAttempts
<1>1. BudgetInv => UnlockRestoresAttempts
  BY DEF BudgetInv, UnlockRestoresAttempts, At, Shown, OpenScreens
<1>2. LockedInvs /\ BudgetInv /\ [Next]_vars => BudgetInv'
  BY BudgetStep
<1> QED BY <1>1, <1>2, BudgetInit, LockedInvariance, PTL DEF Spec

-----------------------------------------------------------------------------
LEMMA GoneInit == Init => GoneInv
BY DEF Init, GoneInv, At

LEMMA GoneElsewhere ==
  ASSUME pc' # "wipe", ~At("WALLET_WIPED")'
  PROVE  GoneInv'
BY DEF GoneInv

(* Both wipes have every object of the user on their list, and the counter.   *)
LEMMA ResetListed ==
  ASSUME wipeJob' = ResetObjects \/ wipeJob' = ResetObjects \o ResetSpaces
  PROVE  (\A o \in Personal : ToDo(o)') /\ ToDo("PIN_COUNTER")'
<1>1. ResetObjects \in Seq(WipeItems) /\ ResetSpaces \in Seq(WipeItems) /\ Len(ResetObjects) = 7
      /\ Len(ResetSpaces) = 4
  BY DEF ResetObjects, ResetSpaces, WipeItems, SeObjects, Namespaces
<1>2. 1..7 \subseteq 1..Len(wipeJob') /\ \A i \in 1..7 : wipeJob'[i] = ResetObjects[i]
  <2>1. CASE wipeJob' = ResetObjects
    BY <1>1, <2>1
  <2>2. CASE wipeJob' = ResetObjects \o ResetSpaces
    <3>1. /\ Len(ResetObjects \o ResetSpaces) = Len(ResetObjects) + Len(ResetSpaces)
          /\ \A i \in 1..Len(ResetObjects) + Len(ResetSpaces) :
               (ResetObjects \o ResetSpaces)[i] =
                 IF i <= Len(ResetObjects) THEN ResetObjects[i] ELSE ResetSpaces[i - Len(ResetObjects)]
      BY <1>1, ConcatProperties
    <3> DEFINE both == ResetObjects \o ResetSpaces
    <3>2. Len(both) = 7 + 4
      <4> HIDE DEF both
      <4>1. Len(both) = Len(ResetObjects) + Len(ResetSpaces)
        BY <3>1, Zenon DEF both
      <4> QED BY <1>1, <4>1
    <3>3. \A i \in 1..7 : both[i] = ResetObjects[i]
      <4> HIDE DEF both
      <4>1. \A i \in 1..Len(ResetObjects) + Len(ResetSpaces) :
              both[i] = IF i <= Len(ResetObjects) THEN ResetObjects[i] ELSE ResetSpaces[i - Len(ResetObjects)]
        BY <3>1, Zenon DEF both
      <4> QED BY <1>1, <4>1
    <3>4. wipeJob' = both
      BY <2>2
    <3> HIDE DEF both
    <3>5. Len(wipeJob') = 7 + 4 /\ \A i \in 1..7 : wipeJob'[i] = ResetObjects[i]
      BY <3>2, <3>3, <3>4, Zenon
    <3>6. \A n : n = 7 + 4 => 1..7 \subseteq 1..n
      OBVIOUS
    <3> QED BY <3>5, <3>6, Zenon
  <2> QED BY <2>1, <2>2
<1>3. {1, 2, 3, 4, 5, 7} \subseteq 1..7
  OBVIOUS
<1>4. /\ wipeJob'[1] = "BIP32_MASTER" /\ wipeJob'[2] = "CHAIN_CODE" /\ wipeJob'[3] = "PIN_HASH"
      /\ wipeJob'[4] = "ANTI_PHISH" /\ wipeJob'[5] = "PIN_COUNTER" /\ wipeJob'[7] = "HAS_PASSPHRASE"
  BY <1>2, <1>3 DEF ResetObjects
<1>5. Personal = {"BIP32_MASTER", "CHAIN_CODE", "PIN_HASH", "ANTI_PHISH", "HAS_PASSPHRASE"}
  BY DEF Personal, SeObjects
<1> QED BY <1>2, <1>3, <1>4, <1>5, Zenon DEF ToDo

(* One entry of the list: it is carried out and taken off.                    *)
LEMMA GoneNext == ASSUME NoFaults, ~Atecc, TypeInv, GoneInv, WipeNext PROVE GoneInv'
<1> USE Calls
<1> DEFINE head == Head(wipeJob)
<1>1. /\ wipeJob \in Seq(WipeItems) /\ wipeJob # <<>> /\ wipeJob' = Tail(wipeJob)
      /\ pc = "wipe" /\ pc' = "wipe" /\ keys \in SeContents
  BY DEF WipeNext, TypeInv, TypeOK, WipeItems
<1>2. \/ head \in SeObjects /\ keys' = [keys EXCEPT ![head] = None] /\ UNCHANGED counter
      \/ head = "PIN_COUNTER" /\ UNCHANGED keys /\ counter' = 0
      \/ head \in Namespaces /\ UNCHANGED <<keys, counter>>
  BY DEF WipeNext, SeDelete, SeStore, Reset, seVars
<1>3. \A item : ToDo(item) => item = head \/ ToDo(item)'
  <2> SUFFICES ASSUME NEW item, ToDo(item), item # head PROVE ToDo(item)'
    OBVIOUS
  <2>1. PICK i \in 1..Len(wipeJob) : wipeJob[i] = item
    BY DEF ToDo
  <2>2. i # 1
    BY <1>1, <2>1
  <2>3. i - 1 \in 1..Len(wipeJob') /\ wipeJob'[i - 1] = item
    BY <1>1, <2>1, <2>2
  <2> QED BY <2>3, Zenon DEF ToDo
<1>4. \A o \in Personal : keys'[o] = None \/ ToDo(o)'
  <2> TAKE o \in Personal
  <2>1. o \in SeObjects /\ (keys[o] = None \/ o = head \/ ToDo(o)')
    BY <1>1, <1>3 DEF GoneInv, Personal
  <2>2. keys[o] = None => keys'[o] = None
    <3>1. o \in DOMAIN keys
      BY <1>1, <2>1 DEF SeContents, SeObjects
    <3> QED BY <1>2, <3>1
  <2>3. o = head => keys'[o] = None
    BY <1>1, <1>2, <2>1 DEF SeContents, SeObjects, Namespaces
  <2> QED BY <2>1, <2>2, <2>3
<1>5. counter' = 0 \/ ToDo("PIN_COUNTER")'
  <2>1. counter = 0 \/ head = "PIN_COUNTER" \/ ToDo("PIN_COUNTER")'
    BY <1>1, <1>3 DEF GoneInv
  <2>2. head = "PIN_COUNTER" => counter' = 0
    BY <1>2 DEF SeObjects, Namespaces
  <2>3. counter = 0 => counter' = 0
    BY <1>2
  <2> QED BY <2>1, <2>2, <2>3
<1> QED BY <1>1, <1>4, <1>5 DEF GoneInv, At

LEMMA GoneStep == NoFaults /\ ~Atecc => (LockedInvs /\ GoneInv /\ [Next]_vars => GoneInv')
<1> SUFFICES ASSUME NoFaults, ~Atecc, LockedInvs, GoneInv, [Next]_vars PROVE GoneInv'
  OBVIOUS
<1> USE Calls DEF At, Show, LockedInvs
<1>1. CASE PowerLoss \/ WatchdogReset \/ Restart
  BY <1>1, GoneElsewhere DEF PowerLoss, WatchdogReset, Restart, LoseRam
<1>2. CASE Boot
  BY <1>2, GoneElsewhere DEF Boot, BootScreen
<1>3. CASE RetrySe
  BY <1>3 DEF RetrySe, SeedInv, CalmSE
<1>4. CASE LeaveWatchdogRecovery \/ AutoLock
  BY <1>4, GoneElsewhere DEF LeaveWatchdogRecovery, AutoLock, EnterPinEntry
<1>5. CASE StartScreensaver \/ LeaveScreensaver
  BY <1>5, GoneElsewhere DEF StartScreensaver, LeaveScreensaver, TypeInv, TypeOK, IdleScreens, ResetScreens
<1>6. CASE SetupStep
  <2>1. (pc' = "ui" /\ ui' \in SetupScreens \cup {"SE_ERROR"}) \/ pc' \in StoreLabels
    BY <1>6, SetupFacts
  <2> QED BY <2>1, GoneElsewhere DEF StoreLabels, SetupScreens
<1>7. CASE PinStep
  <2>1. CASE VerifyPin
    <3>1. CASE pc' = "wipe"
      <4>1. wipeJob' = ResetObjects
        BY <2>1, <3>1 DEF VerifyPin
      <4>2. (\A o \in Personal : ToDo(o)') /\ ToDo("PIN_COUNTER")'
        BY <4>1, ResetListed
      <4> QED BY <3>1, <4>2 DEF GoneInv
    <3>2. CASE pc' # "wipe"
      <4>1. ui' # "WALLET_WIPED"
        BY <2>1 DEF VerifyPin, LockInv, EntryInv, SeedInv, PinStage, Shown, TypeInv, TypeOK, IdleScreens, ResetScreens
      <4> QED BY <3>2, <4>1, GoneElsewhere
    <3> QED BY <3>1, <3>2
  <2>2. CASE ~VerifyPin
    BY <1>7, <2>2, GoneElsewhere DEF PinStep, TypeDigit, CreatePin, CountAttempt, ResetAttempts,
       AskSessionPassphrase, EnterSessionPassphrase, EnterDeviceIdDisplay
  <2> QED BY <2>1, <2>2
<1>8. CASE OpenStep
  <2>1. (pc' = "ui" /\ ui' \in OpenScreens) \/ pc' \in {"sign", "signTemp"}
    BY <1>8, OpenFacts
  <2> QED BY <2>1, GoneElsewhere, ScreenFacts
<1>9. CASE ConfirmFactoryReset
  <2>1. pc' = "wipe" /\ wipeJob' = ResetObjects \o ResetSpaces
    BY <1>9 DEF ConfirmFactoryReset
  <2>2. (\A o \in Personal : ToDo(o)') /\ ToDo("PIN_COUNTER")'
    BY <2>1, ResetListed
  <2> QED BY <2>1, <2>2 DEF GoneInv
<1>10. CASE WipeNext
  BY <1>10, GoneNext
<1>11. CASE FinishWipe
  <2>1. wipeJob = <<>> /\ pc = "wipe" /\ pc' = "ui" /\ UNCHANGED <<keys, counter>>
    BY <1>11 DEF FinishWipe, seVars
  <2>2. \A item : ~ToDo(item)
    BY <2>1 DEF ToDo
  <2> QED BY <2>1, <2>2 DEF GoneInv
<1>12. CASE ProvisionHash
  <2>1. UNCHANGED <<counter, ui, pc>> /\ pc = "ui" /\ keys' = [keys EXCEPT !["FW_HASH"] = TRUE]
    BY <1>12 DEF ProvisionHash, SeStore
  <2>2. \A o \in Personal : keys'[o] = keys[o]
    <3>1. Personal \subseteq DOMAIN keys /\ "FW_HASH" \notin Personal
      BY DEF Personal, TypeInv, TypeOK, SeContents, SeObjects
    <3> QED BY <2>1, <3>1
  <2> QED BY <2>1, <2>2 DEF GoneInv
<1>13. CASE UNCHANGED vars
  BY <1>13 DEF vars, seVars, GoneInv, ToDo
<1> QED BY <1>1, <1>2, <1>3, <1>4, <1>5, <1>6, <1>7, <1>8, <1>9, <1>10, <1>11, <1>12, <1>13 DEF Next

(* WALLET WIPED is shown only over an element without a seed, a PIN, an       *)
(* identity, a passphrase flag or a counted attempt: both ways into           *)
(* wallet_factory_reset bring the whole list, and it is done to its end       *)
(* before the screen comes.  (The scratch key 0xF0 is not on that list.)      *)
THEOREM AlwaysWipedObjectsGone ==
  ASSUME NoFaults, ~Atecc PROVE Spec => []WipedObjectsGone
<1>1. GoneInv => WipedObjectsGone
  BY DEF GoneInv, WipedObjectsGone, Personal
<1>2. LockedInvs /\ GoneInv /\ [Next]_vars => GoneInv'
  BY GoneStep
<1> QED BY <1>1, <1>2, GoneInit, LockedInvariance, PTL DEF Spec
-----------------------------------------------------------------------------
PinKept == keys'["PIN_HASH"] \in {keys["PIN_HASH"], None}

(* Only CreatePin and ConfirmNewPin write PIN_HASH, the first on a device     *)
(* without a PIN.                                                             *)
LEMMA PinWriters ==
  ASSUME NoFaults, LockedInvs, [Next]_vars
  PROVE  PinKept \/ ~HasPin \/ \E p \in Pins : ConfirmNewPin(p)
<1> USE Calls DEF PinKept
<1>0. keys \in SeContents /\ DOMAIN keys = SeObjects
  BY DEF LockedInvs, TypeInv, TypeOK, SeContents, SeObjects
<1>a. ASSUME NEW o, NEW v, keys' = [keys EXCEPT ![o] = v], o # "PIN_HASH" \/ v = None
      PROVE  PinKept
  <2>1. "PIN_HASH" \in DOMAIN keys
    BY <1>0 DEF SeObjects
  <2> QED BY <1>a, <2>1
<1>1. CASE PowerLoss \/ WatchdogReset \/ Restart \/ Boot
  BY <1>1 DEF PowerLoss, WatchdogReset, Restart, Boot, LoseRam, seVars
<1>2. CASE RetrySe \/ LeaveWatchdogRecovery \/ AutoLock
  BY <1>2 DEF RetrySe, LeaveWatchdogRecovery, AutoLock, EnterPinEntry, seVars
<1>3. CASE StartScreensaver \/ LeaveScreensaver
  BY <1>3 DEF StartScreensaver, LeaveScreensaver, idleFrame, seVars
<1>4. CASE SetupStep
  BY <1>4, SetupFacts DEF LockedInvs
<1>5. CASE PinStep
  <2>1. CASE \E p \in Pins : CreatePin(p)
    BY <2>1 DEF CreatePin, At, Shown, SetupScreens, LockedInvs, LockInv, FreshInv
  <2>2. CASE EnterDeviceIdDisplay
    <3>1. UNCHANGED keys \/ \E id \in DeviceIds : keys' = [keys EXCEPT !["ANTI_PHISH"] = id]
      BY <2>2 DEF EnterDeviceIdDisplay, SeStore
    <3> QED BY <1>a, <3>1
  <2>3. CASE TypeDigit \/ (\E p \in Pins : CountAttempt(p)) \/ VerifyPin \/ ResetAttempts
    BY <2>3 DEF TypeDigit, CountAttempt, VerifyPin, ResetAttempts, seVars
  <2>4. CASE AskSessionPassphrase \/ EnterSessionPassphrase
    BY <2>4 DEF AskSessionPassphrase, EnterSessionPassphrase
  <2> QED BY <1>5, <2>1, <2>2, <2>3, <2>4 DEF PinStep
<1>6. CASE OpenStep
  <2>1. CASE StoreTempKey \/ DeleteTempKey
    <3>1. UNCHANGED keys \/ \E v : keys' = [keys EXCEPT !["TEMP"] = v]
      BY <2>1 DEF StoreTempKey, DeleteTempKey, SeStore, SeDelete
    <3> QED BY <1>a, <3>1
  <2>2. CASE Navigate \/ SaveUserData \/ StartChangePin \/ StartSigning \/ FinishSigning
    BY <2>2 DEF Navigate, SaveUserData, StartChangePin, StartSigning, FinishSigning, seVars
  <2>3. CASE (\E p \in Pins : EnterOldPin(p)) \/ \E p \in Pins : EnterNewPin(p)
    BY <2>3 DEF EnterOldPin, EnterNewPin
  <2> QED BY <1>6, <2>1, <2>2, <2>3 DEF OpenStep
<1>7. CASE ConfirmFactoryReset \/ FinishWipe
  BY <1>7 DEF ConfirmFactoryReset, FinishWipe, seVars
<1>8. CASE WipeNext
  <2>1. UNCHANGED keys \/ keys' = [keys EXCEPT ![Head(wipeJob)] = None]
    BY <1>8 DEF WipeNext, SeDelete, SeStore, seVars
  <2> QED BY <1>a, <2>1
<1>9. CASE ProvisionHash
  <2>1. UNCHANGED keys \/ keys' = [keys EXCEPT !["FW_HASH"] = TRUE]
    BY <1>9 DEF ProvisionHash, SeStore
  <2> QED BY <1>a, <2>1
<1>10. CASE UNCHANGED vars
  BY <1>10 DEF vars, seVars
<1> QED BY <1>1, <1>2, <1>3, <1>4, <1>5, <1>6, <1>7, <1>8, <1>9, <1>10 DEF Next

(* A PIN that is set is replaced by ConfirmNewPin only, which verifies the    *)
(* old one a second time and is open to whoever has unlocked the wallet; the  *)
(* setup that follows an interrupted wipe finds no PIN to replace.            *)
THEOREM AlwaysPinReplacedOnlyByOwner ==
  ASSUME NoFaults PROVE Spec => PinReplacedOnlyByOwner
<1> DEFINE Kept == LET new == keys'["PIN_HASH"]
                   IN  HasPin /\ new \notin {keys["PIN_HASH"], None}
                         => proved /\ changePin["old"] = keys["PIN_HASH"]
<1>1. LockedInvs /\ [Next]_vars => [Kept]_vars
  <2> SUFFICES ASSUME LockedInvs, [Next]_vars PROVE Kept
    OBVIOUS
  <2>1. CASE \E p \in Pins : ConfirmNewPin(p)
    <3>1. PICK p \in Pins : ConfirmNewPin(p)
      BY <2>1
    <3>2. Shown \in OpenScreens
      BY <3>1 DEF ConfirmNewPin, At, Shown, OpenScreens, PinScreens
    <3>3. proved
      BY <3>2 DEF NoFaults, LockedInvs, AuthInv, Passed
    <3>4. keys'["PIN_HASH"] = keys["PIN_HASH"] \/ changePin["old"] = keys["PIN_HASH"]
      BY <3>1, Calls DEF ConfirmNewPin, pin_verify
    <3> QED BY <3>3, <3>4
  <2>2. CASE PinKept \/ ~HasPin
    BY <2>2 DEF PinKept
  <2> QED BY <2>1, <2>2, PinWriters
<1>2. Spec => []LockedInvs
  BY LockedInvariance
<1> QED BY <1>1, <1>2, PTL DEF Spec, PinReplacedOnlyByOwner
================================================================================
