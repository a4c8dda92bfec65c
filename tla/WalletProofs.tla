-------------------------- MODULE WalletProofs --------------------------
(***************************************************************************)
(* Proofs about module Wallet, for all values of its constants: the types, *)
(* the lock, and the seed.  WalletLockoutProofs goes on from here.         *)
(***************************************************************************)
EXTENDS WalletProperties, TLAPS

-----------------------------------------------------------------------------
(***************************************************************************)
(* Type correctness of module Wallet, and that the seed is always derived  *)
(* from a whole mnemonic.  The two go together: the seed that is stored is *)
(* a value of its type only because the words it is made from are there.   *)
(***************************************************************************)

StoreLabels == {"storeChain", "undoMaster", "storeXpub", "checkPubkey", "dropChain", "setFlag"}

(* The words of a flow are held from its first screen to the store, and the   *)
(* seed from its first store to the last.                                     *)
SetupInv ==
  /\ Shown \in {"MNEMONIC_DISPLAY", "BIP39_VERIFY"} => words["new"] # None
  /\ ui = "RESTORE_PASSPHRASE" => words["restore"] # None
  /\ ui \in {"PASSPHRASE_PROMPT", "PASSPHRASE_ENTRY"} => words[JobFlow] # None
  /\ pc \in StoreLabels => seedJob \in Seeds

TypeInv == TypeOK /\ SetupInv

(* What an SE object may hold.                                                *)
Holds(obj, val) ==
  \/ val = None
  \/ obj \in {"BIP32_MASTER", "CHAIN_CODE"} /\ val \in Seeds
  \/ obj = "PIN_HASH" /\ val \in Pins
  \/ obj = "ANTI_PHISH" /\ val \in DeviceIds
  \/ obj \in {"FW_HASH", "TEMP"} /\ val = TRUE
  \/ obj = "HAS_PASSPHRASE" /\ val \in BOOLEAN

(* A write of the SE leaves its objects in their types.                       *)
LEMMA StoreType ==
  ASSUME keys \in SeContents, NEW obj \in SeObjects, NEW val, NEW w,
         Holds(obj, val), SeStore(obj, val, w)
  PROVE  keys' \in SeContents
<1>1. CASE keys' = keys
  BY <1>1
<1>2. CASE keys' = [keys EXCEPT ![obj] = val]
  BY <1>2 DEF SeContents, SeObjects, Holds
<1> QED BY <1>1, <1>2 DEF SeStore

LEMMA DeleteType ==
  ASSUME keys \in SeContents, NEW obj \in SeObjects, NEW w, SeDelete(obj, w)
  PROVE  keys' \in SeContents
BY StoreType DEF SeDelete, Holds

LEMMA CounterType ==
  ASSUME counter \in 0..COUNTER_MAX, NEW w, Increment(w) \/ Reset(w)
  PROVE  counter' \in 0..COUNTER_MAX
BY CounterAssumption, AttemptsAssumption DEF Increment, Reset

LEMMA TypeInit == Init => TypeInv
<1> SUFFICES ASSUME Init PROVE TypeInv
  OBVIOUS
<1>1. keys \in SeContents
  BY DEF Init, SeContents, SeObjects
<1>2. counter \in 0..COUNTER_MAX /\ pinAttempts \in 0..COUNTER_MAX
      /\ pinPosition \in 0..PIN_LEN /\ tries \in 0..PIN_MAX_ATTEMPTS
  BY LengthAssumption, AttemptsAssumption, CounterAssumption DEF Init
<1>3. ui \in Screens /\ pc \in Labels /\ screensaverPrevState \in IdleScreens
  BY DEF Init, Screens, SetupScreens, Labels, IdleScreens
<1>4. SetupInv
  BY DEF Init, SetupInv, Shown, StoreLabels
<1>5. wipeJob \in Seq(SeObjects \cup Namespaces \cup {"PIN_COUNTER"})
  BY DEF Init
<1>6. changePin \in [{"old", "new"} -> Pins \cup {None}] /\ words \in [Flows -> Mnemonics \cup {None}]
  BY DEF Init
<1> QED BY <1>1, <1>2, <1>3, <1>4, <1>5, <1>6 DEF Init, TypeInv, TypeOK

-----------------------------------------------------------------------------
LEMMA Zero == 0 \in 0..COUNTER_MAX /\ 0 \in 0..PIN_LEN /\ PIN_LEN \in 0..PIN_LEN
              /\ 0 \in 0..PIN_MAX_ATTEMPTS
BY LengthAssumption, AttemptsAssumption, CounterAssumption

LEMMA EnterPinEntryType ==
  ASSUME TypeInv, NEW r \in Reads, EnterPinEntry(r),
         seInitErr' \in {"OK", "LOCKED", "OFFLINE", "OTHER"}, seAvailable' \in BOOLEAN
  PROVE  TypeInv'
<1>1. TypeOK'
  BY Zero DEF TypeInv, TypeOK, EnterPinEntry, ClearDigits, Show, seVars, nvsVars, setupVars,
         Screens, LockScreens, Labels
<1>2. SetupInv'
  BY DEF TypeInv, SetupInv, EnterPinEntry, Show, Shown, StoreLabels
<1> QED BY <1>1, <1>2 DEF TypeInv

LEMMA BootType ==
  ASSUME TypeInv, PowerLoss \/ WatchdogReset \/ Restart \/ Boot \/ RetrySe \/ LeaveWatchdogRecovery
  PROVE  TypeInv'
<1> USE DEF Screens, SetupScreens, LockScreens, Labels
<1>1. CASE PowerLoss \/ WatchdogReset \/ Restart
  <2>1. LoseRam /\ wdtReset' \in BOOLEAN
    BY <1>1 DEF PowerLoss, WatchdogReset, Restart
  <2>2. wipeJob' \in Seq(SeObjects \cup Namespaces \cup {"PIN_COUNTER"})
    BY <2>1 DEF LoseRam
  <2>3. changePin' \in [{"old", "new"} -> Pins \cup {None}] /\ words' \in [Flows -> Mnemonics \cup {None}]
    BY <2>1 DEF LoseRam
  <2>4. TypeOK'
    BY <2>1, <2>2, <2>3, Zero
       DEF TypeInv, TypeOK, LoseRam, ClearDigits, seVars, nvsVars, IdleScreens
  <2>5. SetupInv'
    BY <2>1 DEF LoseRam, SetupInv, Shown, StoreLabels
  <2> QED BY <2>4, <2>5 DEF TypeInv
<1>2. CASE Boot
  <2>1. TypeOK'
    BY <1>2, Zero
       DEF TypeInv, TypeOK, Boot, BootScreen, InitErrors, Show, seVars, setupVars, ghostVars
  <2>2. SetupInv'
    BY <1>2 DEF TypeInv, Boot, BootScreen, Show, setupVars, SetupInv, Shown, StoreLabels
  <2> QED BY <2>1, <2>2 DEF TypeInv
<1>3. CASE RetrySe
  <2>1. PICK err \in InitErrors, set \in Reads, r \in Reads :
          /\ seInitErr' = err
          /\ seAvailable' = (err = "OK" \/ (DevBuild /\ err = "LOCKED"))
          /\ IF err = "OK" /\ pin_is_set(set)
             THEN EnterPinEntry(r)
             ELSE /\ Show(IF seAvailable' THEN "BOOT_MENU" ELSE "SE_ERROR")
                  /\ UNCHANGED <<seVars, nvsVars, pinVars, setupVars, screensaverPrevState,
                                 wipeJob, wdtReset, ghostVars>>
    BY <1>3 DEF RetrySe
  <2>2. seInitErr' \in {"OK", "LOCKED", "OFFLINE", "OTHER"} /\ seAvailable' \in BOOLEAN
    BY <2>1 DEF InitErrors
  <2>3. CASE EnterPinEntry(r)
    BY <2>2, <2>3, EnterPinEntryType
  <2>4. CASE /\ Show(IF seAvailable' THEN "BOOT_MENU" ELSE "SE_ERROR")
             /\ UNCHANGED <<seVars, nvsVars, pinVars, setupVars, screensaverPrevState,
                            wipeJob, wdtReset, ghostVars>>
    BY <2>2, <2>4 DEF Show, seVars, nvsVars, pinVars, setupVars, ghostVars, TypeInv, TypeOK,
                      SetupInv, Shown, StoreLabels
  <2> QED BY <2>1, <2>3, <2>4
<1>4. CASE LeaveWatchdogRecovery
  <2>1. CASE \E r \in Reads : EnterPinEntry(r)
    BY <1>4, <2>1, EnterPinEntryType DEF LeaveWatchdogRecovery, TypeInv, TypeOK
  <2>2. CASE ~seAvailable
    BY <1>4, <2>2 DEF LeaveWatchdogRecovery, Show, seVars, nvsVars, pinVars, setupVars,
       ghostVars, TypeInv, TypeOK, SetupInv, Shown, StoreLabels
  <2> QED BY <1>4, <2>1, <2>2 DEF LeaveWatchdogRecovery
<1> QED BY <1>1, <1>2, <1>3, <1>4

LEMMA IdleType ==
  ASSUME TypeInv, StartScreensaver \/ LeaveScreensaver \/ AutoLock
  PROVE  TypeInv'
<1> USE DEF seVars, nvsVars, pinVars, setupVars, bootVars, ghostVars, idleFrame
<1>1. CASE StartScreensaver
  BY <1>1 DEF StartScreensaver, Show, TypeInv, TypeOK, SetupInv, Shown, StoreLabels,
     Screens, Labels, IdleScreens, ResetScreens
<1>2. CASE LeaveScreensaver
  <2>1. screensaverPrevState \in Screens
    BY DEF TypeInv, TypeOK, IdleScreens, Screens, SetupScreens, LockScreens, OpenScreens
  <2>2. TypeOK'
    BY <1>2, <2>1 DEF LeaveScreensaver, At, Show, TypeInv, TypeOK, Labels
  <2>3. SetupInv'
    BY <1>2 DEF LeaveScreensaver, At, Show, TypeInv, TypeOK, SetupInv, Shown, StoreLabels,
       IdleScreens, ResetScreens
  <2> QED BY <2>2, <2>3 DEF TypeInv
<1>3. CASE AutoLock
  BY <1>3, EnterPinEntryType DEF AutoLock, TypeInv, TypeOK
<1> QED BY <1>1, <1>2, <1>3

-----------------------------------------------------------------------------
(* The screens of setup up to the seed's first store.                         *)
LEMMA CeremonyType ==
  ASSUME TypeInv,
         \/ StartMnemonicCeremony \/ StartVerification \/ VerifyWords
         \/ StartRestoreProcess \/ FinishRestoreWords \/ RetryRestore \/ AskPassphrase
  PROVE  TypeInv'
<1> USE DEF setupFrame, nvsVars, pinVars, ghostVars, seVars, setupVars, At, Show
<1>0. \A m \in Mnemonics : m # None
  BY NoneAssumption
<1>1. CASE StartMnemonicCeremony
  <2>1. PICK m \in Mnemonics \cup {None} :
          /\ words' = [words EXCEPT !["new"] = m]
          /\ \/ m # None /\ Show("MNEMONIC_DISPLAY")
             \/ Show("SE_ERROR")
    BY <1>0, <1>1 DEF StartMnemonicCeremony
  <2>2. seInitErr' \in {"OK", "LOCKED", "OFFLINE", "OTHER"} /\ seAvailable' \in BOOLEAN
    BY <1>1 DEF StartMnemonicCeremony, InitErrors, TypeInv, TypeOK
  <2>3. words' \in [Flows -> Mnemonics \cup {None}] /\ words'["new"] = m
    BY <2>1 DEF TypeInv, TypeOK, Flows
  <2>4. TypeOK'
    BY <1>1, <2>1, <2>2, <2>3 DEF StartMnemonicCeremony, TypeInv, TypeOK, Screens, SetupScreens,
       LockScreens, Labels
  <2>5. SetupInv'
    BY <2>1, <2>3 DEF SetupInv, Shown, StoreLabels
  <2> QED BY <2>4, <2>5 DEF TypeInv
<1>2. CASE StartVerification \/ RetryRestore
  BY <1>2 DEF StartVerification, RetryRestore, TypeInv, TypeOK, SetupInv, Shown, StoreLabels,
     Screens, SetupScreens, Labels
<1>3. CASE VerifyWords
  <2>1. TypeOK'
    <3>1. ui' \in {"PASSPHRASE_PROMPT", "MNEMONIC_DISPLAY"} /\ pc' = "ui"
      BY <1>3 DEF VerifyWords
    <3>2. passphraseIsNewWallet' \in BOOLEAN
      BY <1>3, Zenon DEF VerifyWords, TypeInv, TypeOK
    <3>3. UNCHANGED <<setupFrame, seVars, words, seedJob, seInitErr, seAvailable>>
      BY <1>3 DEF VerifyWords
    <3> QED BY <3>1, <3>2, <3>3 DEF TypeInv, TypeOK, Screens, SetupScreens, Labels
  <2>2. SetupInv'
    BY <1>3 DEF VerifyWords, TypeInv, SetupInv, Shown, JobFlow, StoreLabels
  <2> QED BY <2>1, <2>2 DEF TypeInv
<1>4. CASE StartRestoreProcess \/ FinishRestoreWords
  <2>1. words' \in [Flows -> Mnemonics \cup {None}]
    BY <1>4 DEF StartRestoreProcess, FinishRestoreWords, TypeInv, TypeOK
  <2>2. ui' \in {"BIP39_RESTORE", "RESTORE_PASSPHRASE", "RESTORE_ERROR", "BOOT_MENU"} /\ pc' = "ui"
    BY <1>4 DEF StartRestoreProcess, FinishRestoreWords
  <2>3. ui' = "RESTORE_PASSPHRASE" => words'["restore"] # None
    BY <1>0, <1>4 DEF StartRestoreProcess, FinishRestoreWords, TypeInv, TypeOK, Flows
  <2>4. TypeOK'
    BY <1>4, <2>1, <2>2 DEF StartRestoreProcess, FinishRestoreWords, TypeInv, TypeOK,
       Screens, SetupScreens, Labels
  <2>5. SetupInv'
    BY <2>2, <2>3 DEF SetupInv, Shown, StoreLabels
  <2> QED BY <2>4, <2>5 DEF TypeInv
<1>5. CASE AskPassphrase
  <2>1. TypeOK'
    <3>1. ui' = "PASSPHRASE_ENTRY" /\ pc' = "ui"
      BY <1>5 DEF AskPassphrase
    <3>2. passphraseIsNewWallet' \in BOOLEAN
      BY <1>5, Zenon DEF AskPassphrase, TypeInv, TypeOK
    <3>3. UNCHANGED <<setupFrame, seVars, words, seedJob, seInitErr, seAvailable>>
      BY <1>5 DEF AskPassphrase
    <3> QED BY <3>1, <3>2, <3>3 DEF TypeInv, TypeOK, Screens, SetupScreens, Labels
  <2>2. SetupInv'
    BY <1>5 DEF AskPassphrase, TypeInv, SetupInv, Shown, JobFlow, StoreLabels
  <2> QED BY <2>1, <2>2 DEF TypeInv
<1> QED BY <1>1, <1>2, <1>3, <1>4, <1>5

(* wallet_generate_seed and the flag.                                         *)
LEMMA SeedType ==
  ASSUME TypeInv,
         \/ StoreMaster \/ StoreChain \/ UndoMaster \/ StoreXpub
         \/ CheckPubkey \/ DropChain \/ SetPassphraseFlag
  PROVE  TypeInv'
<1> USE DEF seedFrame, setupFrame, nvsVars, pinVars, ghostVars, seVars, setupVars, bootVars
<1>0. SetupInv /\ TypeOK /\ keys \in SeContents
  BY DEF TypeInv, TypeOK
<1>1. CASE StoreMaster
  <2>1. words[JobFlow] \in Mnemonics
    BY <1>0, <1>1 DEF StoreMaster, SetupInv, TypeOK, JobFlow, Flows
  <2>2. seedJob' \in Seeds
    <3>1. PICK p \in BOOLEAN : seedJob' = [mnemonic |-> words[JobFlow], passphrase |-> p]
      BY <1>1 DEF StoreMaster
    <3> QED BY <2>1, <3>1 DEF Seeds
  <2>3. keys' \in SeContents
    <3>1. PICK w \in Writes : SeStore("BIP32_MASTER", seedJob', w)
      BY <1>1 DEF StoreMaster
    <3> QED BY <1>0, <2>2, <3>1, StoreType DEF Holds, SeObjects
  <2>4. TypeOK'
    BY <1>0, <1>1, <2>2, <2>3 DEF StoreMaster, TypeOK, Labels
  <2>5. SetupInv'
    BY <1>0, <1>1, <2>2 DEF StoreMaster, SetupInv, Shown, JobFlow
  <2> QED BY <2>4, <2>5 DEF TypeInv
<1>2. CASE StoreChain \/ UndoMaster \/ CheckPubkey \/ DropChain
  <2>1. seedJob \in Seeds /\ pc' \in StoreLabels
    BY <1>0, <1>2 DEF StoreChain, UndoMaster, CheckPubkey, DropChain, SetupInv, StoreLabels
  <2>2. keys' \in SeContents
    <3>1. CASE StoreChain
      BY <1>0, <2>1, <3>1, StoreType DEF StoreChain, Holds, SeObjects
    <3>2. CASE UndoMaster \/ CheckPubkey \/ DropChain
      BY <1>0, <3>2, DeleteType DEF UndoMaster, CheckPubkey, DropChain, SeObjects
    <3> QED BY <1>2, <3>1, <3>2
  <2>3. UNCHANGED <<seedFrame, counter, seedJob>>
    BY <1>2 DEF StoreChain, UndoMaster, CheckPubkey, DropChain
  <2>4. TypeOK'
    BY <1>0, <2>1, <2>2, <2>3 DEF TypeOK, StoreLabels, Labels
  <2>5. SetupInv'
    BY <1>0, <2>1, <2>3 DEF SetupInv, Shown, JobFlow
  <2> QED BY <2>4, <2>5 DEF TypeInv
<1>3. CASE StoreXpub
  <2>1. seedJob \in Seeds
    BY <1>0, <1>3 DEF StoreXpub, SetupInv, StoreLabels
  <2>2. TypeOK'
    BY <1>0, <1>3, <2>1 DEF StoreXpub, TypeOK, Labels
  <2>3. SetupInv'
    BY <1>0, <1>3, <2>1 DEF StoreXpub, SetupInv, Shown, JobFlow
  <2> QED BY <2>2, <2>3 DEF TypeInv
<1>4. CASE SetPassphraseFlag
  <2>1. seedJob.passphrase \in BOOLEAN
    BY <1>0, <1>4 DEF SetPassphraseFlag, SetupInv, StoreLabels, Seeds
  <2>2. keys' \in SeContents
    <3>1. PICK w \in Writes : SeStore("HAS_PASSPHRASE", seedJob.passphrase, w)
      BY <1>4 DEF SetPassphraseFlag
    <3> QED BY <1>0, <2>1, <3>1, StoreType DEF Holds, SeObjects
  <2>3. words' \in [Flows -> Mnemonics \cup {None}]
    BY <1>0, <1>4 DEF SetPassphraseFlag, TypeOK
  <2>4. TypeOK'
    BY <1>0, <1>4, <2>2, <2>3, Zero DEF SetPassphraseFlag, ClearDigits, Show, TypeOK, Labels,
       Screens, SetupScreens
  <2>5. SetupInv'
    BY <1>4 DEF SetPassphraseFlag, Show, SetupInv, Shown, StoreLabels
  <2> QED BY <2>4, <2>5 DEF TypeInv
<1> QED BY <1>1, <1>2, <1>3, <1>4

-----------------------------------------------------------------------------
WipeItems == SeObjects \cup Namespaces \cup {"PIN_COUNTER"}

LEMMA WipeJobType ==
  ResetObjects \in Seq(WipeItems) /\ ResetObjects \o ResetSpaces \in Seq(WipeItems)
<1>1. ResetObjects \in Seq(WipeItems)
  BY DEF ResetObjects, WipeItems, SeObjects
<1>2. ResetSpaces \in Seq(WipeItems)
  BY DEF ResetSpaces, WipeItems, Namespaces
<1> QED BY <1>1, <1>2

LEMMA PinType == ASSUME TypeInv, PinStep PROVE TypeInv'
<1> USE DEF pinFrame, nvsVars, setupVars, bootVars, ghostVars, seVars
<1>0. TypeOK /\ SetupInv /\ keys \in SeContents /\ counter \in 0..COUNTER_MAX
  BY DEF TypeInv, TypeOK
<1>1. CASE TypeDigit
  <2>1. pinPosition' \in 0..PIN_LEN
    BY <1>0, <1>1, LengthAssumption DEF TypeDigit, TypeOK
  <2> QED BY <1>0, <1>1, <2>1 DEF TypeDigit, TypeInv, TypeOK, SetupInv, Shown, JobFlow
<1>2. ASSUME NEW p \in Pins, CreatePin(p) PROVE TypeInv'
  <2>1. keys' \in SeContents
    BY <1>0, <1>2, StoreType DEF CreatePin, Holds, SeObjects
  <2>2. proved' \in BOOLEAN /\ tries' \in 0..PIN_MAX_ATTEMPTS
    BY <1>0, <1>2, Zero DEF CreatePin, TypeOK
  <2>3. pc' \in {"ui", "resetAttempts"} /\ pinPosition' \in 0..PIN_LEN /\ pinDigits' \in Pins \cup {None}
    BY <1>2, Zero DEF CreatePin, ClearDigits
  <2>4. UNCHANGED <<pinFrame, counter, ui, pinAttempts, wipeJob>>
    BY <1>2 DEF CreatePin
  <2> QED BY <1>0, <2>1, <2>2, <2>3, <2>4 DEF TypeInv, TypeOK, SetupInv, Shown, JobFlow, Labels, StoreLabels
<1>3. ASSUME NEW p \in Pins, CountAttempt(p) PROVE TypeInv'
  <2>1. counter' \in 0..COUNTER_MAX /\ pinAttempts' \in 0..COUNTER_MAX
    BY <1>0, <1>3, CounterType, Zero DEF CountAttempt, AttemptsRead, TypeOK
  <2>2. tries' \in 0..PIN_MAX_ATTEMPTS
    BY <1>0, <1>3, AttemptsAssumption DEF CountAttempt, Saturate, TypeOK
  <2>3. pc' = "verify" /\ pinPosition' = PIN_LEN /\ pinDigits' = p
    BY <1>3 DEF CountAttempt
  <2>4. UNCHANGED <<pinFrame, keys, ui, wipeJob, proved>>
    BY <1>3 DEF CountAttempt
  <2> QED BY <1>0, <2>1, <2>2, <2>3, <2>4, Zero DEF TypeInv, TypeOK, SetupInv, Shown, JobFlow, Labels, StoreLabels
<1>4. CASE VerifyPin
  <2>1. wipeJob' \in Seq(SeObjects \cup Namespaces \cup {"PIN_COUNTER"})
    BY <1>0, <1>4, WipeJobType DEF VerifyPin, TypeOK, WipeItems
  <2>2. pc' \in {"ui", "wipe", "resetAttempts"} /\ pinPosition' \in 0..PIN_LEN
        /\ pinDigits' \in Pins \cup {None}
    BY <1>0, <1>4, Zero DEF VerifyPin, ClearDigits, TypeOK
  <2>3. proved' \in BOOLEAN /\ tries' \in 0..PIN_MAX_ATTEMPTS
    BY <1>0, <1>4, Zero DEF VerifyPin, TypeOK
  <2>4. UNCHANGED <<pinFrame, seVars, ui, pinAttempts>>
    BY <1>4 DEF VerifyPin
  <2> QED BY <1>0, <2>1, <2>2, <2>3, <2>4 DEF TypeInv, TypeOK, SetupInv, Shown, JobFlow, Labels, StoreLabels
<1>5. CASE ResetAttempts
  <2>1. counter' \in 0..COUNTER_MAX
    BY <1>0, <1>5, CounterType DEF ResetAttempts
  <2> QED BY <1>0, <1>5, <2>1, Zero DEF ResetAttempts, TypeInv, TypeOK, SetupInv, Shown, JobFlow,
             Labels, StoreLabels
<1>6. CASE AskSessionPassphrase
  <2>1. passphraseIsNewWallet' \in BOOLEAN
    BY <1>0, <1>6, Zenon DEF AskSessionPassphrase, TypeOK
  <2>2. \/ ui' = "BOOT_PASSPHRASE" /\ pc' = "ui"
        \/ pc' = "deviceId" /\ UNCHANGED <<ui, passphraseIsNewWallet>>
    BY <1>6 DEF AskSessionPassphrase, Show
  <2>3. UNCHANGED <<nvsVars, changePin, words, seedJob, bootVars, screensaverPrevState,
                   keys, counter, pinAttempts, pinPosition, pinDigits, wipeJob, ghostVars>>
    BY <1>6 DEF AskSessionPassphrase
  <2>4. TypeOK'
    BY <1>0, <2>1, <2>2, <2>3 DEF TypeOK, Labels, Screens, OpenScreens
  <2>5. SetupInv'
    BY <1>0, <2>2, <2>3 DEF SetupInv, Shown, JobFlow, StoreLabels
  <2> QED BY <2>4, <2>5 DEF TypeInv
<1>7. CASE EnterSessionPassphrase
  BY <1>0, <1>7 DEF EnterSessionPassphrase, At, openFrame, TypeInv, TypeOK, SetupInv, Shown, JobFlow,
     Labels, StoreLabels
<1>8. CASE EnterDeviceIdDisplay
  <2>1. keys' \in SeContents
    BY <1>0, <1>8, StoreType DEF EnterDeviceIdDisplay, Holds, SeObjects
  <2> QED BY <1>0, <1>8, <2>1 DEF EnterDeviceIdDisplay, Show, openFrame, TypeInv, TypeOK, SetupInv,
             Shown, StoreLabels, Labels, Screens, OpenScreens
<1> QED BY <1>1, <1>2, <1>3, <1>4, <1>5, <1>6, <1>7, <1>8 DEF PinStep

LEMMA OpenType == ASSUME TypeInv, OpenStep PROVE TypeInv'
<1> USE DEF openFrame, pinFrame, nvsVars, setupVars, bootVars, ghostVars, seVars, pinVars, At, Show
<1>0. TypeOK /\ SetupInv /\ keys \in SeContents
  BY DEF TypeInv, TypeOK
<1>1. CASE Navigate
  <2>1. ui' \in OpenScreens /\ ui' # "SCREENSAVER" /\ pc' = "ui"
    BY <1>1 DEF Navigate, Links, OpenScreens, PinScreens, ResetScreens
  <2>2. UNCHANGED <<openFrame, keys>>
    BY <1>1 DEF Navigate
  <2>3. TypeOK'
    BY <1>0, <2>1, <2>2 DEF TypeOK, Screens, Labels
  <2>4. SetupInv'
    BY <2>1 DEF SetupInv, Shown, StoreLabels, OpenScreens, PinScreens, ResetScreens
  <2> QED BY <2>3, <2>4 DEF TypeInv
<1>2. CASE SaveUserData
  <2>1. nvs' \in SUBSET Namespaces
    BY <1>0, <1>2, UserDataAssumption DEF SaveUserData, TypeOK
  <2> QED BY <1>0, <1>2, <2>1 DEF SaveUserData, TypeInv, TypeOK, SetupInv, Shown, JobFlow
<1>3. CASE StartChangePin \/ \E p \in Pins : EnterOldPin(p) \/ EnterNewPin(p) \/ ConfirmNewPin(p)
  <2>1. keys' \in SeContents
    <3>1. CASE UNCHANGED keys
      BY <1>0, <3>1
    <3>2. CASE \E p \in Pins, w \in Writes : SeStore("PIN_HASH", p, w)
      BY <1>0, <3>2, StoreType DEF Holds, SeObjects
    <3> QED BY <1>3, <3>1, <3>2 DEF StartChangePin, EnterOldPin, EnterNewPin, ConfirmNewPin
  <2>2. changePin' \in [{"old", "new"} -> Pins \cup {None}]
    BY <1>0, <1>3 DEF StartChangePin, EnterOldPin, EnterNewPin, ConfirmNewPin, TypeOK
  <2>3. ui' \in PinScreens \cup {"SETTINGS_MENU"} /\ pc' = "ui"
    BY <1>3 DEF StartChangePin, EnterOldPin, EnterNewPin, ConfirmNewPin, PinScreens
  <2>4. UNCHANGED changeFrame
    BY <1>3 DEF StartChangePin, EnterOldPin, EnterNewPin, ConfirmNewPin
  <2>5. TypeOK'
    BY <1>0, <2>1, <2>2, <2>3, <2>4 DEF changeFrame, TypeOK, Screens, OpenScreens, Labels
  <2>6. SetupInv'
    BY <2>3 DEF SetupInv, Shown, StoreLabels, PinScreens
  <2> QED BY <2>5, <2>6 DEF TypeInv
<1>4. CASE StartSigning \/ FinishSigning
  BY <1>0, <1>4 DEF StartSigning, FinishSigning, signFrame, TypeInv, TypeOK, SetupInv, Shown, JobFlow,
     StoreLabels, Labels, Screens, OpenScreens
<1>5. CASE StoreTempKey \/ DeleteTempKey
  <2>1. keys' \in SeContents
    <3>1. CASE StoreTempKey
      BY <1>0, <3>1, StoreType DEF StoreTempKey, Holds, SeObjects
    <3>2. CASE DeleteTempKey
      BY <1>0, <3>2, DeleteType DEF DeleteTempKey, SeObjects
    <3> QED BY <1>5, <3>1, <3>2
  <2>2. pc' \in {"sign", "signTemp"} /\ UNCHANGED <<signFrame, signingActive>>
    BY <1>5 DEF StoreTempKey, DeleteTempKey
  <2> QED BY <1>0, <2>1, <2>2 DEF signFrame, TypeInv, TypeOK, SetupInv, Shown, JobFlow, StoreLabels, Labels
<1> QED BY <1>1, <1>2, <1>3, <1>4, <1>5 DEF OpenStep

LEMMA WipeType ==
  ASSUME TypeInv, ConfirmFactoryReset \/ WipeNext \/ FinishWipe \/ ProvisionHash
  PROVE  TypeInv'
<1> USE DEF wipeFrame, nvsVars, setupVars, bootVars, ghostVars, seVars, pinVars, Show
<1>0. TypeOK /\ SetupInv /\ keys \in SeContents /\ counter \in 0..COUNTER_MAX
  BY DEF TypeInv, TypeOK
<1>1. CASE ConfirmFactoryReset
  <2>1. wipeJob' \in Seq(SeObjects \cup Namespaces \cup {"PIN_COUNTER"})
    BY <1>1, WipeJobType DEF ConfirmFactoryReset, WipeItems
  <2> QED BY <1>0, <1>1, <2>1 DEF ConfirmFactoryReset, At, TypeInv, TypeOK, SetupInv, Shown, JobFlow,
             StoreLabels, Labels
<1>2. CASE WipeNext
  <2>1. wipeJob' \in Seq(SeObjects \cup Namespaces \cup {"PIN_COUNTER"})
    BY <1>0, <1>2 DEF WipeNext, TypeOK
  <2>2. PICK w \in Writes :
          \/ /\ Head(wipeJob) \in SeObjects
             /\ SeDelete(Head(wipeJob), w)
             /\ UNCHANGED <<counter, nvs>>
          \/ Reset(w) /\ UNCHANGED <<keys, nvs>>
          \/ nvs' = nvs \ {Head(wipeJob)} /\ UNCHANGED seVars
    BY <1>2 DEF WipeNext
  <2>3. keys' \in SeContents
    BY <1>0, <2>2, DeleteType
  <2>4. counter' \in 0..COUNTER_MAX
    BY <1>0, <2>2, CounterType
  <2>5. nvs' \in SUBSET Namespaces
    BY <1>0, <2>2 DEF TypeOK
  <2>6. UNCHANGED <<wipeFrame, ui, pc, ghostVars>>
    BY <1>2 DEF WipeNext
  <2> QED BY <1>0, <2>1, <2>3, <2>4, <2>5, <2>6 DEF TypeInv, TypeOK, SetupInv, Shown, JobFlow
<1>3. CASE FinishWipe
  BY <1>0, <1>3 DEF FinishWipe, TypeInv, TypeOK, SetupInv, Shown, StoreLabels, Labels, Screens, LockScreens
<1>4. CASE ProvisionHash
  <2>1. keys' \in SeContents
    BY <1>0, <1>4, StoreType DEF ProvisionHash, Holds, SeObjects
  <2> QED BY <1>0, <1>4, <2>1 DEF ProvisionHash, TypeInv, TypeOK, SetupInv, Shown, JobFlow
<1> QED BY <1>1, <1>2, <1>3, <1>4

-----------------------------------------------------------------------------
LEMMA TypeStep == TypeInv /\ [Next]_vars => TypeInv'
<1> SUFFICES ASSUME TypeInv, [Next]_vars PROVE TypeInv'
  OBVIOUS
<1>1. CASE Next
  BY <1>1, BootType, IdleType, CeremonyType, SeedType, PinType, OpenType, WipeType
     DEF Next, SetupStep
<1>2. CASE UNCHANGED vars
  BY <1>2 DEF vars, seVars, nvsVars, pinVars, setupVars, bootVars, ghostVars,
     TypeInv, TypeOK, SetupInv, Shown, JobFlow
<1> QED BY <1>1, <1>2

LEMMA TypeInvariance == Spec => []TypeInv
BY TypeInit, TypeStep, PTL DEF Spec

(* Every variable stays in its type: the attempt counter and its copy never   *)
(* pass the width of the SE counter (pin_increment_attempts), the position    *)
(* never passes the six cells of pinDigits (handleNavigation).                *)
THEOREM TypeCorrect == Spec => []TypeOK
BY TypeInvariance, PTL DEF TypeInv

(* wallet_generate_seed is never called with words that are not there,        *)
(* whichever of the setup flows, aborts and failures came before it.          *)
THEOREM AlwaysMnemonicReady == Spec => []MnemonicReady
<1>1. TypeInv => MnemonicReady
  BY DEF TypeInv, SetupInv, MnemonicReady
<1> QED BY <1>1, TypeInvariance, PTL

-----------------------------------------------------------------------------
(***************************************************************************)
(* Proofs about the lock of module Wallet, for all values of its           *)
(* constants: the PIN comes before the open wallet, and the digits typed   *)
(* stay within their array.                                                *)
(***************************************************************************)

(* Who has come past the PIN: a PIN is proved, or the SE of a DEV_BUILD said   *)
(* at start that it is not provisioned, and a call of it failed since.        *)
Passed == proved \/ (DevBuild /\ SeFaults /\ seInitErr = "LOCKED")

(* That is so before a handler of the open wallet runs, not only before a     *)
(* screen of it is shown.                                                     *)
AuthInv ==
  /\ Shown \in OpenScreens => Passed
  /\ pc \in {"resetAttempts", "unlocked", "deviceId", "sign", "signTemp"} => Passed

LEMMA ScreenFacts ==
  /\ "SCREENSAVER" \notin OpenScreens
  /\ "PIN_ENTRY" \notin OpenScreens /\ "PIN_SETUP" \notin OpenScreens
  /\ "SE_ERROR" \notin OpenScreens /\ "BOOT_MENU" \notin OpenScreens
  /\ "WATCHDOG_RECOVERY" \notin OpenScreens /\ "WALLET_WIPED" \notin OpenScreens
  /\ SetupScreens \cap OpenScreens = {}
BY DEF OpenScreens, PinScreens, ResetScreens, SetupScreens

LEMMA AuthInit == Init => AuthInv
BY ScreenFacts DEF Init, AuthInv, Passed, Shown

(* Boot, recovery and the idle timers.                                        *)
LEMMA AuthBoot ==
  ASSUME AuthInv,
         PowerLoss \/ WatchdogReset \/ Restart \/ Boot \/ RetrySe \/ LeaveWatchdogRecovery
           \/ StartScreensaver \/ LeaveScreensaver \/ AutoLock
  PROVE  AuthInv'
<1>1. CASE PowerLoss \/ WatchdogReset \/ Restart
  BY <1>1, ScreenFacts DEF PowerLoss, WatchdogReset, Restart, LoseRam, AuthInv, Passed, Shown
<1>2. CASE Boot
  BY <1>2, ScreenFacts DEF Boot, BootScreen, Show, AuthInv, Passed, Shown
<1>3. CASE RetrySe
  BY <1>3, ScreenFacts DEF RetrySe, EnterPinEntry, Show, AuthInv, Passed, Shown, At, SetupScreens
<1>4. CASE LeaveWatchdogRecovery
  BY <1>4, ScreenFacts DEF LeaveWatchdogRecovery, EnterPinEntry, Show, AuthInv, Passed, Shown
<1>5. CASE StartScreensaver
  BY <1>5, ScreenFacts DEF StartScreensaver, Show, AuthInv, Passed, Shown, idleFrame, bootVars,
     ghostVars, IdleScreens, ResetScreens
<1>6. CASE LeaveScreensaver
  BY <1>6, ScreenFacts DEF LeaveScreensaver, Show, At, AuthInv, Passed, Shown, idleFrame, bootVars, ghostVars
<1>7. CASE AutoLock
  BY <1>7, ScreenFacts DEF AutoLock, EnterPinEntry, Show, AuthInv, Passed, Shown
<1> QED BY <1>1, <1>2, <1>3, <1>4, <1>5, <1>6, <1>7

(* Setup: none of its screens is open, and the seed's handler stays on them.  *)
LEMMA AuthSetup == ASSUME AuthInv, SetupStep PROVE AuthInv'
<1>1. CASE StartMnemonicCeremony \/ StartVerification \/ VerifyWords
  BY <1>1, ScreenFacts DEF StartMnemonicCeremony, StartVerification, VerifyWords,
     setupFrame, ghostVars, Show, At, AuthInv, Passed, Shown, SetupScreens
<1>2. CASE StartRestoreProcess \/ FinishRestoreWords \/ RetryRestore \/ AskPassphrase
  BY <1>2, ScreenFacts DEF StartRestoreProcess, FinishRestoreWords, RetryRestore,
     AskPassphrase, setupFrame, ghostVars, Show, At, AuthInv, Passed, Shown, SetupScreens
<1>3. CASE StoreMaster \/ StoreChain \/ UndoMaster \/ StoreXpub \/ CheckPubkey \/ DropChain
  BY <1>3 DEF StoreMaster, StoreChain, UndoMaster, StoreXpub, CheckPubkey, DropChain,
     seedFrame, setupFrame, bootVars, ghostVars, AuthInv, Passed, Shown
<1>4. CASE SetPassphraseFlag
  BY <1>4, ScreenFacts DEF SetPassphraseFlag, Show, AuthInv, Passed, Shown
<1> QED BY <1>1, <1>2, <1>3, <1>4 DEF SetupStep

(* PIN creation and PIN entry: the two places where a PIN is proved, and the  *)
(* handlers that run after them.                                              *)
LEMMA AuthPin == ASSUME AuthInv, PinStep PROVE AuthInv'
<1> USE DEF pinFrame, bootVars, ghostVars
<1>1. CASE TypeDigit
  BY <1>1 DEF TypeDigit, AuthInv, Passed, Shown
<1>2. ASSUME NEW p \in Pins, CreatePin(p) PROVE AuthInv'
  BY <1>2, ScreenFacts DEF CreatePin, Writes, At, AuthInv, Passed, Shown
<1>3. ASSUME NEW p \in Pins, CountAttempt(p) PROVE AuthInv'
  BY <1>3 DEF CountAttempt, At, AuthInv, Passed, Shown
<1>4. CASE VerifyPin
  BY <1>4 DEF VerifyPin, AuthInv, Passed, Shown
<1>5. CASE ResetAttempts
  BY <1>5 DEF ResetAttempts, AuthInv, Passed, Shown
<1>6. CASE AskSessionPassphrase
  BY <1>6 DEF AskSessionPassphrase, Show, AuthInv, Passed, Shown
<1>7. CASE EnterSessionPassphrase
  BY <1>7 DEF EnterSessionPassphrase, At, openFrame, AuthInv, Passed, Shown, OpenScreens
<1>8. CASE EnterDeviceIdDisplay
  BY <1>8 DEF EnterDeviceIdDisplay, Show, openFrame, AuthInv, Passed, Shown
<1> QED BY <1>1, <1>2, <1>3, <1>4, <1>5, <1>6, <1>7, <1>8 DEF PinStep

(* The open wallet: every step starts from one of its screens.                *)
LEMMA AuthOpen == ASSUME AuthInv, OpenStep PROVE AuthInv'
<1> USE DEF bootVars, ghostVars
<1>1. CASE Navigate
  <2>1. PICK l \in Links : l[1] = ui /\ Show(l[2])
    BY <1>1 DEF Navigate
  <2>2. l[1] \in OpenScreens /\ l[1] # "SCREENSAVER"
    BY DEF Links, OpenScreens, PinScreens, ResetScreens
  <2> QED BY <1>1, <2>1, <2>2 DEF Navigate, Show, openFrame, pinFrame, AuthInv, Passed, Shown
<1>2. CASE SaveUserData \/ StartChangePin
  BY <1>2 DEF SaveUserData, StartChangePin, changeFrame, Show, At, AuthInv, Passed, Shown, OpenScreens
<1>3. ASSUME NEW p \in Pins, EnterOldPin(p) \/ EnterNewPin(p) \/ ConfirmNewPin(p)
      PROVE  AuthInv'
  <2>1. Shown \in OpenScreens
    BY <1>3 DEF EnterOldPin, EnterNewPin, ConfirmNewPin, At, Shown, OpenScreens, PinScreens
  <2>2. pc' = "ui" /\ proved' = proved /\ seInitErr' = seInitErr
    BY <1>3 DEF EnterOldPin, EnterNewPin, ConfirmNewPin, Show, changeFrame
  <2> QED BY <2>1, <2>2 DEF AuthInv, Passed
<1>4. CASE StartSigning
  BY <1>4 DEF StartSigning, signFrame, At, AuthInv, Passed, Shown, OpenScreens
<1>5. CASE StoreTempKey \/ DeleteTempKey
  BY <1>5 DEF StoreTempKey, DeleteTempKey, signFrame, AuthInv, Passed, Shown
<1>6. CASE FinishSigning
  BY <1>6 DEF FinishSigning, Show, AuthInv, Passed
<1> QED BY <1>1, <1>2, <1>3, <1>4, <1>5, <1>6 DEF OpenStep

LEMMA AuthWipe ==
  ASSUME AuthInv, ConfirmFactoryReset \/ WipeNext \/ FinishWipe \/ ProvisionHash
  PROVE  AuthInv'
<1> USE DEF wipeFrame, bootVars, ghostVars
<1>1. CASE ConfirmFactoryReset
  BY <1>1 DEF ConfirmFactoryReset, AuthInv, Passed, Shown
<1>2. CASE WipeNext
  BY <1>2 DEF WipeNext, AuthInv, Passed, Shown
<1>3. CASE FinishWipe
  BY <1>3, ScreenFacts DEF FinishWipe, Show, AuthInv, Passed, Shown
<1>4. CASE ProvisionHash
  BY <1>4 DEF ProvisionHash, AuthInv, Passed, Shown
<1> QED BY <1>1, <1>2, <1>3, <1>4

LEMMA AuthInvariance == Spec => []AuthInv
<1>1. AuthInv /\ [Next]_vars => AuthInv'
  <2> SUFFICES ASSUME AuthInv, [Next]_vars PROVE AuthInv'
    OBVIOUS
  <2>1. CASE Next
    BY <2>1, AuthBoot, AuthSetup, AuthPin, AuthOpen, AuthWipe DEF Next
  <2>2. CASE UNCHANGED vars
    BY <2>2 DEF vars, bootVars, ghostVars, AuthInv, Passed, Shown
  <2> QED BY <2>1, <2>2
<1> QED BY AuthInit, <1>1, PTL DEF Spec

(* No screen of the open wallet, from the settings to the signing of a        *)
(* transaction, is reached without a PIN, whichever SE calls fail and         *)
(* wherever a reset falls (handleNavigation, loop and setup of wallet1.ino);  *)
(* on a DEV_BUILD only if its SE said at start that it is not provisioned.    *)
THEOREM AlwaysAuthBeforeUse == Spec => []AuthBeforeUse
<1>1. AuthInv => AuthBeforeUse
  BY DEF AuthInv, Passed, AuthBeforeUse
<1> QED BY <1>1, AuthInvariance, PTL

-----------------------------------------------------------------------------
(* The position is reset by boot and on every way into a PIN screen; only     *)
(* handlers that have left such a screen may find it at the end.              *)
PositionInv ==
  /\ pc = "boot" => pinPosition = 0
  /\ pc = "ui" /\ Shown \in {"PIN_SETUP", "PIN_ENTRY"} => pinPosition < PIN_LEN

LEMMA ZeroPosition == 0 < PIN_LEN
BY LengthAssumption

(* A step that shows another screen than the two, or is within a handler.     *)
LEMMA PositionElsewhere ==
  ASSUME pc' # "boot", pc' = "ui" => Shown' \notin {"PIN_SETUP", "PIN_ENTRY"}
  PROVE  PositionInv'
BY DEF PositionInv

LEMMA PositionEnter ==
  ASSUME NEW r, EnterPinEntry(r)
  PROVE  PositionInv'
BY ZeroPosition DEF EnterPinEntry, ClearDigits, Show, PositionInv

LEMMA PositionSame ==
  ASSUME PositionInv, pinPosition' = pinPosition, pc = "ui", pc' = "ui", Shown' = Shown
  PROVE  PositionInv'
BY DEF PositionInv

LEMMA PositionStep == TypeInv /\ PositionInv /\ [Next]_vars => PositionInv'
<1> SUFFICES ASSUME TypeInv, PositionInv, [Next]_vars PROVE PositionInv'
  OBVIOUS
<1> USE DEF Show, At
<1>1. CASE PowerLoss \/ WatchdogReset \/ Restart
  BY <1>1, ZeroPosition DEF PowerLoss, WatchdogReset, Restart, LoseRam, ClearDigits, PositionInv
<1>2. CASE Boot
  BY <1>2, ZeroPosition DEF Boot, PositionInv
<1>3. CASE RetrySe
  BY <1>3, PositionEnter, PositionElsewhere DEF RetrySe, Shown
<1>4. CASE LeaveWatchdogRecovery
  BY <1>4, PositionEnter, PositionElsewhere DEF LeaveWatchdogRecovery, Shown
<1>5. CASE StartScreensaver
  BY <1>5, PositionSame DEF StartScreensaver, pinVars, Shown, IdleScreens, ResetScreens
<1>6. CASE LeaveScreensaver
  BY <1>6, PositionSame DEF LeaveScreensaver, pinVars, Shown, TypeInv, TypeOK, IdleScreens, ResetScreens
<1>7. CASE AutoLock
  BY <1>7, PositionEnter DEF AutoLock
<1>8. CASE SetupStep
  <2>1. CASE SetPassphraseFlag
    BY <2>1, ZeroPosition DEF SetPassphraseFlag, ClearDigits, PositionInv
  <2>2. CASE \/ StoreMaster \/ StoreChain \/ UndoMaster \/ StoreXpub \/ CheckPubkey \/ DropChain
    BY <2>2, PositionElsewhere DEF StoreMaster, StoreChain, UndoMaster, StoreXpub, CheckPubkey, DropChain
  <2>3. CASE \/ StartMnemonicCeremony \/ StartVerification \/ VerifyWords \/ StartRestoreProcess
             \/ FinishRestoreWords \/ RetryRestore \/ AskPassphrase
    BY <2>3, PositionElsewhere DEF StartMnemonicCeremony, StartVerification, VerifyWords,
       StartRestoreProcess, FinishRestoreWords, RetryRestore, AskPassphrase, Shown
  <2> QED BY <1>8, <2>1, <2>2, <2>3 DEF SetupStep
<1>9. CASE PinStep
  <2>1. CASE TypeDigit
    BY <2>1 DEF TypeDigit, PositionInv
  <2>2. ASSUME NEW p \in Pins, CreatePin(p) PROVE PositionInv'
    BY <2>2, ZeroPosition DEF CreatePin, ClearDigits, PositionInv
  <2>3. CASE VerifyPin
    BY <2>3, ZeroPosition DEF VerifyPin, ClearDigits, PositionInv
  <2>4. CASE \/ \E p \in Pins : CountAttempt(p)
             \/ ResetAttempts \/ AskSessionPassphrase \/ EnterSessionPassphrase \/ EnterDeviceIdDisplay
    BY <2>4, PositionElsewhere DEF CountAttempt, ResetAttempts, AskSessionPassphrase,
       EnterSessionPassphrase, EnterDeviceIdDisplay, Shown
  <2> QED BY <1>9, <2>1, <2>2, <2>3, <2>4 DEF PinStep
<1>10. CASE OpenStep
  <2>1. CASE SaveUserData
    BY <2>1, PositionElsewhere DEF SaveUserData, Shown
  <2>2. CASE Navigate
    BY <2>2, PositionElsewhere DEF Navigate, Links, Shown
  <2>3. CASE \/ StartChangePin
             \/ \E p \in Pins : EnterOldPin(p) \/ EnterNewPin(p) \/ ConfirmNewPin(p)
    BY <2>3, PositionElsewhere DEF StartChangePin, EnterOldPin, EnterNewPin, ConfirmNewPin, Shown
  <2>4. CASE StartSigning \/ StoreTempKey \/ DeleteTempKey \/ FinishSigning
    BY <2>4, PositionElsewhere DEF StartSigning, StoreTempKey, DeleteTempKey, FinishSigning, Shown
  <2> QED BY <1>10, <2>1, <2>2, <2>3, <2>4 DEF OpenStep
<1>11. CASE ConfirmFactoryReset \/ WipeNext \/ FinishWipe
  BY <1>11, PositionElsewhere DEF ConfirmFactoryReset, WipeNext, FinishWipe, Shown
<1>12. CASE ProvisionHash
  BY <1>12, PositionSame DEF ProvisionHash, pinVars, Shown
<1>13. CASE UNCHANGED vars
  BY <1>13 DEF vars, pinVars, PositionInv, Shown
<1> QED BY <1>1, <1>2, <1>3, <1>4, <1>5, <1>6, <1>7, <1>8, <1>9, <1>10, <1>11, <1>12, <1>13 DEF Next

(* pinDigits is written within its cells, wherever boot, lock, screensaver or *)
(* a failed PIN lead back to a PIN screen (PIN_SETUP and PIN_ENTRY of         *)
(* handleNavigation).                                                         *)
THEOREM AlwaysDigitIndexInBounds == Spec => []DigitIndexInBounds
<1>1. Init => PositionInv
  BY DEF Init, PositionInv
<1>2. PositionInv => DigitIndexInBounds
  BY DEF PositionInv, DigitIndexInBounds
<1> QED BY <1>1, <1>2, PositionStep, TypeInvariance, PTL DEF Spec

-----------------------------------------------------------------------------
(***************************************************************************)
(* The seed of module Wallet, for all values of its constants, with an SE  *)
(* whose calls succeed and power that may fail between any two writes: the *)
(* two objects it is stored in never get out of step, a PIN is created     *)
(* only over a whole seed, and a whole seed goes only in a wipe.           *)
(***************************************************************************)

NoFaults == ~SeFaults /\ ~SeInitFaults

CalmSE ==
  /\ ui # "SE_ERROR"
  /\ pc # "boot" => seAvailable
  /\ ~wdtReset
  /\ pc \notin {"undoMaster", "dropChain"}

(* A chain code is that of the master key; alone it is found only behind a    *)
(* PIN, in a wallet whose wipe was cut short.                                 *)
PairInv == keys["CHAIN_CODE"] # None => \/ keys["BIP32_MASTER"] = keys["CHAIN_CODE"]
                                        \/ keys["BIP32_MASTER"] = None /\ HasPin

(* Where the handlers stand, and what is stored there.                        *)
SetupStage ==
  /\ pc = "ui" /\ Shown \in SetupScreens \ {"PIN_SETUP"} => keys["CHAIN_CODE"] = None /\ ~HasPin
  /\ pc = "storeChain" => keys["CHAIN_CODE"] = None /\ ~HasPin /\ keys["BIP32_MASTER"] = seedJob
  /\ pc \in {"storeXpub", "checkPubkey", "setFlag"} =>
       keys["CHAIN_CODE"] = seedJob /\ keys["BIP32_MASTER"] = seedJob
  /\ pc = "ui" /\ Shown = "PIN_SETUP" => HasSeed

PinStage ==
  /\ pc = "ui" /\ Shown \in OpenScreens \cup {"WATCHDOG_RECOVERY"} => HasPin
  /\ pc \in {"resetAttempts", "unlocked", "deviceId", "sign", "signTemp"} => HasPin
  /\ signingActive => HasPin /\ pc \in {"sign", "signTemp", "boot"}
  /\ pc = "ui" /\ Shown = "PIN_ENTRY" => HasPin \/ keys["CHAIN_CODE"] = None
  /\ pc = "verify" =>
       (HasPin \/ keys["CHAIN_CODE"] = None) /\ pinDigits # None /\ Shown = "PIN_ENTRY"

(* A wipe deletes the PIN after the chain code it guards.                     *)
WipeStage ==
  pc = "wipe" =>
    /\ HasPin \/ keys["CHAIN_CODE"] = None
    /\ \A i \in 1..Len(wipeJob) : wipeJob[i] = "PIN_HASH" =>
         \/ keys["CHAIN_CODE"] = None
         \/ \E j \in 1..(i - 1) : wipeJob[j] = "CHAIN_CODE"

SeedInv == CalmSE /\ PairInv /\ SetupStage /\ PinStage /\ WipeStage

LEMMA SeedInit == Init => SeedInv
BY DEF Init, SeedInv, CalmSE, PairInv, SetupStage, PinStage, WipeStage, SeObjects

(* With NoFaults.                                                             *)
LEMMA Calls ==
  ASSUME NoFaults
  PROVE  Writes = {"ok"} /\ Reads = {TRUE} /\ InitErrors = {"OK"} /\ ~SeFaults
BY DEF NoFaults, Writes, Reads, InitErrors

LEMMA SeedBoot ==
  ASSUME NoFaults, SeedInv,
         PowerLoss \/ WatchdogReset \/ Restart \/ Boot \/ RetrySe \/ LeaveWatchdogRecovery
  PROVE  SeedInv'
<1> USE Calls DEF SeedInv, HasPin, HasSeed
<1>1. CASE PowerLoss \/ WatchdogReset \/ Restart
  BY <1>1 DEF PowerLoss, WatchdogReset, Restart, LoseRam, seVars, nvsVars, CalmSE, PairInv,
     SetupStage, PinStage, WipeStage
<1>2. CASE Boot
  <2>1. seAvailable' = TRUE /\ wdtReset' = FALSE /\ signingActive' = FALSE /\ pc' = "ui"
    BY <1>2 DEF Boot, Show
  <2>2. UNCHANGED keys
    BY <1>2 DEF Boot, seVars
  <2>3. ui' = IF signingActive THEN "WATCHDOG_RECOVERY"
              ELSE IF HasPin THEN "PIN_ENTRY"
              ELSE IF ~HasSeed THEN "BOOT_MENU"
              ELSE "PIN_SETUP"
    <3>1. PICK r \in [1..3 -> Reads] : ui' = BootScreen(seAvailable', r)
      BY <1>2 DEF Boot, Show
    <3>2. r[1] \in {TRUE} /\ r[2] \in {TRUE}
      <4>1. 1 \in 1..3 /\ 2 \in 1..3
        OBVIOUS
      <4> QED BY <3>1, <4>1, Zenon
    <3>3. ~wdtReset /\ seAvailable'
      BY <2>1 DEF CalmSE
    <3> QED BY <3>1, <3>2, <3>3, Zenon DEF BootScreen, pin_is_set, wallet_is_initialized
  <2>4. CalmSE' /\ PairInv' /\ WipeStage'
    BY <2>1, <2>2, <2>3 DEF CalmSE, PairInv, WipeStage
  <2>5. SetupStage'
    BY <2>1, <2>2, <2>3 DEF SetupStage, PairInv, Shown, SetupScreens
  <2>6. PinStage'
    BY <2>1, <2>2, <2>3 DEF PinStage, Shown, OpenScreens, PinScreens, ResetScreens
  <2> QED BY <2>4, <2>5, <2>6
<1>3. CASE RetrySe
  BY <1>3 DEF RetrySe, At, CalmSE
<1>4. CASE LeaveWatchdogRecovery
  BY <1>4 DEF LeaveWatchdogRecovery, EnterPinEntry, At, Show, seVars, nvsVars, CalmSE, PairInv,
     SetupStage, PinStage, WipeStage, Shown, SetupScreens, OpenScreens, PinScreens, ResetScreens
<1> QED BY <1>1, <1>2, <1>3, <1>4

LEMMA SeedIdle ==
  ASSUME NoFaults, TypeInv, SeedInv, StartScreensaver \/ LeaveScreensaver \/ AutoLock
  PROVE  SeedInv'
<1> USE DEF SeedInv, HasPin, HasSeed, idleFrame, seVars, nvsVars, setupVars, bootVars, pinVars, At, Show
<1>1. CASE StartScreensaver \/ LeaveScreensaver
  <2>1. Shown' = Shown /\ pc = "ui" /\ pc' = "ui" /\ ui' # "SE_ERROR"
    BY <1>1 DEF StartScreensaver, LeaveScreensaver, Shown, TypeInv, TypeOK, IdleScreens, ResetScreens
  <2>2. UNCHANGED <<keys, signingActive, seAvailable, wdtReset>>
    BY <1>1 DEF StartScreensaver, LeaveScreensaver
  <2> QED BY <2>1, <2>2 DEF CalmSE, PairInv, SetupStage, PinStage, WipeStage
<1>2. CASE AutoLock
  <2>1. HasPin \/ keys["CHAIN_CODE"] = None
    BY <1>2 DEF AutoLock, SetupStage, PinStage, Shown, LockableScreens, IdleScreens, ResetScreens,
       SetupScreens, OpenScreens
  <2>2. ui' = "PIN_ENTRY" /\ pc = "ui" /\ pc' = "ui"
        /\ UNCHANGED <<keys, signingActive, seAvailable, wdtReset>>
    BY <1>2 DEF AutoLock, EnterPinEntry
  <2> QED BY <2>1, <2>2 DEF CalmSE, PairInv, SetupStage, PinStage, WipeStage, Shown, SetupScreens,
             OpenScreens, PinScreens, ResetScreens
<1> QED BY <1>1, <1>2

-----------------------------------------------------------------------------
(* The ceremonies stay on screens without a seed.                             *)
LEMMA SeedCeremony ==
  ASSUME NoFaults, SeedInv,
         \/ StartMnemonicCeremony \/ StartVerification \/ VerifyWords
         \/ StartRestoreProcess \/ FinishRestoreWords \/ RetryRestore \/ AskPassphrase
  PROVE  SeedInv'
<1> USE Calls DEF SeedInv, HasPin, HasSeed, setupFrame, seVars, nvsVars, setupVars, At, Show
<1>1. pc = "ui" /\ Shown \in SetupScreens \ {"PIN_SETUP"}
  BY DEF StartMnemonicCeremony, StartVerification, VerifyWords, StartRestoreProcess,
     FinishRestoreWords, RetryRestore, AskPassphrase, Shown, SetupScreens
<1>2. pc' = "ui" /\ ui' \in SetupScreens \ {"PIN_SETUP"}
  BY DEF StartMnemonicCeremony, StartVerification, VerifyWords, StartRestoreProcess,
     FinishRestoreWords, RetryRestore, AskPassphrase, SetupScreens
<1>3. UNCHANGED <<keys, signingActive, seAvailable, wdtReset>>
  BY DEF StartMnemonicCeremony, StartVerification, VerifyWords, StartRestoreProcess,
     FinishRestoreWords, RetryRestore, AskPassphrase
<1> QED BY <1>1, <1>2, <1>3 DEF CalmSE, PairInv, SetupStage, PinStage, WipeStage, Shown, SetupScreens,
           OpenScreens, PinScreens, ResetScreens

(* The stores, in their order.                                                *)
LEMMA SeedStores ==
  ASSUME NoFaults, TypeInv, SeedInv,
         \/ StoreMaster \/ StoreChain \/ UndoMaster \/ StoreXpub
         \/ CheckPubkey \/ DropChain \/ SetPassphraseFlag
  PROVE  SeedInv'
<1> USE Calls DEF SeedInv, HasPin, HasSeed, seedFrame, setupFrame, seVars, nvsVars, setupVars, bootVars
<1>1. keys \in SeContents
  BY DEF TypeInv, TypeOK
<1>2. CASE StoreMaster
  <2>1. keys' = [keys EXCEPT !["BIP32_MASTER"] = seedJob'] /\ pc' = "storeChain"
    BY <1>2 DEF StoreMaster, SeStore
  <2>2. keys'["BIP32_MASTER"] = seedJob' /\ UNCHANGED <<keys["CHAIN_CODE"], keys["PIN_HASH"]>>
    BY <1>1, <2>1 DEF SeContents
  <2>3. keys["CHAIN_CODE"] = None /\ ~HasPin
    BY <1>2 DEF StoreMaster, SetupStage, Shown, SetupScreens
  <2>4. UNCHANGED <<signingActive, seAvailable, wdtReset, ui>> /\ pc = "ui"
    BY <1>2 DEF StoreMaster
  <2> QED BY <2>1, <2>2, <2>3, <2>4 DEF CalmSE, PairInv, SetupStage, PinStage, WipeStage
<1>3. CASE StoreChain
  <2>1. keys' = [keys EXCEPT !["CHAIN_CODE"] = seedJob] /\ pc' = "storeXpub"
    BY <1>3 DEF StoreChain, SeStore
  <2>2. keys'["CHAIN_CODE"] = seedJob /\ UNCHANGED <<keys["BIP32_MASTER"], keys["PIN_HASH"]>>
    BY <1>1, <2>1 DEF SeContents
  <2>3. UNCHANGED <<signingActive, seAvailable, wdtReset, ui, seedJob>> /\ pc = "storeChain"
    BY <1>3 DEF StoreChain
  <2> QED BY <2>1, <2>2, <2>3 DEF CalmSE, PairInv, SetupStage, PinStage, WipeStage
<1>4. CASE StoreXpub \/ CheckPubkey
  <2>1. pc \in {"storeXpub", "checkPubkey"} /\ pc' \in {"checkPubkey", "setFlag"}
        /\ UNCHANGED <<keys, signingActive, seAvailable, wdtReset, ui, seedJob>>
    BY <1>4 DEF StoreXpub, CheckPubkey
  <2> QED BY <2>1 DEF CalmSE, PairInv, SetupStage, PinStage, WipeStage
<1>5. CASE UndoMaster \/ DropChain
  BY <1>5 DEF UndoMaster, DropChain, CalmSE
<1>6. CASE SetPassphraseFlag
  <2>1. keys' = [keys EXCEPT !["HAS_PASSPHRASE"] = seedJob.passphrase]
    BY <1>6 DEF SetPassphraseFlag, SeStore
  <2>2. UNCHANGED <<keys["BIP32_MASTER"], keys["CHAIN_CODE"], keys["PIN_HASH"]>>
    BY <1>1, <2>1 DEF SeContents
  <2>3. HasSeed
    BY <1>6, NoneAssumption DEF SetPassphraseFlag, SetupStage, TypeInv, SetupInv, StoreLabels
  <2>4. pc = "setFlag" /\ pc' = "ui" /\ ui' = "PIN_SETUP" /\ UNCHANGED <<signingActive, seAvailable, wdtReset>>
    BY <1>6 DEF SetPassphraseFlag, Show
  <2> QED BY <2>2, <2>3, <2>4 DEF CalmSE, PairInv, SetupStage, PinStage, WipeStage, Shown,
             SetupScreens, OpenScreens, PinScreens, ResetScreens
<1> QED BY <1>2, <1>3, <1>4, <1>5, <1>6

-----------------------------------------------------------------------------
LEMMA ScreensApart ==
  OpenScreens \cap (SetupScreens \cup LockScreens \cup {"SCREENSAVER"}) = {}
BY DEF OpenScreens, PinScreens, ResetScreens, SetupScreens, LockScreens

LEMMA SeedPin == ASSUME NoFaults, TypeInv, SeedInv, PinStep PROVE SeedInv'
<1> USE Calls DEF SeedInv, HasPin, HasSeed, pinFrame, seVars, nvsVars, setupVars, bootVars, At, Show
<1>1. keys \in SeContents
  BY DEF TypeInv, TypeOK
<1>2. CASE TypeDigit
  BY <1>2 DEF TypeDigit, CalmSE, PairInv, SetupStage, PinStage, WipeStage, Shown
<1>3. ASSUME NEW p \in Pins, CreatePin(p) PROVE SeedInv'
  <2>1. keys' = [keys EXCEPT !["PIN_HASH"] = p] /\ pc' = "resetAttempts"
    BY <1>3 DEF CreatePin, SeStore
  <2>2. HasPin' /\ UNCHANGED <<keys["BIP32_MASTER"], keys["CHAIN_CODE"]>>
    BY <1>1, <2>1, NoneAssumption DEF SeContents
  <2>3. UNCHANGED <<signingActive, seAvailable, wdtReset, ui>> /\ pc = "ui"
    BY <1>3 DEF CreatePin
  <2> QED BY <2>1, <2>2, <2>3 DEF CalmSE, PairInv, SetupStage, PinStage, WipeStage
<1>4. ASSUME NEW p \in Pins, CountAttempt(p) PROVE SeedInv'
  <2>1. pc = "ui" /\ Shown = "PIN_ENTRY" /\ pc' = "verify" /\ pinDigits' # None
        /\ UNCHANGED <<keys, signingActive, seAvailable, wdtReset, ui, Shown>>
    BY <1>4, NoneAssumption DEF CountAttempt, Shown
  <2> QED BY <2>1 DEF CalmSE, PairInv, SetupStage, PinStage, WipeStage
<1>5. CASE VerifyPin
  <2>1. pc = "verify" /\ UNCHANGED <<keys, signingActive, seAvailable, wdtReset, ui, screensaverPrevState>>
    BY <1>5 DEF VerifyPin
  <2>2. \/ HasPin /\ pc' = "resetAttempts"
        \/ pc' = "wipe" /\ wipeJob' = ResetObjects
        \/ pc' = "ui"
    BY <1>5, <2>1 DEF VerifyPin, pin_verify, PinStage
  <2>3. Shown = "PIN_ENTRY" /\ Shown' = "PIN_ENTRY"
    BY <2>1 DEF PinStage, Shown
  <2>4. WipeStage'
    BY <2>1, <2>2 DEF WipeStage, PinStage, ResetObjects
  <2> QED BY <2>1, <2>2, <2>3, <2>4 DEF CalmSE, PairInv, SetupStage, PinStage, Shown, SetupScreens,
             OpenScreens, PinScreens, ResetScreens
<1>6. CASE ResetAttempts \/ AskSessionPassphrase \/ EnterSessionPassphrase
  <2>1. HasPin
    BY <1>6 DEF ResetAttempts, AskSessionPassphrase, EnterSessionPassphrase, PinStage, Shown, OpenScreens
  <2>2. \/ pc' \in {"unlocked", "deviceId"} /\ UNCHANGED ui
        \/ pc' = "ui" /\ ui' = "BOOT_PASSPHRASE"
    BY <1>6 DEF ResetAttempts, AskSessionPassphrase, EnterSessionPassphrase
  <2>3. pc \in {"resetAttempts", "unlocked", "ui"}
        /\ UNCHANGED <<keys, signingActive, seAvailable, wdtReset>>
    BY <1>6 DEF ResetAttempts, AskSessionPassphrase, EnterSessionPassphrase, openFrame
  <2> QED BY <2>1, <2>2, <2>3 DEF CalmSE, PairInv, SetupStage, PinStage, WipeStage, Shown, SetupScreens
<1>7. CASE EnterDeviceIdDisplay
  <2>1. UNCHANGED <<keys["BIP32_MASTER"], keys["CHAIN_CODE"], keys["PIN_HASH"]>>
    BY <1>1, <1>7 DEF EnterDeviceIdDisplay, SeStore, SeContents
  <2>2. pc = "deviceId" /\ pc' = "ui" /\ ui' = "DEVICE_ID_DISPLAY"
        /\ UNCHANGED <<signingActive, seAvailable, wdtReset>>
    BY <1>7 DEF EnterDeviceIdDisplay, openFrame
  <2> QED BY <2>1, <2>2 DEF CalmSE, PairInv, SetupStage, PinStage, WipeStage, Shown, SetupScreens
<1> QED BY <1>2, <1>3, <1>4, <1>5, <1>6, <1>7 DEF PinStep

LEMMA SeedOpen == ASSUME NoFaults, TypeInv, SeedInv, OpenStep PROVE SeedInv'
<1> USE Calls DEF SeedInv, HasPin, HasSeed, openFrame, pinFrame, changeFrame, signFrame, seVars, nvsVars,
        setupVars, bootVars, At, Show
<1>1. keys \in SeContents
  BY DEF TypeInv, TypeOK
<1>2. CASE Navigate
  <2>1. PICK l \in Links : l[1] = ui /\ Show(l[2])
    BY <1>2 DEF Navigate
  <2>2. l[1] \in OpenScreens /\ l[2] \in OpenScreens /\ l[1] # "SCREENSAVER" /\ l[2] # "SCREENSAVER"
    BY DEF Links, OpenScreens, PinScreens, ResetScreens
  <2>3. pc = "ui" /\ UNCHANGED <<keys, signingActive, seAvailable, wdtReset>>
    BY <1>2 DEF Navigate
  <2> QED BY <2>1, <2>2, <2>3, ScreensApart DEF LockScreens, SetupScreens, CalmSE, PairInv, SetupStage, PinStage, WipeStage, Shown
<1>3. CASE SaveUserData
  BY <1>3 DEF SaveUserData, CalmSE, PairInv, SetupStage, PinStage, WipeStage, Shown
<1>4. CASE StartChangePin \/ \E p \in Pins : EnterOldPin(p) \/ EnterNewPin(p) \/ ConfirmNewPin(p)
  <2>1. pc = "ui" /\ Shown \in OpenScreens
    BY <1>4 DEF StartChangePin, EnterOldPin, EnterNewPin, ConfirmNewPin, Shown, OpenScreens, PinScreens
  <2>2. pc' = "ui" /\ ui' \in PinScreens \cup {"SETTINGS_MENU"}
        /\ UNCHANGED <<signingActive, seAvailable, wdtReset>>
    BY <1>4 DEF StartChangePin, EnterOldPin, EnterNewPin, ConfirmNewPin, PinScreens
  <2>3. HasPin /\ HasPin' /\ UNCHANGED <<keys["BIP32_MASTER"], keys["CHAIN_CODE"]>>
    <3>1. HasPin
      BY <2>1 DEF PinStage
    <3>2. UNCHANGED keys \/ \E p \in Pins : keys' = [keys EXCEPT !["PIN_HASH"] = p]
      BY <1>4 DEF StartChangePin, EnterOldPin, EnterNewPin, ConfirmNewPin, SeStore
    <3> QED BY <1>1, <3>1, <3>2, NoneAssumption DEF SeContents
  <2> QED BY <2>1, <2>2, <2>3 DEF CalmSE, PairInv, SetupStage, PinStage, WipeStage, Shown, PinScreens,
             SetupScreens
<1>5. CASE StartSigning \/ StoreTempKey \/ DeleteTempKey
  <2>1. UNCHANGED <<keys["BIP32_MASTER"], keys["CHAIN_CODE"], keys["PIN_HASH"], ui, seAvailable, wdtReset>>
    BY <1>1, <1>5 DEF StartSigning, StoreTempKey, DeleteTempKey, SeStore, SeDelete, SeContents
  <2>2. HasPin /\ pc \in {"ui", "sign", "signTemp"} /\ pc' \in {"sign", "signTemp"}
    BY <1>5 DEF StartSigning, StoreTempKey, DeleteTempKey, PinStage, Shown, OpenScreens
  <2> QED BY <2>1, <2>2 DEF CalmSE, PairInv, SetupStage, PinStage, WipeStage
<1>6. CASE FinishSigning
  BY <1>6 DEF FinishSigning, CalmSE, PairInv, SetupStage, PinStage, WipeStage, Shown, SetupScreens
<1> QED BY <1>2, <1>3, <1>4, <1>5, <1>6 DEF OpenStep

LEMMA SeedWipe ==
  ASSUME NoFaults, TypeInv, SeedInv, ConfirmFactoryReset \/ WipeNext \/ FinishWipe \/ ProvisionHash
  PROVE  SeedInv'
<1> USE Calls DEF SeedInv, HasPin, HasSeed, wipeFrame, ghostVars, seVars, nvsVars, setupVars, bootVars, pinVars,
        At, Show
<1>1. keys \in SeContents
  BY DEF TypeInv, TypeOK
<1>2. CASE ConfirmFactoryReset
  <2>1. HasPin /\ ~signingActive
    BY <1>2 DEF ConfirmFactoryReset, PinStage, Shown, OpenScreens, ResetScreens
  <2>2. pc' = "wipe" /\ UNCHANGED <<keys, ui, signingActive, seAvailable, wdtReset>>
    BY <1>2 DEF ConfirmFactoryReset
  <2>3. wipeJob' \in Seq(WipeItems) /\ wipeJob'[1] = "BIP32_MASTER" /\ wipeJob'[2] = "CHAIN_CODE"
    <3>1. wipeJob' = ResetObjects \o ResetSpaces
      BY <1>2 DEF ConfirmFactoryReset
    <3>2. ResetSpaces \in Seq(WipeItems)
      BY DEF ResetSpaces, WipeItems, Namespaces
    <3>3. /\ ResetObjects \in Seq(WipeItems) /\ 2 \in 1..Len(ResetObjects)
          /\ ResetObjects[1] = "BIP32_MASTER" /\ ResetObjects[2] = "CHAIN_CODE"
      BY DEF ResetObjects, WipeItems, SeObjects
    <3> QED BY <3>1, <3>2, <3>3
  <2>4. WipeStage'
    BY <2>1, <2>2, <2>3 DEF WipeStage
  <2> QED BY <1>2, <2>1, <2>2, <2>4 DEF ConfirmFactoryReset, CalmSE, PairInv, SetupStage, PinStage
<1>3. CASE WipeNext
  <2> DEFINE head == Head(wipeJob)
  <2>1. wipeJob \in Seq(WipeItems) /\ wipeJob # <<>> /\ wipeJob' = Tail(wipeJob)
    BY <1>3 DEF WipeNext, TypeInv, TypeOK, WipeItems
  <2>2. pc = "wipe" /\ pc' = "wipe" /\ UNCHANGED <<ui, signingActive, seAvailable, wdtReset>>
    BY <1>3 DEF WipeNext
  <2>3. \/ head \in SeObjects /\ keys' = [keys EXCEPT ![head] = None]
        \/ head \notin SeObjects /\ UNCHANGED keys
    BY <1>3 DEF WipeNext, SeDelete, SeStore, SeObjects, Namespaces
  <2>4. /\ keys'["BIP32_MASTER"] = IF head = "BIP32_MASTER" THEN None ELSE keys["BIP32_MASTER"]
        /\ keys'["CHAIN_CODE"] = IF head = "CHAIN_CODE" THEN None ELSE keys["CHAIN_CODE"]
        /\ keys'["PIN_HASH"] = IF head = "PIN_HASH" THEN None ELSE keys["PIN_HASH"]
    BY <1>1, <2>3 DEF SeContents, SeObjects
  <2>5. head = "PIN_HASH" => keys["CHAIN_CODE"] = None
    BY <2>1, <2>2 DEF WipeStage
  <2>6. ASSUME NEW i \in 1..Len(wipeJob'), wipeJob'[i] = "PIN_HASH"
        PROVE  \/ keys'["CHAIN_CODE"] = None
               \/ \E j \in 1..(i - 1) : wipeJob'[j] = "CHAIN_CODE"
    <3>1. i + 1 \in 1..Len(wipeJob) /\ wipeJob[i + 1] = "PIN_HASH"
      BY <2>1, <2>6
    <3>2. CASE keys["CHAIN_CODE"] = None
      BY <2>4, <3>2
    <3>3. CASE keys["CHAIN_CODE"] # None
      <4>1. PICK j \in 1..i : wipeJob[j] = "CHAIN_CODE"
        BY <2>2, <3>1, <3>3 DEF WipeStage
      <4>2. CASE j = 1
        BY <2>1, <2>4, <4>1, <4>2
      <4>3. CASE j # 1
        <5>1. j - 1 \in 1..(i - 1) /\ wipeJob'[j - 1] = wipeJob[j]
          BY <2>1, <2>6, <4>3
        <5> QED BY <4>1, <5>1
      <4> QED BY <4>2, <4>3
    <3> QED BY <3>2, <3>3
  <2>7. WipeStage'
    BY <2>2, <2>4, <2>5, <2>6 DEF WipeStage
  <2> QED BY <2>2, <2>4, <2>5, <2>7 DEF CalmSE, PairInv, SetupStage, PinStage, WipeStage
<1>4. CASE FinishWipe
  BY <1>4 DEF FinishWipe, CalmSE, PairInv, SetupStage, PinStage, WipeStage, Shown, SetupScreens,
     OpenScreens, PinScreens, ResetScreens
<1>5. CASE ProvisionHash
  <2>1. UNCHANGED <<keys["BIP32_MASTER"], keys["CHAIN_CODE"], keys["PIN_HASH"]>>
    BY <1>1, <1>5 DEF ProvisionHash, SeStore, SeContents
  <2> QED BY <1>5, <2>1 DEF ProvisionHash, CalmSE, PairInv, SetupStage, PinStage, WipeStage, Shown
<1> QED BY <1>2, <1>3, <1>4, <1>5

-----------------------------------------------------------------------------
LEMMA SeedStep == NoFaults => (TypeInv /\ SeedInv /\ [Next]_vars => SeedInv')
<1> SUFFICES ASSUME NoFaults, TypeInv, SeedInv, [Next]_vars PROVE SeedInv'
  OBVIOUS
<1>1. CASE Next
  BY <1>1, SeedBoot, SeedIdle, SeedCeremony, SeedStores, SeedPin, SeedOpen, SeedWipe
     DEF Next, SetupStep
<1>2. CASE UNCHANGED vars
  BY <1>2 DEF vars, seVars, nvsVars, pinVars, setupVars, bootVars, ghostVars, SeedInv, CalmSE, PairInv,
     SetupStage, PinStage, WipeStage, Shown, HasPin, HasSeed
<1> QED BY <1>1, <1>2

LEMMA SeedInvariance == ASSUME NoFaults PROVE Spec => []SeedInv
<1>1. TypeInv /\ SeedInv /\ [Next]_vars => SeedInv'
  BY SeedStep
<1> QED BY <1>1, SeedInit, TypeInvariance, PTL DEF Spec

(* wallet_is_initialized never takes the master key of one seed and the chain *)
(* code of another for a wallet, wherever power is cut in wallet_generate_seed *)
(* or in wallet_factory_reset.                                                *)
THEOREM AlwaysSeedPairConsistent == ASSUME NoFaults PROVE Spec => []SeedPairConsistent
<1>1. SeedInv => SeedPairConsistent
  BY DEF SeedInv, PairInv, SeedPairConsistent, HasSeed
<1> QED BY <1>1, SeedInvariance, PTL

(* setup() and the setup handlers ask for a new PIN only over a whole seed.   *)
THEOREM AlwaysPinSetupHasSeed == ASSUME NoFaults PROVE Spec => []PinSetupHasSeed
<1>1. SeedInv => PinSetupHasSeed
  BY DEF SeedInv, SetupStage, PinSetupHasSeed
<1> QED BY <1>1, SeedInvariance, PTL

(* No boot decision, recovery or second setup overwrites the seed of an       *)
(* initialised wallet: outside a wipe it stays.                               *)
THEOREM AlwaysSeedKept == ASSUME NoFaults PROVE Spec => SeedKept
<1>1. ASSUME TypeInv, SeedInv, HasSeed, pc # "wipe", [Next]_vars
      PROVE  UNCHANGED <<keys["BIP32_MASTER"], keys["CHAIN_CODE"]>>
  <2>1. keys \in SeContents
    BY <1>1 DEF TypeInv, TypeOK
  <2>2. keys["CHAIN_CODE"] # None /\ pc \notin {"storeChain", "undoMaster", "dropChain"}
        /\ ~(pc = "ui" /\ Shown \in SetupScreens \ {"PIN_SETUP"})
    BY <1>1 DEF SeedInv, CalmSE, SetupStage, HasSeed
  <2>3. CASE UNCHANGED keys
    BY <2>3
  <2>4. CASE \E v : \E o \in SeObjects \ {"BIP32_MASTER", "CHAIN_CODE"} : keys' = [keys EXCEPT ![o] = v]
    BY <2>1, <2>4 DEF SeContents, SeObjects
  <2>5. UNCHANGED keys
        \/ \E v : \E o \in SeObjects \ {"BIP32_MASTER", "CHAIN_CODE"} : keys' = [keys EXCEPT ![o] = v]
    <3> USE DEF SeObjects, SeStore, SeDelete, seVars
    <3>1. CASE PowerLoss \/ WatchdogReset \/ Restart \/ Boot \/ RetrySe \/ LeaveWatchdogRecovery
               \/ StartScreensaver \/ LeaveScreensaver \/ AutoLock
      BY <3>1 DEF PowerLoss, WatchdogReset, Restart, LoseRam, Boot, RetrySe, LeaveWatchdogRecovery,
         EnterPinEntry, StartScreensaver, LeaveScreensaver, AutoLock, idleFrame
    <3>2. CASE SetupStep
      <4>1. ~StoreMaster /\ ~StoreChain /\ ~UndoMaster /\ ~DropChain
        BY <2>2 DEF StoreMaster, StoreChain, UndoMaster, DropChain, Shown, SetupScreens
      <4>2. CASE CheckPubkey
        <5>1. pc' # "dropChain"
          BY <1>1, SeedStep DEF SeedInv, CalmSE
        <5>2. UNCHANGED keys
          BY <4>2, <5>1 DEF CheckPubkey
        <5> QED BY <5>2
      <4>3. CASE SetPassphraseFlag
        <5> DEFINE v == seedJob.passphrase
        <5>1. keys' = [keys EXCEPT !["HAS_PASSPHRASE"] = v]
          BY <1>1, <4>3, Calls DEF SetPassphraseFlag
        <5>2. "HAS_PASSPHRASE" \in SeObjects \ {"BIP32_MASTER", "CHAIN_CODE"}
          OBVIOUS
        <5> HIDE DEF v
        <5> QED BY <5>1, <5>2
      <4>4. CASE StoreXpub
        BY <4>4 DEF StoreXpub
      <4>5. CASE \/ StartMnemonicCeremony \/ StartVerification \/ VerifyWords \/ StartRestoreProcess
                 \/ FinishRestoreWords \/ RetryRestore \/ AskPassphrase
        BY <4>5 DEF StartMnemonicCeremony, StartVerification, VerifyWords, StartRestoreProcess,
           FinishRestoreWords, RetryRestore, AskPassphrase
      <4> QED BY <3>2, <4>1, <4>2, <4>3, <4>4, <4>5 DEF SetupStep
    <3>3. CASE PinStep
      BY <3>3 DEF PinStep, TypeDigit, CreatePin, CountAttempt, VerifyPin, ResetAttempts,
         AskSessionPassphrase, EnterSessionPassphrase, EnterDeviceIdDisplay
    <3>4. CASE OpenStep
      BY <3>4 DEF OpenStep, Navigate, SaveUserData, StartChangePin, EnterOldPin, EnterNewPin,
         ConfirmNewPin, StartSigning, StoreTempKey, DeleteTempKey, FinishSigning
    <3>5. CASE ConfirmFactoryReset \/ WipeNext \/ FinishWipe \/ ProvisionHash
      BY <1>1, <3>5 DEF ConfirmFactoryReset, WipeNext, FinishWipe, ProvisionHash
    <3>6. CASE UNCHANGED vars
      BY <3>6 DEF vars
    <3> QED BY <1>1, <3>1, <3>2, <3>3, <3>4, <3>5, <3>6 DEF Next
  <2> QED BY <2>3, <2>4, <2>5
<1>2. TypeInv /\ SeedInv /\ [Next]_vars
        => [HasSeed /\ pc # "wipe" => UNCHANGED <<keys["BIP32_MASTER"], keys["CHAIN_CODE"]>>]_vars
  BY <1>1
<1> QED BY <1>2, SeedInvariance, TypeInvariance, PTL DEF Spec, SeedKept
=========================================================================
