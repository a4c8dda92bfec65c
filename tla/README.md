# Formal model of the wallet firmware

TLA+ modules, TLC runs and TLAPS proofs about the firmware of this repository:
an Arduino/ESP32-S3 Bitcoin hardware wallet (`wallet1.ino` and the C++ files
beside it).  `PROJECT.json` lists the components, runs, mutants, findings,
hazards and theorems, and maps every modelling definition to source lines.

## The system

One Arduino task runs `setup()` and then `loop()` for ever.  `loop()` feeds the
watchdog, polls the USB serial port, polls two buttons, and dispatches on
`currentState`, one of some 50 screens, in `handleNavigation()`.  There are no
other tasks, interrupts or callbacks that touch the state.  What makes the
system hard is not concurrency between threads but

* **resets**: power is cut, or the task watchdog fires, between any two writes
  to the secure element (SE) or to NVS, and `setup()` has to decide from what is
  left;
* **partial failure**: every SE call can fail, or take effect although its
  acknowledgement is lost; many callers ignore the result;
* **copies**: the attempt counter, the screen under the screensaver, the flow a
  mnemonic came from and the USB origin of a PSBT are RAM copies that must not
  be stale when they are used;
* **timers** over the same idle time: eight of them, in one pass of `loop()`;
* **levels**: buttons are polled, and one press lasts for many passes, screens
  and words;
* **the host** at the other end of the serial line, and the SE at the other end
  of a UART or an I2C bus, whose answers may be late, lost or damaged.

| component | state | operations | what makes it correct |
|---|---|---|---|
| Life cycle (`wallet1.ino`) | `currentState`, PIN digits, words in RAM, `pinAttempts`, `passphraseIsNewWallet`, `screensaverPrevState` | boot decision, ceremony, restore, passphrase, PIN creation/entry/change, recovery, screensaver, auto-lock, factory reset | nothing opens without a PIN; a wipe is a wipe; setup leaves a whole seed |
| PIN manager (`pin_manager.cpp`) | SE objects 3 (hash) and 5 (counter) | set up, verify, change, count, reset, wipe | attempts are counted before they are answered and survive resets |
| Wallet storage (`wallet_storage.cpp`) | SE objects 1, 2, 4, 7; NVS `wlt` | store seed, is-initialised, passphrase flag, identity | the two key objects are of one seed |
| SE HALs (stub, ATECC608B, TernaryCore UART, SE051) | objects, counter, line buffers | store, read, delete, sign, count | answers belong to their commands; counters do not wrap |
| Watchdog (`watchdog.cpp`) | NVS `signing_active` | arm, feed, bracket of a signature | a hang is reset; an interrupted signature is reported once |
| PSBT parser, signer (`psbt.cpp`, `psbt_signer.cpp`) | `psbt_t`, scratch key object 0xF0 | parse, serialise, sign the selected inputs | only owned and selected inputs; no scratch key left |
| Transaction review (`wallet1.ino`) | PSBT under review, output index, selection | coin control, fee, RBF, outputs, confirm, reject | what is signed is what was reviewed; the host gets one answer |
| Serial transport (`serial_transport.cpp`) | 8 KB line buffer | poll, parse, reply | every question is answered; no fetch waits for ever |
| History, balance, accounts | NVS namespaces | fetch, add, shift, sum, select, count up | the last transactions are kept; a used address is not shown again; fetches end |
| Screensaver, settings, idle timers | `lastActivityMs`, `displayOn`, logo position, NVS `settings` | activate, leave, auto-lock, display off, choose | a device left alone is protected; a press that wakes it does nothing else |
| BIP39 words and keyboard | prefix, letter, candidates, highlight, hold times | type, erase, select, take a word | what is offered fits what is typed; each word can be entered |

## Modules

| module | what it holds |
|---|---|
| `Wallet` | the life cycle: state, one action per handler or per persistent write of a handler, faults, mutants |
| `PinLockout` | abstract: what a PIN with a limited number of attempts promises |
| `WalletProperties` | properties of `Wallet`, and the mapping that makes it a `PinLockout` |
| `WalletProofs` | `TypeOK`, `MnemonicReady`, `AuthBeforeUse`, `DigitIndexInBounds`, `SeedPairConsistent`, `PinSetupHasSeed`, `SeedKept` proved |
| `WalletLockoutProofs` | `AttemptsCounted`, `PinAttemptsInSync`, `PinEntryReady`, the refinement of `PinLockout`, `UnlockRestoresAttempts`, `WipedObjectsGone`, `PinReplacedOnlyByOwner` proved |
| `MCWallet` | the module TLC starts from |
| `PsbtSigner` | `psbt_sign`: the loop over the inputs, one SE call a step; its properties |
| `PsbtSignerProofs` | all properties of a call proved, the deletion of the scratch key for an SE that deletes |
| `SignRequest` | abstract: what a host that sends a PSBT may rely on |
| `TxReview` | extends `PsbtSigner`: review screens, signing, replies, the host, resets |
| `TxReviewProperties` | properties of `TxReview`, and the mapping that makes it a `SignRequest` |
| `TxReviewProofs` | `ReviewTypeOK`, `SelectionIsOwned`, `ConfirmedBeforeSigning`, `SignedAsAsked`, the promises of `psbt_sign` within a review, and the safety of `SignRequest` proved |
| `MCPsbtSigner`, `MCTxReview` | the inputs and transactions that TLC tries |
| `Keyboard` | the prefix search, the two-button keyboard, restoring and verifying words |
| `KeyboardProofs` | its type, what is offered after any keys (the search included), one word for a press: proved |
| `IdleTimers` | every timer of `loop()`, the settings, the screensaver, keys that wake the device |
| `IdleTimersProofs` | its type, the words, the contrast, the key that wakes and the restore left behind: proved |
| `Companion` | the line buffer, balance, history, addresses and accounts, and their NVS |
| `CompanionProofs` | its type, the used addresses and the history in NVS: proved |
| `SeHal` | the three drivers of the secure element and the line between |
| `SeHalProofs` | its type, whose answer is taken and the counter's limit: proved |
| `MCKeyboard`, `MCIdleTimers`, `MCCompanion`, `MCSeHal` | the word list, time-outs, menus and drivers that TLC tries |

### Wallet

The code is sequential, so a handler would be one atomic action were it not for
resets.  It is therefore cut where a reset can be noticed: `pc` names the next
write of the running handler that survives a reset, `pc = "ui"` is the top of
`loop()`, `pc = "boot"` is a device that has lost its RAM.  `wallet_generate_seed`
becomes `StoreMaster`, `StoreChain`, `UndoMaster`, `StoreXpub`, `CheckPubkey`,
`DropChain`, `SetPassphraseFlag`; a wipe is a list, `wipeJob`, shortened by
`WipeNext`; PIN entry is `CountAttempt`, `VerifyPin`, `ResetAttempts`.  Reads are
made in the step they decide.  `PowerLoss` is enabled everywhere, `WatchdogReset`
wherever a handler may hang in an SE call.

SE calls take an outcome: `"ok"`, `"fail"` (no effect) or `"lost"` (took effect,
reported as failed); a read succeeds or not.  `SeFaults` says whether anything
but success may happen, `SeInitFaults` whether `se051_init` may fail, `Atecc`
selects the HAL whose counter cannot be reset and that has no slot for the
scratch key, `DevBuild` the branches of `-DDEV_BUILD`.

Data that the properties do not look into is abstracted: a mnemonic, a PIN, an
identity is a model value; a seed is its mnemonic and whether it has a
passphrase; HMAC is equality.  A digit is typed one at a time (`TypeDigit`)
because the index is what can go wrong; of the PIN only the last digit's arrival
tells its value.  `BIP39_PREDICTIVE_INPUT` is two screens here, as
`predictiveIsVerify` decides everything it does.  Screens that write nothing and
lead nowhere else (addresses, balance, history, about) are folded into
`MAIN_MENU` and `SETTINGS_MENU`.  `proved` and `tries` are history variables.

`AuthBeforeUse` has one exception, the one of the code: a `DEV_BUILD` whose
`se051_init` reported an unprovisioned element (`seInitErr = "LOCKED"`) goes on
without the PIN it cannot store.  `WipedObjectsGone` is about what
`wallet_factory_reset` deletes of the owner; the firmware hash may have been
provisioned again since, and the scratch key 0xF0 and the account xpub in NVS are not
among what it deletes: the disagreements below.

### PsbtSigner

A state is one between two calls to the SE: `se051_derive_child_key` stores the
child key in object 0xF0, `SignInput` is the sighash and the signature,
`DeleteKey` is `se051_delete_key` with what the caller does next, `SkipInput` and
`EndOfLoop` are the passes that need no SE.  `call` holds the locals of
`psbt_sign` (`step`, loop index `i`, `anyOwned`, `count`, and the result).  An SE
call does what it says, or, if it is in `SeFaults`, fails, or acts and has its
answer lost.

A key is the index of the input whose path derives it, a signature is a key and
the input it commits to, so a signature made with the wrong key or over the
wrong input is visible.  A script is its kind and `lengthByte`, whether the parser
handed it on with its compact size.  `partial` and `tap` are the two slots of an
input; the parser keeps the last of several partial signatures, so a cosigner is
one signature.  The error returns for a path that is too long or a sighash that
cannot be computed are left out: the parser bounds the former, and `is_p2wpkh`
and `is_p2tr` are tested before the latter.

### TxReview

The action is one pass of `loop()` with a pressed button (`User`), a line of the
host (`Poll`), or neither (`Device`: once CONFIRM has been pressed, signing and
the reply need nobody).  The other screens of the open wallet are one,
`MAIN_MENU`; how one gets there is `Wallet`'s.  `LoadTx` is
`initTransactionReviewFromBuffer`, with the initial selection; `Demo` is
`DEMO_PSBT`, which the code also loads when all outputs are change.  A
transaction is its inputs, which of its outputs are change, and whether it has a
locktime or cannot be parsed.  The host sends a PSBT
only after READY, and its line is read, or dropped, at the next poll; lines that
overflow the buffer are in `Companion`; those that are no base64 are left out.
`shown` and `confirmed` are history variables: the outputs that were drawn, and the
screens that were confirmed, each with the selection of that moment.  Resets keep the
scratch object and nothing else.

`SignRequest` says what the host may rely on, by transaction: what is taken up is what
it sent, and what is approved and answered is what was taken up.  Its constant
`Substitutes` is the one exception of the code: a transaction of which every output is
change is replaced by the demo, which is then approved and answered in its place.  No document
has that exception (disagreements, below); the refinement shows that there is no other.

### Keyboard

A step of the open keyboard is one pass of `handleNavigation()` with the levels of
the two buttons in it (`Frame`): releases first, then CANCEL, then the edge of
CONFIRM, as in the code.  `kb` is the record of the `predictive...` variables; of
the time CANCEL has been held, only whether it is over a second counts.  The
search is the code's binary search, over words that are sequences of letters;
`Offer` tabulates its result for every prefix, so that it is computed once; the
insertion sort of the candidates is their order by length and place (`Ahead`).
The two uses of the keyboard differ in what a word does (`WordRestored`,
`WordVerified`); the checksum of a restored phrase is a choice.

The user presses anything in any pass, or has set out to enter a word and does what
the display asks for (`TowardsGoal`): the next letter, the highlighted candidate,
or a long CANCEL when something else has been typed.

### IdleTimers

A pass of `loop()`: the clocks go on, the timers act in the order of the code
(`Timers`), then the keys (`Handle`).  `st` is a record: the screen, the one under the
screensaver, the time since `lastActivityMs` (`idle`), since `restoreStartTime` or
`deviceIdEnteredMs` (`age`), `displayOn` (`lit`), the stored settings and the one on
the display.  Time is counted in ticks that keep the order of the time-outs.  The
screens between `MAIN_MENU` and a reply are one, `SIGN_TX`; where code decides by state
that is not kept here (a PIN, a word, a checksum), each outcome is a choice.  `digit`
and `woke` observe what a press did.

### Companion

The device reads a line in units; its end is a unit too, a line cut by an unplugged
cable is a unit without end, and `Room` of them fill `recv_buf`.  A pass takes one
line, or none (`Take`): it counts the reply, stores it, and ends the fetch, in the
order of `loop()`.  NVS is a function from keys to values, and a function of the code that
makes several writes is the sequence of them (`AddEntry`, `SetCached`): a key holds the last
value written to it (`Held`), and `PowerLoss` stops the sequence after any of its writes.  Keys are actions of their
own; in the code they follow in the same pass, which differs in nothing, as their
guards ask for what `Take` leaves.  An address is its account and index; the three
address types share the index.

### SeHal

One call at a time, in steps that the line can be seen between.  The TernaryCore
driver writes a command and reads lines until one has the prefix it expects, an
error, or the deadline; nothing else empties the line but `se051_init`, before each of
its attempts.  The I2C drivers send a packet and read one, each with `Tries`
attempts.  The element takes commands in order and may refuse any but INFO; commands and
answers get lost, an acknowledgement may be lost after the packet arrived, a packet may
come damaged.  A restart of the processor does not restart the element.  Calls have
numbers, so that `OkMeansDone` can say whose answer was taken.  Calls that send the same
packets and treat the answer alike are one: `STORE` is also delete, `READ` is every read,
`SIGN` both kinds of signature.

### Runs

| run | question | instance |
|---|---|---|
| `wallet_crash` | is what a power loss leaves consistent, and does the PIN keep `PinLockout`? | 2 PINs (a right and a wrong one), 2 identities, 2 digits, 2 attempts, counter up to 3 |
| `wallet_faults` | can any failure of the SE open the wallet? | 1 of each, every SE fault, a `DEV_BUILD` on the ATECC608B: a release build is the same with fewer errors of `se051_init` |
| `review_requests` | does every PSBT taken up get its one reply, for which transaction, and is the scratch key deleted? | 7 transactions of the host and the demo, failing signatures, with fairness |
| `review_faults` | do indices, selection, confirmations and signatures survive failures and resets, and is every call of `psbt_sign` all or nothing? | the same, with every SE fault, resets and `malloc` failures, without fairness |
| `keyboard` | does what is offered fit what is typed, and can each word be entered? | 9 words of 3 letters with the shapes of the BIP-39 list, prefixes up to 3, phrases of 2 words, any keys; the user wants one of 4 words |
| `idle_timers` | what do the timers do to each other, to the words, the contrast and a key that is held? | all screens, any keys, 2 display and 3 lock time-outs, 3 contrasts |
| `companion` | do fetches end, is a question answered, is the history kept and a used address never shown again, whatever the host and the power do? | 2 accounts, 2 transactions, a history of 2, a buffer of 3 units, 1 power loss |
| `se_hal` | does a call return, and is its answer its own? | each driver, 2 calls of 6 kinds, 2 attempts, 2 restarts, a counter up to 2 |
| `atecc_budget`, `signer_standard`, `keyboard_word`, `auto_lock` | what the documents say and the code does not do | the smallest instance that shows it |

Deadlock is checked where the system goes on for ever.  It is not in `signer_standard`,
where a call of `psbt_sign` ends, in `keyboard` and `keyboard_word`, where the user who
has set out does nothing else, and in `se_hal`, where the calls are counted.

The bounds of `Wallet`: two attempts separate "not the last" from "the last",
which one attempt would not; a counter that goes one past the limit shows whether
it is counted beyond it; two digits have a first and a last; one mnemonic and two
passphrase choices make two seeds, enough for a master key and a chain code that
do not match.
`wallet_faults` leaves out the provisioning of a firmware hash (`NotProvisioned`), which
nothing in the model reads.

The bounds of `TxReview`: each transaction in `MCTxReview` is there for a way through
the screens: coin control over three inputs of which the first is not ours, replaceable,
multisig with and without us, nothing of ours, all change, not readable, and one
that fails at its second input, after one was signed.  That the properties of `psbt_sign`
hold for any inputs and any number of them is proved.

The bounds of `Keyboard`: the list has a letter with one word, one with three (the most
that are shown) and one with more, a word that is the prefix of others, and words of
different lengths among three candidates, so that each branch of CONFIRM and each end
of the highlight occurs.  `FirstLettersShared` is what makes a CONFIRM still down from
`BOOT_MENU`, alone or with CANCEL, type a letter and take no word.

The bounds of `IdleTimers`: the ticks keep the order 4 or 5 s (`Short`), 30 s (`Saver`), the
lock times, 5 min (`Abandon`), with time steps of up to 2, so that each pair of timers is due
in either order or in one pass; both lock times on either side of `Abandon` occur, and never.

The bounds of `Companion`: two entries have one that is shifted and one that is new; a
fetch asks for up to 2 requests and gets none, fewer, as many or more replies; two accounts
have different indices; `Menus` keeps a user who reads the history from changing
accounts, which the history does not look at.

The bounds of `SeHal`: two calls are a call whose answer is late and the one that finds
it; two attempts are one that fails and the last; two restarts are one that leaves a call's
answer on the way and one that leaves a probe's; 2 for 255 leaves a value below the limit.

Fairness.  In `wallet_crash`, `WF(Boot)`, because `setup()` runs to its end
whenever the device has power for long enough, and `WF(Restart)`, because the
`WALLET_WIPED` case of `loop()` restarts the device after 4 s without anybody's
help.  In `review_requests`, `WF(Device)`, because `executeSigningSequence` and
the two result screens run to their end without waiting for a button; the run
has no resets, for a reset takes the request with it.  In `keyboard`, `WF(TowardsGoal)`:
the user who has set out for a word goes on until it is taken; nothing is assumed of
one who has not.  In `idle_timers`, `WF(Idling)`, and in `companion`, weak fairness of
reading, of passes without a line and of the clock: `loop()` never blocks, and time
passes.  In `se_hal`, `WF(DriverStep)`: a call keeps the only task until it returns; nothing
is assumed of the element.  Nowhere is anything assumed of the host, of the SE or of the
power supply.

### Findings

Each is a run that TLC refutes; the quotations are in `PROJECT.json`.

* `atecc_budget`: on the ATECC608B, correct PINs use the attempts up.
* `signer_standard`: an input whose script has its length byte, as in BIP 174 and
  in the demo PSBT, is not recognised and the call fails.
* `keyboard_word`: with more than three candidates CONFIRM only adds a letter, so a
  word with which three others begin (act, arm, art, bar, can, car, cat, fat, kit, man,
  sea, ski, ten, use, win) can neither be restored nor verified.
* `auto_lock`: the auto-lock is only looked at when the screensaver is not due, and not
  under it, so a wallet left alone with its display on is never locked.

Disagreements without a run, which the modules follow the code in, or leave out:

* a wipe cut short is not resumed at boot (`wallet1.ino:696`; `prd.json:449`);
* power lost between the seed and the passphrase flag leaves a passphrase wallet that
  never asks for its passphrase (`wallet1.ino:1281`; `prd.json:281`);
* CONFIRM at the first output signs, the others unseen (`wallet1.ino:1527`;
  `prd.json:232`);
* a wipe leaves the account xpub in NVS, and a wipe by wrong PINs all namespaces
  but the SE's (`wallet1.ino:1095`; `prd.json:448`);
* a factory reset deletes the objects 0x01 to 0x07 and not the child key that a power cut
  during signing leaves in 0xF0 (`pin_manager.cpp:123`; `README.md:161` says "all object
  IDs"); `WipedObjectsGone` leaves it out for that reason, and TLC refutes the property
  with it (39 steps: sign, lose power, unlock, reset);
* when all outputs are change, the demo transaction takes the place of the host's, is
  reviewed, and its result is the host's answer (`wallet1.ino:1495`; `prd.json:247`,
  `prd.json:292`); `ServesRequests` allows it as the one substitution.  `DEMO_PSBT` itself
  cannot be signed, for the reason of `signer_standard`: the answer is ERROR or REJECTED;
* a line that fills the buffer is never answered, and the buffer stays full until the
  device restarts (`serial_transport.cpp:289`; `prd.json:302` asks for ERROR:OVERFLOW);
  `InfoAnswered` is about the lines that are read;
* the result of `wallet_generate_seed` is ignored, and PIN creation follows a seed
  that was not stored (`wallet1.ino:1257`; `prd.json:68`);
* a failed read of the pairing identity replaces it (`wallet1.ino:916`);
* SE_ERROR, once recovered, shows `BOOT_MENU` where the boot would show
  `PIN_SETUP` (`wallet1.ino:991`);
* a cosigner's partial signature is overwritten by the device's
  (`psbt_signer.cpp:400`; `prd.json:554`);
* a negative fee is shown as 0 (`wallet1.ino:514`; `prd.json:214`; amounts are not
  modelled);
* a PSBT that READY invited is dropped without a reply once the user has pressed
  CANCEL (`wallet1.ino:751`; `PollDrops`; `prd.json:300`);
* BALANCE replies that come after their fetch are counted by the next, of another account
  too; a sum of some replies is cached as the balance, and all accounts have one cache
  (`wallet1.ino:779`, `wallet1.ino:792`);
* each fetch adds the reported transactions to the history again (`wallet1.ino:804`), and a
  power loss while a full history is shifted leaves an entry made of two
  (`tx_history.cpp:69`);
* an address is verified against the index of the last address shown, whatever account is
  active (`wallet1.ino:1371`; `prd.json:320`);
* `SETTINGS_MENU` has no way back to the main menu (`wallet1.ino:1610`);
* screens that do not set `lastActivityMs` (main menu, addresses) get the screensaver 30 s
  after the last press on one that does, though buttons are pressed (`wallet1.ino:848`;
  `prd.json:742`); the display time-out never darkens a lit screen, which has the screensaver
  by then;
* auto-lock takes `MNEMONIC_DISPLAY` to `PIN_ENTRY` before there is a PIN
  (`wallet1.ino:872`);
* on screens that act on levels, the press that woke the device acts too if it is held into
  the next pass; `WakePressEntersNoDigit` is about the PIN screens;
* CONFIRM still down from `BOOT_MENU` types an 'a' when the keyboard opens
  (`wallet1.ino:1210`);
* a reply of the TernaryCore element that misses its deadline, or that was on its way when
  the processor restarted, is taken by the next call that expects its prefix, and the deadline is reported as object not found
  (`ternarycore_se_hal.cpp:176`); `OkMeansDone` says what is left;
* the SE051 driver reads no status words, and its increment takes a failed read for 0
  and writes 1 (`se051_hal_esp.cpp:281`; `progress.txt:92`); the ATECC608B driver reads
  an unreadable counter as 0, increments it with success whatever the answer, and goes on
  with an unlocked element (`atecc608_hal_esp.cpp:619`, `:657`, `:269`).

## Proofs

Every property that the passing runs check and that is not liveness is a theorem: for
runs of any length, with power cut at any point where the run may cut it, and for all
values of the constants.  The theorems on `Wallet`, for instance, hold for every set of PINs,
mnemonics and identities, every PIN length, every limit and counter width.  The only
assumptions on constants are those named in the modules and, in some theorems on `Wallet`
and one on `PsbtSigner`, the faults they exclude, said below.

1. `TypeInv` (`TypeOK` and what is known of the words and the seed job at each
   stage of setup) is inductive by itself, with all faults.
2. `AuthInv` is inductive by itself: every screen of the open wallet, *and the one
   under the screensaver*, is shown only to who has `Passed`, and the handlers between
   the PIN and the first such screen run only for them.  `Passed` is `proved`, or, on a
   `DEV_BUILD` whose SE calls may fail, that `se051_init` reported an unprovisioned
   element; no step of the open wallet initialises the SE again.  The theorem has no
   assumption on the build or on the faults.
3. `SeedInv` (no SE faults): a chain code is never found without its own master
   key except behind a PIN.  That is what makes the seed stable: setup starts
   only where there is neither chain code nor PIN, and the wipe deletes the
   master key, then the chain code, and the PIN after both, so whatever is left
   of an interrupted wipe leads to the lock screen and not to setup.
   `SeedPairConsistent`, `PinSetupHasSeed` and `SeedKept` follow.
4. `LockInv` (no SE faults): at `PIN_ENTRY` the RAM copy of the counter is fresh
   and nothing is proved; a wipe that has still to delete the PIN has not yet
   come to the counter; the counter has recorded every try.  With `AuthInv` and
   `SeedInv` every step of `Wallet` is a step of `PinLockout` or a stutter
   (`AlwaysPinLimitsAttempts`, which needs a counter that can be reset).
5. `SignerInv` (`PsbtSignerProofs`), for any number of inputs, any selection, any
   key left in 0xF0 and every SE fault; it assumes that `None` is no signature.
   The promises of `psbt_sign` speak of its end only, so they are not inductive.
   What is, is `Progress`: before input `i` the device's signatures are those
   *due* up to `i - 1` (selected, owned, signable), `count` is their number and no
   input up to there was unsignable; and `CallInv`: between derivation and
   signature, 0xF0 holds the key of the current input.  At the end of the loop
   "due up to `i - 1`" is "due", and with count 0 nothing was signed, which is
   why `PSBT_SIGN_ERR_NO_PARTICIPANT` need not clear the signatures.
   `KeyFitsInput`, `FailureReturnsNothing`, `SuccessIsComplete` and
   `UnselectedUntouched` (the slots of inputs that are not selected are the host's, at
   any time before a failure; the runs check it of a PSBT that is sent back, in
   `SignedAsAsked`) follow.
6. `ReviewInv` (`TxReviewProofs`), for any set of transactions, any host, resets,
   SE faults and failing `malloc`: `SignerInv`, and what is known at each screen.
   `ConfirmedBeforeSigning` speaks of the signing only, so it is not inductive;
   `ConfirmedInv` says at each screen which of the screens this transaction needs
   (`Required`) are confirmed, with the selection as it is now: the selection changes
   only on a screen before the first of them.  A new transaction under review starts
   with none confirmed (`LoadUnconfirmed`); that it is complete with the last CONFIRM
   needs that the demo, which starts at the fee screen when it replaces the host's
   transaction, leaves no choice of inputs (`DemoNeedsNoChoice`: it has one input,
   `ReviewAssumption`).
   `CallScreenInv` ties the call to the screens that wait for it, and keeps the slots
   of the signatures as the host sent them until then, which is what every call of
   `psbt_sign` starts from.  The row of the coin control list under the cursor stands
   for an owned input because the owned inputs before a row number the rows
   (`RowIsOwned`: an injection between sets of one size).  With power and memory every
   step is a step of `SignRequest` or a stutter (`ReviewImplementsRequest`).
   `AlwaysSignedAsAsked` needs neither: what goes with SIGNED is what `psbt_sign`
   left on success, the slots have not changed since, and CONFIRM was for it.
7. `BudgetInv` and `GoneInv` (`WalletLockoutProofs`; no SE faults, a counter that can be
   reset).  The first: from the reset of the counter to the next lock nothing is
   counted.  The second: while a wipe runs, what of the owner is not gone yet is on its
   list; both lists start with all of it (seed, PIN, identity, passphrase flag and
   counter, not the scratch key), and the screen waits for the last entry.
   `PinReplacedOnlyByOwner` (with any counter) follows from `FreshInv` and `AuthInv`:
   of the two places that store a PIN, setup is never on a device with one, and the
   PIN change verifies the old one behind the lock.
8. `KeyIsDeleted` (`PsbtSignerProofs`): a call that met an owned input, and so derived a key,
   leaves 0xF0 empty.  It assumes that only signing may fail: a derivation whose
   acknowledgement is lost leaves a key that the code does not know of, and the result
   of `se051_delete_key` is ignored (`psbt_signer.cpp`), so it does not hold without.
   `ReviewTypeOK` needs `PlaceInv`: the index of the output on display is one of the
   outputs that are not change, of which there is one whenever that screen is reached.
9. `SeHalInv` (`SeHalProofs`), for any number of calls, restarts and attempts.
   `OkMeansDone` is about the moment a call returns; what is inductive is about the line.
   Commands have numbers, the probes of `se051_init` below zero, the calls above, and all
   that is under way has a number of this call or an earlier one (`IdInv`); the line is a
   queue, so behind the command of this call nothing is under way (`FifoInv`); and as
   long as no command was left unanswered, by a deadline or a restart in the middle of a
   call, nothing but that command is (`CleanInv`), so the first answer read is its own.
10. `IdleInv` (`IdleTimersProofs`), for all time-outs in the order of the code.  A pass is
    a chain of functions, and the state in the middle, with the clock on and the
    timers still to run, has an invariant of its own (`Early`).  `PreviewIsSaved` needs that no
    screensaver covers the contrast screen: its own time-out, which runs *after* the
    screensaver's, must come first, so the screen has been left alone for no more than
    `Short` at the end of a pass, and with the two ticks that may lie between two
    passes the screensaver is not due.  `StaleRestoreIsOver` is the action property: a pass in
    which a restore is too old takes no key.
11. `CompanionInv` (`CompanionProofs`), for any buffer, history and number of accounts,
    and any power losses.  `UsedInv` says what `UsedNeverShownAgain` leaves out: that the
    next index of *each* account is above what was confirmed, so that selecting
    another account, or losing RAM, keeps it.  `HistoryIsKept` is the action property: the
    writes of `tx_history_add` may collide on a key, and there is no induction over
    them; `Held`, the last write, is characterised instead, and from it follow what the entry
    of each number is when all writes are made and when power goes before the count
    (`HistoryKeepsLast` says in which cases that is harmless).
12. `KeyboardInv` (`KeyboardProofs`), for any word list that is sorted, of which no letter
    starts 256 words, and of which 'a' and 'b' do not start exactly one.  `LowerBoundIs`:
    the binary search, a recursive function, returns one more than the number of words
    before the prefix.  `Searched` gives a closed form of the search of every range; two
    functions that satisfy the equation of the search cannot differ, because on a shortest
    range where they differ the halves agree.  `MatchingIs`: from there the words with
    the prefix are contiguous (`PrefixBetween`), so the scan counts all of them.  On the keys:
    `EntryInv` ties the candidates to what is typed, and `PressInv` says why a press gives
    one word although taking a word and a long CANCEL clear `confirmPressedLastFrame`: the
    flag is set again in the same pass, or the entry is on its first letters, where
    `OneLetterIsShared` keeps CONFIRM from taking a word.

A least element of a set of naturals (`Least`) stands in for induction: the library's
induction theorems take an operator, so it comes from the well-foundedness of the
finite subsets of Nat, by way of the intervals.  Where a model's recursion is over a sequence
(`Wallet`'s wipe lists, the writes to NVS) the invariant speaks of what is left of it.

What the attempts to prove showed.  A restart in the middle of a call leaves a command
unanswered too, which its successor takes for its own: `OkMeansDone` did not except it, and
the run with one restart could not show it; it has two now.  What `Keyboard` assumed
of first letters (now `FirstLettersShared`) was only about 'a'; in a pass in which CONFIRM is still down from the menu and CANCEL goes
down the entry is on 'b', and a list with one word there would give a word without a
press.  The byte that counts the candidates (`predictiveTotalCount`) is wide enough only
because no letter starts 256 words (250 start with 's'): `LetterFitsByte`.

Only model-checked: liveness, which under fairness is outside the prover's reach:
`WipedBecomesNew`, the reply in `ServesRequests`, `EveryWordCanBeEntered`,
`LeftAloneIsProtected`, `FetchEnds`, `InfoAnswered`, `CallReturns`.  The safety part of
`ServesRequests` is proved (`ReviewImplementsRequest`).

## Not modelled

* Hash functions, elliptic curves, Base58, Bech32 and Base64: functions on long byte
  strings, used as injective functions; what they compute is out of TLC's reach.
* The parsing of a PSBT into `psbt_t` and of a line into numbers: the models start from
  what the parser leaves.
* Display layout, the QR encoder, the wording of messages.
* The firmware integrity check, which the build leaves out (`wallet1.ino:1`).
* The 10 s of the watchdog against the length of SE calls: `Wallet` lets it fire in any.
* Account names (`ACCOUNT_RENAME`), GET_XPUB and the provisioning of a factory hash.
* Build and provisioning scripts.

## Plan

Done: `Wallet`, `PsbtSigner` and `TxReview` with their abstract specifications,
`Keyboard`, `IdleTimers`, `Companion`, `SeHal`.

Left: the safety part of the two liveness properties whose ranking is simple (a fetch
consumes replies, a call its attempts) as theorems about a decreasing measure; the maps of a
PSBT, Base64 and Bech32 as operators on bounded inputs against reference definitions; the
renaming of accounts; the 10 s of the watchdog against the length of the calls of an I2C
driver with its attempts.
