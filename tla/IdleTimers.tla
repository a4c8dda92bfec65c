----------------------------- MODULE IdleTimers -----------------------------
(***************************************************************************)
(* The clock of loop() in wallet1.ino: what happens to a screen nobody     *)
(* presses a button on.  It shows the screensaver, goes dark, asks for the *)
(* PIN, gives up a restore, saves a previewed contrast, restarts.  With it *)
(* settings.cpp, screensaver.cpp and the head of handleNavigation(), which *)
(* decides whether a press reaches the screen.                             *)
(*                                                                         *)
(* A step is one pass of loop(): time goes on by 0, 1 or 2 ticks, the      *)
(* timers run in the order of the code, then the keys, then a frame of the *)
(* screensaver.  The time-outs are constants in ticks, their order that of *)
(* the code; a pass may jump over the tick a time-out names.               *)
(***************************************************************************)
EXTENDS Integers, Sequences

CONSTANTS Short,       \* DEVICE_ID_DISPLAY, WALLET_WIPED, SETTINGS_CONTRAST: 3, 4 and 5 s
          Saver,       \* SCREENSAVER_TIMEOUT_MS, and the 30 s after which words are dimmed
          Abandon,     \* 300 s for a restore
          DispMs,      \* settings_disp_timeout_ms by option, 0 for never
          LockMs,      \* settings_auto_lock_ms by option, 0 for never
          Forever,     \* where the clocks stop counting
          Contrasts, ContrastStep,  \* 0..SETTINGS_CONTRAST_MAX and SETTINGS_CONTRAST_STEP
          Right, Bottom             \* the largest corner of the logo on the canvas

ASSUME ConstantTypes ==
  /\ {Short, Saver, Abandon, Forever, Contrasts, ContrastStep} \subseteq Nat
  /\ {Right, Bottom} \subseteq Nat \ {0}
  /\ {DispMs, LockMs} \subseteq Seq(Nat) \ {<<>>}

ASSUME TimeoutOrder ==
  /\ Short + 2 < Saver /\ Saver < Abandon /\ Abandon < Forever
  /\ \A i \in DOMAIN DispMs : DispMs[i] = 0 \/ Saver <= DispMs[i]
  /\ \A i \in DOMAIN LockMs : LockMs[i] = 0 \/ Saver < LockMs[i]

\* The screens of the long condition of loop().
IdleScreens == {"MAIN_MENU", "SHOW_BALANCE", "SHOW_ADDRESS", "QR_DISPLAY", "PQC_STATUS",
                "TX_HISTORY", "MNEMONIC_DISPLAY", "BIP39_PREDICTIVE_INPUT", "PIN_ENTRY",
                "SETTINGS_MENU", "SETTINGS_TIMEOUT", "SETTINGS_AUTOLOCK", "SETTINGS_CONTRAST",
                "SETTINGS_ABOUT", "SETTINGS_FACTORY_RESET_CONFIRM", "SETTINGS_FACTORY_RESET_SURE"}
\* The others; SIGN_TX stands for those between the main menu and a reply to the host.
OtherScreens == {"BOOT_MENU", "RESTORE_ERROR", "PASSPHRASE_PROMPT", "PIN_SETUP", "DEVICE_ID_DISPLAY",
                 "SIGN_TX", "SETTINGS_CHANGE_PIN", "WALLET_WIPED", "SCREENSAVER"}
VARIABLES st,       \* screen, clocks, display and settings, see IdleTypeOK
          down,     \* the keys that were down in the last pass (s_prevConfirm, s_prevCancel)
          block,    \* the logo: position and direction
          digit,    \* observability: the key that moved a PIN digit in the last pass, if any
          woke      \* observability: keys down since they ended the dark or the screensaver
vars == <<st, down, block, digit, woke>>
Keys == {"CONFIRM", "CANCEL"}

Verifying(s) == s.screen = "BIP39_PREDICTIVE_INPUT" /\ s.verify
Restoring(s) == s.screen = "BIP39_PREDICTIVE_INPUT" /\ ~s.verify
ShowsWords(s) == s.screen = "MNEMONIC_DISPLAY" \/ Verifying(s)

Go(s, screen) == [s EXCEPT !.screen = screen]
Active(s) == [s EXCEPT !.idle = 0]

\* setup(): the clocks start with the processor, the stored contrast is applied.
Boot(s) ==
  [s EXCEPT !.screen = IF s.pinSet THEN "PIN_ENTRY" ELSE "BOOT_MENU", !.idle = 0, !.age = 0,
            !.lit = TRUE, !.verify = FALSE, !.prev = "MAIN_MENU", !.level = s.contrast]

\* settings_nvs_erase(): the defaults of settings_init at the next boot.
EraseSettings(s) == [s EXCEPT !.disp = 1, !.lock = 1, !.contrast = (Contrasts + 1) \div 2]

-----------------------------------------------------------------------------
(* The timers, in the order of loop()                                      *)

Cap(t) == IF t > Forever THEN Forever ELSE t
\* millis() has gone on by d; age is the time since deviceIdEnteredMs or restoreStartTime.
Tick(s, d) ==
  [s EXCEPT !.idle = Cap(@ + d),
            !.age = IF s.screen \in {"DEVICE_ID_DISPLAY", "RESTORE_ERROR"} \/ Restoring(s)
                       \/ (s.screen = "SCREENSAVER" /\ s.prev = "BIP39_PREDICTIVE_INPUT" /\ ~s.verify)
                    THEN Cap(@ + d) ELSE 0]

DeviceIdDone(s) == IF s.screen = "DEVICE_ID_DISPLAY" /\ s.age > Short THEN Go(s, "MAIN_MENU") ELSE s
WipedDone(s) == IF s.screen = "WALLET_WIPED" /\ s.idle > Short THEN Boot(s) ELSE s

DimWords(s) == IF ShowsWords(s) /\ s.lit /\ s.idle > Saver THEN [s EXCEPT !.lit = FALSE] ELSE s

\* Mutant of GiveUpRestore: the time is looked at only while the keys are idle.
GiveUpIdleRestore(s) == IF Restoring(s) /\ s.age > Abandon /\ s.idle > 0 THEN Go(s, "BOOT_MENU") ELSE s
GiveUpRestore(s) == IF Restoring(s) /\ s.age > Abandon THEN Go(s, "BOOT_MENU") ELSE s

\* Mutant of SaverDue: only the very tick of the time-out is recognised.
SaverDueAt(s) == s.lit /\ s.idle = Saver
SaverDue(s) == s.lit /\ s.idle >= Saver
StartSaver(s) == [s EXCEPT !.prev = s.screen, !.screen = "SCREENSAVER"]
AutoLock(s) == IF LockMs[s.lock] > 0 /\ s.idle > LockMs[s.lock] THEN Go(s, "PIN_ENTRY") ELSE s
DisplayTimeout(s) ==
  IF DispMs[s.disp] > 0 /\ s.lit /\ s.idle > DispMs[s.disp] THEN [s EXCEPT !.lit = FALSE] ELSE s
\* A lit screen gets the screensaver first; what it leaves is locked and darkened, except
\* where words or a PIN are being entered.
Idle(s) ==
  CASE s.screen \notin IdleScreens -> s
    [] s.screen \in IdleScreens /\ SaverDue(s) -> StartSaver(s)
    [] s.screen \in IdleScreens \ {"BIP39_PREDICTIVE_INPUT", "PIN_ENTRY"} /\ ~SaverDue(s) ->
         DisplayTimeout(AutoLock(s))
    [] OTHER -> s

\* Mutant of SaveContrast: the preview is left without storing it.
LeaveContrast(s) == IF s.screen = "SETTINGS_CONTRAST" /\ s.idle > Short THEN Go(s, "SETTINGS_MENU") ELSE s
SaveContrast(s) ==
  IF s.screen = "SETTINGS_CONTRAST" /\ s.idle > Short
  THEN [s EXCEPT !.screen = "SETTINGS_MENU", !.contrast = s.level] ELSE s

Then(Timer(_), S) == {Timer(s) : s \in S}
\* Where the timers of one pass lead: a set of one state.
Timers(s, d) ==
  Then(SaveContrast, Then(Idle, Then(GiveUpRestore, Then(DimWords, Then(WipedDone,
    Then(DeviceIdDone, {Tick(s, d)}))))))

-----------------------------------------------------------------------------
(* The keys                                                                *)

To(s, screens) == {Go(s, x) : x \in screens}
Next1(i, n) == 1 + (i % n)

\* CANCEL steps the contrast down and wraps at the bottom, CONFIRM up and at the top.
Dimmer(v) == IF v >= ContrastStep THEN v - ContrastStep ELSE Contrasts
Brighter(v) == IF v + ContrastStep <= Contrasts THEN v + ContrastStep ELSE 0

OpenSettings(s) ==
  {[Go(s, "SETTINGS_TIMEOUT") EXCEPT !.sub = s.disp], [Go(s, "SETTINGS_AUTOLOCK") EXCEPT !.sub = s.lock],
   [Go(s, "SETTINGS_CONTRAST") EXCEPT !.level = s.contrast]}
  \cup To(s, {"SETTINGS_CHANGE_PIN", "SETTINGS_FACTORY_RESET_CONFIRM", "SETTINGS_ABOUT"})

\* Mutant of ShowPhrase: the time of the last key is not set.
ShowPhraseStale(s) == [Go(s, "MNEMONIC_DISPLAY") EXCEPT !.lit = TRUE]
\* startMnemonicCeremony
ShowPhrase(s) == [Active(Go(s, "MNEMONIC_DISPLAY")) EXCEPT !.lit = TRUE]

\* The screens that act on the level of a key; several outcomes where the code decides by
\* state that is not kept here.  MAIN_MENU, SHOW_ADDRESS, QR_DISPLAY and the unlisted screens
\* do not touch lastActivityMs.
PressSetup(s, c) ==
  LET a == Active(s)
  IN CASE s.screen = "BOOT_MENU" /\ c ->
            {ShowPhrase(s), [Go(s, "BIP39_PREDICTIVE_INPUT") EXCEPT !.verify = FALSE, !.age = 0]}
       [] s.screen = "MNEMONIC_DISPLAY" ->
            IF c THEN {a, [Go(a, "BIP39_PREDICTIVE_INPUT") EXCEPT !.verify = TRUE]} ELSE {a}
       [] Verifying(s) -> {a} \cup To(a, {"MNEMONIC_DISPLAY", "PASSPHRASE_PROMPT"})
       [] Restoring(s) -> {a, Go(a, "PASSPHRASE_PROMPT"), [Go(a, "RESTORE_ERROR") EXCEPT !.age = 0]}
       [] s.screen = "RESTORE_ERROR" -> {[Go(s, "BIP39_PREDICTIVE_INPUT") EXCEPT !.verify = FALSE]}
       [] s.screen = "PASSPHRASE_PROMPT" -> {s, Go(s, "PIN_SETUP")}
       [] s.screen = "DEVICE_ID_DISPLAY" -> To(s, {"MAIN_MENU"})
       [] s.screen = "WALLET_WIPED" -> {Boot(s)}
       [] OTHER -> {}

PressOpen(s, c) ==
  LET a == Active(s)
  IN CASE s.screen = "MAIN_MENU" /\ c ->
            To(s, {"SHOW_BALANCE", "SHOW_ADDRESS", "SIGN_TX", "PQC_STATUS", "TX_HISTORY", "SETTINGS_MENU"})
       [] s.screen = "SHOW_ADDRESS" /\ c -> To(s, {"QR_DISPLAY"})
       [] s.screen = "QR_DISPLAY" -> To(s, {IF c THEN "MAIN_MENU" ELSE "SHOW_ADDRESS"})
       [] s.screen = "SIGN_TX" -> {s, Go(s, "MAIN_MENU")}
       [] s.screen \in {"SHOW_BALANCE", "TX_HISTORY"} -> {a, Go(a, "MAIN_MENU")}
       [] s.screen = "PQC_STATUS" -> {IF c THEN Go(a, "MAIN_MENU") ELSE a}
       [] OTHER -> {}

PressSettings(s, c) ==
  LET a == Active(s)
  IN CASE s.screen = "SETTINGS_MENU" ->
            IF c THEN OpenSettings([a EXCEPT !.lit = TRUE]) ELSE {[a EXCEPT !.lit = TRUE]}
       [] s.screen = "SETTINGS_TIMEOUT" ->
            {IF c THEN [Go(a, "SETTINGS_MENU") EXCEPT !.disp = s.sub]
             ELSE [a EXCEPT !.sub = Next1(@, Len(DispMs))]}
       [] s.screen = "SETTINGS_AUTOLOCK" ->
            {IF c THEN [Go(a, "SETTINGS_MENU") EXCEPT !.lock = s.sub]
             ELSE [a EXCEPT !.sub = Next1(@, Len(LockMs))]}
       [] s.screen = "SETTINGS_CONTRAST" -> {[a EXCEPT !.level = IF c THEN Brighter(@) ELSE Dimmer(@)]}
       [] s.screen = "SETTINGS_CHANGE_PIN" -> {a, Go(a, "SETTINGS_MENU")}
       [] s.screen = "SETTINGS_ABOUT" -> To(a, {"SETTINGS_MENU"})
       [] s.screen = "SETTINGS_FACTORY_RESET_CONFIRM" ->
            To(a, {IF c THEN "SETTINGS_FACTORY_RESET_SURE" ELSE "SETTINGS_MENU"})
       [] s.screen = "SETTINGS_FACTORY_RESET_SURE" ->
            {IF c THEN [EraseSettings(Go(a, "WALLET_WIPED")) EXCEPT !.pinSet = FALSE] ELSE Go(a, "SETTINGS_MENU")}
       [] OTHER -> {}

\* A key that does nothing on its screen leaves the state as it is.
Press(s, c) ==
  LET after == PressSetup(s, c) \cup PressOpen(s, c) \cup PressSettings(s, c)
  IN IF after = {} THEN {s} ELSE after

\* The PIN screens act on edges; a finished PIN is one of their outcomes.
PinScreens == {"PIN_SETUP", "PIN_ENTRY"}
AfterDigit(s) ==
  {s} \cup (IF s.screen = "PIN_SETUP" THEN {[Active(Go(s, "DEVICE_ID_DISPLAY")) EXCEPT !.pinSet = TRUE]}
            ELSE {[Active(Go(s, "WALLET_WIPED")) EXCEPT !.pinSet = FALSE]}
                 \cup (IF s.pinSet THEN {Go(s, "DEVICE_ID_DISPLAY")} ELSE {}))

\* Screens that look at CONFIRM first when both keys are down.
ConfirmFirst == {"MNEMONIC_DISPLAY", "SETTINGS_FACTORY_RESET_CONFIRM", "SETTINGS_FACTORY_RESET_SURE"}
ActsAsConfirm(s, pressed) == "CONFIRM" \in pressed /\ ("CANCEL" \notin pressed \/ s.screen \in ConfirmFirst)

Hidden(s) == ~s.lit \/ s.screen = "SCREENSAVER"
\* The key of a PIN screen that has just gone down, CONFIRM first.
Edge(s, pressed) ==
  IF Hidden(s) \/ s.screen \notin PinScreens \/ pressed \subseteq down THEN "none"
  ELSE IF "CONFIRM" \in pressed \ down THEN "CONFIRM" ELSE "CANCEL"

\* handleNavigation(): a press first lights the display, then ends the screensaver, and only
\* then reaches the screen.
Handle(s, pressed) ==
  CASE pressed = {} -> {s}
    [] pressed # {} /\ ~s.lit -> {[Active(s) EXCEPT !.lit = TRUE]}
    [] pressed # {} /\ s.lit /\ s.screen = "SCREENSAVER" -> {Active(Go(s, s.prev))}
    [] pressed # {} /\ ~Hidden(s) /\ s.screen \in PinScreens ->
         IF Edge(s, pressed) = "none" THEN {s} ELSE AfterDigit(s)
    [] OTHER -> Press(s, ActsAsConfirm(s, pressed))

\* Mutant of SeenKeys: the levels are remembered after the early returns, not before them.
SeenKeysLate(s, pressed) == IF Hidden(s) THEN down ELSE pressed
SeenKeys(s, pressed) == pressed

-----------------------------------------------------------------------------
(* The logo                                                                *)

StartBlock == [x |-> Right \div 2, y |-> Bottom \div 2, dx |-> 1, dy |-> 1]
Inside(v, max) == IF v <= 0 THEN 0 ELSE IF v >= max THEN max ELSE v
\* Mutant of Turn: the far edge turns nothing.
TurnAtTop(v, max, d) == IF v <= 0 THEN 1 ELSE d
Turn(v, max, d) == IF v <= 0 THEN 1 ELSE IF v >= max THEN -1 ELSE d
\* screensaver_update_position, when a frame is due
MoveBlock(b) == [x |-> Inside(b.x + b.dx, Right), dx |-> Turn(b.x + b.dx, Right, b.dx),
                 y |-> Inside(b.y + b.dy, Bottom), dy |-> Turn(b.y + b.dy, Bottom, b.dy)]

-----------------------------------------------------------------------------
Init ==
  /\ st = [screen |-> "BOOT_MENU", prev |-> "MAIN_MENU", idle |-> 0, age |-> 0, lit |-> TRUE,
           verify |-> FALSE, pinSet |-> FALSE, disp |-> 1, lock |-> 1, sub |-> 1,
           contrast |-> (Contrasts + 1) \div 2, level |-> (Contrasts + 1) \div 2]
  /\ down = {} /\ digit = "none" /\ woke = {} /\ block = StartBlock

\* What is not looked at again is not kept apart: the choice of a settings screen, the screen
\* under a screensaver that has ended, what the keyboard was for.
Tidy(s) ==
  LET shown == {s.screen} \cup (IF s.screen = "SCREENSAVER" THEN {s.prev} ELSE {})
  IN [s EXCEPT !.sub = IF shown \cap {"SETTINGS_TIMEOUT", "SETTINGS_AUTOLOCK"} = {} THEN 1 ELSE @,
               !.verify = @ /\ "BIP39_PREDICTIVE_INPUT" \in shown,
               !.prev = IF s.screen = "SCREENSAVER" THEN @ ELSE "MAIN_MENU"]

\* One pass of loop(); a frame of the screensaver is due every 50 ms, not in every pass.
Pass(d, pressed) ==
  \E s \in Timers(st, d) :
     /\ st' \in {Tidy(x) : x \in Handle(s, pressed)}
     /\ down' = SeenKeys(s, pressed)
     /\ digit' = Edge(s, pressed)
     /\ woke' = pressed \cap (IF Hidden(s) THEN Keys ELSE woke)
     /\ block' \in IF st'.screen = "SCREENSAVER" /\ st'.lit THEN {block, MoveBlock(block)} ELSE {StartBlock}

PowerCycle == st' = Tidy(Boot(st)) /\ down' = {} /\ digit' = "none" /\ woke' = {} /\ block' = StartBlock

\* Time and the loop go on; nobody has to press anything.
Idling == Pass(1, {}) \/ Pass(2, {})
Next == PowerCycle \/ \E d \in 0..2, pressed \in SUBSET Keys : Pass(d, pressed)
Spec == Init /\ [][Next]_vars /\ WF_vars(Idling)

-----------------------------------------------------------------------------
(* Properties                                                              *)

\* The state has its type: the screensaver comes over an idle screen only, and the logo is
\* on the canvas and has turned inwards at whatever edge or corner it meets.
IdleTypeOK ==
  /\ st.screen \in IdleScreens \cup OtherScreens /\ st.prev \in IdleScreens
  /\ st.idle \in 0..Forever /\ st.age \in 0..Forever
  /\ {st.lit, st.verify, st.pinSet} \subseteq BOOLEAN
  /\ st.disp \in DOMAIN DispMs /\ st.lock \in DOMAIN LockMs
  /\ {st.contrast, st.level} \subseteq 0..Contrasts
  /\ {block.x, block.x + block.dx} \subseteq 0..Right
  /\ {block.y, block.y + block.dy} \subseteq 0..Bottom

\* The words of a mnemonic are not left on a lit display: after 30 s without a key they are
\* dark or under the screensaver, on the display of the phrase and in its verification.
WordsHiddenWhenIdle == ShowsWords(st) /\ st.lit => st.idle < Saver

\* A restore given up after five minutes takes no more words: none is completed later, though
\* the screensaver, over which the timer is not looked at, may have been on in between.
StaleRestoreTakesNoKey ==
  [][Restoring(st) /\ st'.screen \in {"PASSPHRASE_PROMPT", "RESTORE_ERROR"} => st.age <= Abandon]_vars

\* The contrast seen on the display is the one that is stored, except while it is being chosen
\* and on the last screen of a reset, which has erased it and restarts: the screen of the
\* choice is left by its own timer, which saves it.
PreviewIsSaved == st.screen \notin {"SETTINGS_CONTRAST", "WALLET_WIPED"} => st.level = st.contrast

\* The press that ends the dark or the screensaver over a PIN screen enters no digit, however
\* long the key is held.
WakePressEntersNoDigit == digit \notin woke

\* A device left alone ends with its display protected: dark, under the moving logo, or on a
\* screen that loop() does not list.
LeftAlone == <>[](down = {} /\ st.idle > 0)
Protected == ~st.lit \/ st.screen \notin IdleScreens
LeftAloneIsProtected == LeftAlone => <>[]Protected

\* An open wallet nobody uses asks for the PIN again after the auto-lock time-out.
OpenScreens == IdleScreens \ {"MNEMONIC_DISPLAY", "BIP39_PREDICTIVE_INPUT", "PIN_ENTRY"}
IdleWalletLocks ==
  (IF st.screen = "SCREENSAVER" THEN st.prev ELSE st.screen) \in OpenScreens /\ LockMs[st.lock] > 0
    => st.idle <= LockMs[st.lock] + 2
=============================================================================
