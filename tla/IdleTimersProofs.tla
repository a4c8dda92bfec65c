-------------------------- MODULE IdleTimersProofs --------------------------
(***************************************************************************)
(* Proofs about module IdleTimers, for all time-outs in the order of the   *)
(* code, all options of the settings and any size of the canvas.           *)
(*                                                                         *)
(* A pass of loop() is a chain of functions of the state: time, the        *)
(* timers, the keys.  Each has a lemma, and the states between two of them *)
(* a predicate: Early where the clock has gone on and the timers have not  *)
(* run, Good at the end of a pass.                                         *)
(***************************************************************************)
EXTENDS IdleTimers, TLAPS

Screens == IdleScreens \cup OtherScreens
States == [screen : Screens, prev : IdleScreens, idle : 0..Forever, age : 0..Forever,
           lit : BOOLEAN, verify : BOOLEAN, pinSet : BOOLEAN,
           disp : DOMAIN DispMs, lock : DOMAIN LockMs, sub : Nat,
           contrast : 0..Contrasts, level : 0..Contrasts]

(* The screen that is shown, or that comes back after the screensaver.        *)
Under(s) == IF s.screen = "SCREENSAVER" THEN s.prev ELSE s.screen

(* What the timers and the keys all keep: the choice of a settings screen is  *)
(* one of its options, and no screensaver hides a contrast being chosen.      *)
Sound(s) ==
  /\ s \in States
  /\ Under(s) = "SETTINGS_TIMEOUT" => s.sub \in DOMAIN DispMs
  /\ Under(s) = "SETTINGS_AUTOLOCK" => s.sub \in DOMAIN LockMs
  /\ s.screen \notin {"SETTINGS_CONTRAST", "WALLET_WIPED"} => s.level = s.contrast
  /\ s.prev # "SETTINGS_CONTRAST"

(* The timer of the contrast runs after the one of the screensaver and must   *)
(* still come first: at most two ticks lie between two passes.                *)
Early(s) == Sound(s) /\ (s.screen = "SETTINGS_CONTRAST" => s.idle < Saver)

Good(s) ==
  /\ Sound(s)
  /\ s.screen = "SETTINGS_CONTRAST" => s.idle <= Short
  /\ ShowsWords(s) /\ s.lit => s.idle < Saver

Axis(v, d, max) == v \in 0..max /\ d \in {-1, 1} /\ v + d \in 0..max
OnCanvas(b) ==
  /\ b \in [x : 0..Right, y : 0..Bottom, dx : {-1, 1}, dy : {-1, 1}]
  /\ Axis(b.x, b.dx, Right) /\ Axis(b.y, b.dy, Bottom)

IdleInv ==
  /\ Good(st)
  /\ OnCanvas(block)
  /\ down \subseteq Keys /\ woke \subseteq down /\ digit \notin woke

-----------------------------------------------------------------------------
(* Constants                                                                  *)

LEMMA Ticks ==
  /\ Short \in Nat /\ Saver \in Nat /\ Abandon \in Nat /\ Forever \in Nat
  /\ Contrasts \in Nat /\ ContrastStep \in Nat
  /\ Right \in Nat \ {0} /\ Bottom \in Nat \ {0}
  /\ Short + 2 < Saver /\ Saver < Abandon /\ Abandon < Forever
BY ConstantTypes, TimeoutOrder

LEMMA Options ==
  /\ DispMs \in Seq(Nat) /\ DOMAIN DispMs = 1..Len(DispMs) /\ Len(DispMs) \in Nat \ {0} /\ 1 \in DOMAIN DispMs
  /\ LockMs \in Seq(Nat) /\ DOMAIN LockMs = 1..Len(LockMs) /\ Len(LockMs) \in Nat \ {0} /\ 1 \in DOMAIN LockMs
<1>1. DispMs \in Seq(Nat) /\ DispMs # <<>> /\ LockMs \in Seq(Nat) /\ LockMs # <<>>
  BY ConstantTypes
<1> QED BY <1>1

LEMMA NextOption ==
  ASSUME NEW i \in Nat
  PROVE  /\ Next1(i, Len(DispMs)) \in DOMAIN DispMs /\ Next1(i, Len(DispMs)) \in Nat
         /\ Next1(i, Len(LockMs)) \in DOMAIN LockMs /\ Next1(i, Len(LockMs)) \in Nat
<1>1. ASSUME NEW n \in Nat \ {0} PROVE Next1(i, n) \in 1..n
  BY DEF Next1
<1>2. Next1(i, Len(DispMs)) \in 1..Len(DispMs)
  BY <1>1, Options
<1>3. Next1(i, Len(LockMs)) \in 1..Len(LockMs)
  BY <1>1, Options
<1> QED BY <1>2, <1>3, Options

LEMMA ContrastSteps ==
  /\ (Contrasts + 1) \div 2 \in 0..Contrasts
  /\ \A v \in 0..Contrasts : Brighter(v) \in 0..Contrasts /\ Dimmer(v) \in 0..Contrasts
BY Ticks DEF Brighter, Dimmer

LEMMA DefaultScreens ==
  /\ "MAIN_MENU" \in IdleScreens /\ "PIN_ENTRY" \in IdleScreens /\ "SCREENSAVER" \in OtherScreens
  /\ "BOOT_MENU" \in OtherScreens /\ "SCREENSAVER" \notin IdleScreens /\ "WALLET_WIPED" \notin IdleScreens
BY DEF IdleScreens, OtherScreens

-----------------------------------------------------------------------------
(* The timers                                                                 *)

LEMMA CapType == ASSUME NEW t \in Nat PROVE Cap(t) \in 0..Forever /\ Cap(t) <= t
BY Ticks DEF Cap

LEMMA TickEarly ==
  ASSUME NEW s, Good(s), NEW d \in 0..2
  PROVE  Early(Tick(s, d))
<1> DEFINE x == Tick(s, d)
<1>1. s \in States
  BY DEF Good, Sound
<1>2. s.idle + d \in Nat /\ s.age + d \in Nat
  BY <1>1, Ticks DEF States
<1>3. Cap(s.idle + d) \in 0..Forever /\ Cap(s.idle + d) <= s.idle + d /\ Cap(s.age + d) \in 0..Forever
  BY <1>2, CapType
<1>4. PICK a \in 0..Forever : x = [s EXCEPT !.idle = Cap(s.idle + d), !.age = a]
  <2>1. 0 \in 0..Forever
    BY Ticks
  <2> QED BY <1>1, <1>3, <2>1 DEF Tick, States
<1>5. x \in States /\ x.idle = Cap(s.idle + d) /\ x.screen = s.screen /\ x.prev = s.prev
      /\ x.sub = s.sub /\ x.level = s.level /\ x.contrast = s.contrast
  BY <1>1, <1>3, <1>4 DEF States
<1> HIDE DEF x
<1>6. Sound(x)
  BY <1>5 DEF Sound, Good, Under
<1>7. ASSUME x.screen = "SETTINGS_CONTRAST" PROVE x.idle < Saver
  <2>1. s.idle <= Short /\ s.idle \in Nat
    BY <1>1, <1>5, <1>7, Ticks DEF Good, States
  <2> QED BY <1>3, <1>5, <2>1, Ticks
<1> QED BY <1>6, <1>7 DEF Early, x

LEMMA BootGood == ASSUME NEW s \in States PROVE Good(Boot(s))
<1>1. s.pinSet \in BOOLEAN /\ s.contrast \in 0..Contrasts
  BY DEF States
<1>2. PICK scr \in {"PIN_ENTRY", "BOOT_MENU"} : scr = IF s.pinSet THEN "PIN_ENTRY" ELSE "BOOT_MENU"
  BY <1>1
<1>3. Boot(s) = [s EXCEPT !.screen = scr, !.idle = 0, !.age = 0, !.lit = TRUE, !.verify = FALSE,
                          !.prev = "MAIN_MENU", !.level = s.contrast]
  BY <1>2 DEF Boot
<1>4. scr \in Screens /\ "MAIN_MENU" \in IdleScreens /\ 0 \in 0..Forever
  BY Ticks, DefaultScreens DEF Screens
<1>5. Boot(s) \in States /\ Boot(s).screen = scr /\ Boot(s).prev = "MAIN_MENU" /\ Boot(s).level = Boot(s).contrast
  BY <1>1, <1>3, <1>4 DEF States
<1> QED BY <1>2, <1>5 DEF Good, Sound, Under, ShowsWords, Verifying

LEMMA WipedEarly ==
  ASSUME NEW s, Early(s)
  PROVE  Early(WipedDone(s))
<1>1. s \in States
  BY DEF Early, Sound
<1>2. Good(Boot(s))
  BY <1>1, BootGood
<1>3. Early(Boot(s))
  BY <1>1, <1>2, Ticks DEF Good, Early, States, Sound
<1> QED BY <1>3 DEF WipedDone

(* The timers that only leave a screen or darken the display.                 *)
LEMMA LeaveEarly ==
  ASSUME NEW s, Early(s)
  PROVE  Early(DeviceIdDone(s)) /\ Early(DimWords(s)) /\ Early(GiveUpRestore(s))
<1>1. s \in States /\ Sound(s)
  BY DEF Early, Sound
<1>2. ASSUME NEW scr \in {"MAIN_MENU", "BOOT_MENU"}, s.screen \notin {"SETTINGS_CONTRAST", "WALLET_WIPED"}
      PROVE  Early(Go(s, scr))
  <2>1. scr \in Screens
    BY DefaultScreens DEF Screens
  <2>2. Go(s, scr) \in States /\ Go(s, scr).screen = scr /\ Go(s, scr).prev = s.prev
        /\ Go(s, scr).level = s.level /\ Go(s, scr).contrast = s.contrast
    BY <1>1, <2>1 DEF Go, States
  <2> QED BY <1>1, <1>2, <2>2 DEF Early, Sound, Under
<1>3. Early([s EXCEPT !.lit = FALSE])
  <2> DEFINE x == [s EXCEPT !.lit = FALSE]
  <2>1. x \in States /\ x.screen = s.screen /\ x.prev = s.prev /\ x.sub = s.sub
        /\ x.level = s.level /\ x.contrast = s.contrast /\ x.idle = s.idle
    BY <1>1 DEF States
  <2> HIDE DEF x
  <2>2. Early(x)
    BY <1>1, <2>1 DEF Early, Sound, Under
  <2> QED BY <2>2 DEF x
<1>4. Early(DeviceIdDone(s))
  BY <1>2 DEF DeviceIdDone
<1>5. Early(DimWords(s))
  BY <1>3 DEF DimWords
<1>6. Early(GiveUpRestore(s))
  BY <1>2 DEF GiveUpRestore, Restoring
<1> QED BY <1>4, <1>5, <1>6

LEMMA IdleEarly ==
  ASSUME NEW s, Early(s)
  PROVE  Early(Idle(s)) /\ (ShowsWords(Idle(s)) /\ Idle(s).lit => Idle(s).idle < Saver)
<1> DEFINE Calm(x) == Early(x) /\ (ShowsWords(x) /\ x.lit => x.idle < Saver)
<1>0. s \in States /\ Sound(s) /\ s.idle \in Nat
  BY Ticks DEF Early, Sound, States
<1>1. CASE s.screen \notin IdleScreens
  <2>1. ~ShowsWords(s)
    BY <1>1 DEF ShowsWords, Verifying, IdleScreens
  <2> QED BY <1>1, <2>1 DEF Idle
<1>2. CASE s.screen \in IdleScreens /\ SaverDue(s)
  <2> DEFINE x == StartSaver(s)
  <2>1. s.screen # "SETTINGS_CONTRAST" /\ s.screen # "WALLET_WIPED"
    BY <1>0, <1>2, Ticks, DefaultScreens DEF Early, SaverDue
  <2>2. x \in States /\ x.screen = "SCREENSAVER" /\ x.prev = s.screen /\ x.sub = s.sub
        /\ x.level = s.level /\ x.contrast = s.contrast
    BY <1>0, <1>2, DefaultScreens DEF StartSaver, States, Screens
  <2>3. Under(s) = s.screen
    BY <1>2, DefaultScreens DEF Under
  <2> HIDE DEF x
  <2>4. Early(x) /\ ~ShowsWords(x)
    BY <1>0, <2>1, <2>2, <2>3 DEF Early, Sound, Under, ShowsWords, Verifying
  <2> QED BY <1>2, <2>4 DEF Idle, x
<1>3. CASE s.screen \in IdleScreens \ {"BIP39_PREDICTIVE_INPUT", "PIN_ENTRY"} /\ ~SaverDue(s)
  <2> DEFINE y == AutoLock(s)
             x == DisplayTimeout(y)
  <2>1. Early(y) /\ (ShowsWords(y) /\ y.lit => y.idle < Saver)
    <3>1. CASE y = s
      BY <1>0, <1>3, <3>1, Ticks DEF SaverDue
    <3>2. CASE y = Go(s, "PIN_ENTRY") /\ s.idle > LockMs[s.lock] /\ LockMs[s.lock] > 0
      <4>1. LockMs[s.lock] > Saver /\ LockMs[s.lock] \in Nat
        BY <1>0, <3>2, Options, TimeoutOrder, Ticks DEF States
      <4>2. s.screen # "SETTINGS_CONTRAST" /\ s.screen # "WALLET_WIPED"
        BY <1>0, <1>3, <3>2, <4>1, Ticks, DefaultScreens DEF Early
      <4>3. y \in States /\ y.screen = "PIN_ENTRY" /\ y.prev = s.prev /\ y.level = s.level /\ y.contrast = s.contrast
        BY <1>0, <3>2, DefaultScreens DEF Go, States, Screens
      <4> HIDE DEF y
      <4> QED BY <1>0, <4>2, <4>3 DEF Early, Sound, Under, ShowsWords, Verifying
    <3> QED BY <3>1, <3>2 DEF AutoLock
  <2> HIDE DEF y
  <2>2. y \in States
    BY <2>1 DEF Early, Sound
  <2>3. CASE x = y
    BY <1>3, <2>1, <2>3 DEF Idle, y
  <2>4. CASE x = [y EXCEPT !.lit = FALSE]
    <3>1. x \in States /\ x.screen = y.screen /\ x.prev = y.prev /\ x.sub = y.sub /\ ~x.lit
          /\ x.level = y.level /\ x.contrast = y.contrast /\ x.idle = y.idle
      BY <2>2, <2>4 DEF States
    <3> HIDE DEF x
    <3>2. Early(x) /\ ~x.lit
      BY <2>1, <3>1 DEF Early, Sound, Under
    <3> QED BY <1>3, <3>2 DEF Idle, x, y
  <2> QED BY <2>3, <2>4 DEF DisplayTimeout
<1>4. CASE s.screen \in {"BIP39_PREDICTIVE_INPUT", "PIN_ENTRY"} /\ ~SaverDue(s)
  BY <1>0, <1>4, Ticks DEF Idle, SaverDue, IdleScreens
<1> QED BY <1>1, <1>2, <1>3, <1>4

LEMMA SaveContrastGood ==
  ASSUME NEW s, Early(s), ShowsWords(s) /\ s.lit => s.idle < Saver
  PROVE  Good(SaveContrast(s))
<1>0. s \in States /\ Sound(s) /\ s.idle \in Nat
  BY Ticks DEF Early, Sound, States
<1>1. CASE s.screen = "SETTINGS_CONTRAST" /\ s.idle > Short
  <2> DEFINE x == [s EXCEPT !.screen = "SETTINGS_MENU", !.contrast = s.level]
  <2>0. "SETTINGS_MENU" \in Screens /\ s.level \in 0..Contrasts
    BY <1>0 DEF Screens, IdleScreens, States
  <2>1. x \in States /\ x.screen = "SETTINGS_MENU" /\ x.prev = s.prev /\ x.level = x.contrast
    BY <1>0, <2>0 DEF States
  <2>2. SaveContrast(s) = x
    BY <1>1 DEF SaveContrast
  <2> HIDE DEF x
  <2> QED BY <1>0, <2>1, <2>2 DEF Good, Sound, Under, ShowsWords, Verifying
<1>2. CASE ~(s.screen = "SETTINGS_CONTRAST" /\ s.idle > Short)
  BY <1>0, <1>2, Ticks DEF SaveContrast, Good, Early
<1> QED BY <1>1, <1>2

LEMMA TimersChain ==
  ASSUME NEW s, NEW d, NEW x \in Timers(s, d)
  PROVE  x = SaveContrast(Idle(GiveUpRestore(DimWords(WipedDone(DeviceIdDone(Tick(s, d)))))))
BY DEF Timers, Then

LEMMA TimersGood ==
  ASSUME NEW s, Good(s), NEW d \in 0..2, NEW x \in Timers(s, d)
  PROVE  Good(x)
<1>1. Early(DeviceIdDone(Tick(s, d)))
  BY TickEarly, LeaveEarly
<1>2. Early(WipedDone(DeviceIdDone(Tick(s, d))))
  BY <1>1, WipedEarly
<1>3. Early(GiveUpRestore(DimWords(WipedDone(DeviceIdDone(Tick(s, d))))))
  BY <1>2, LeaveEarly
<1>4. Good(SaveContrast(Idle(GiveUpRestore(DimWords(WipedDone(DeviceIdDone(Tick(s, d))))))))
  BY <1>3, IdleEarly, SaveContrastGood
<1> QED BY <1>4, TimersChain

(* The timer of a restore comes before the keys: once five minutes have gone  *)
(* by, no key finds the keyboard.                                             *)
LEMMA StaleRestoreEnds ==
  ASSUME NEW s \in States, Restoring(s), s.age > Abandon, NEW d \in 0..2, NEW x \in Timers(s, d)
  PROVE  x.screen = "BOOT_MENU"
<1> DEFINE t == Tick(s, d)
<1>0. s.screen = "BIP39_PREDICTIVE_INPUT" /\ ~s.verify /\ s.age \in Nat /\ s.age <= Forever
  BY Ticks DEF Restoring, States
<1>1. t.screen = "BIP39_PREDICTIVE_INPUT" /\ ~t.verify /\ t.age = Cap(s.age + d) /\ t \in [DOMAIN s -> {t[f] : f \in DOMAIN s}]
  BY <1>0 DEF Tick, States, Restoring
<1>2. Cap(s.age + d) > Abandon
  BY <1>0, Ticks DEF Cap
<1> HIDE DEF t
<1>3. DeviceIdDone(t) = t /\ WipedDone(t) = t /\ DimWords(t) = t
  BY <1>1 DEF DeviceIdDone, WipedDone, DimWords, ShowsWords, Verifying
<1>4. GiveUpRestore(t) = Go(t, "BOOT_MENU") /\ Go(t, "BOOT_MENU").screen = "BOOT_MENU"
  <2>1. "screen" \in DOMAIN s
    BY DEF States
  <2>2. "screen" \in DOMAIN t
    BY <1>1, <2>1
  <2> QED BY <1>1, <1>2, <2>2 DEF GiveUpRestore, Restoring, Go
<1> DEFINE u == Go(t, "BOOT_MENU")
<1>5. Idle(u) = u /\ SaveContrast(u) = u
  BY <1>4 DEF Idle, SaveContrast, IdleScreens
<1> QED BY <1>3, <1>4, <1>5, TimersChain DEF t

-----------------------------------------------------------------------------
(* The keys                                                                   *)

Choosing == {"SETTINGS_CONTRAST", "SETTINGS_TIMEOUT", "SETTINGS_AUTOLOCK"}

LEMMA ActiveState ==
  ASSUME NEW s \in States
  PROVE  /\ Active(s) \in States /\ Active(s).idle = 0
         /\ Active(s) = [s EXCEPT !.idle = 0]
         /\ Active(s).screen = s.screen /\ Active(s).prev = s.prev /\ Active(s).sub = s.sub
         /\ Active(s).lit = s.lit /\ Active(s).verify = s.verify
         /\ Active(s).level = s.level /\ Active(s).contrast = s.contrast
BY Ticks DEF Active, States

LEMMA ActiveGood == ASSUME NEW s, Good(s) PROVE Good(Active(s))
<1>1. s \in States
  BY DEF Good, Sound
<1> DEFINE a == Active(s)
<1>2. a \in States /\ a.idle = 0 /\ a.screen = s.screen /\ a.prev = s.prev /\ a.sub = s.sub
      /\ a.level = s.level /\ a.contrast = s.contrast
  BY <1>1, ActiveState
<1> HIDE DEF a
<1>3. Good(a)
  BY <1>2, Ticks DEF Good, Sound, Under
<1> QED BY <1>3 DEF a

(* A screen on which nothing is chosen may be opened from any screen that has *)
(* the stored contrast on the display.                                        *)
LEMMA OpenGood ==
  ASSUME NEW x \in States, x.level = x.contrast, x.prev # "SETTINGS_CONTRAST",
         x.screen \notin Choosing \cup {"SCREENSAVER"},
         ShowsWords(x) => x.idle = 0
  PROVE  Good(x)
BY Ticks DEF Good, Sound, Under, Choosing

LEMMA GoState ==
  ASSUME NEW s \in States, NEW scr \in Screens
  PROVE  /\ Go(s, scr) \in States /\ Go(s, scr).screen = scr
         /\ Go(s, scr).prev = s.prev /\ Go(s, scr).sub = s.sub /\ Go(s, scr).idle = s.idle
         /\ Go(s, scr).verify = s.verify /\ Go(s, scr).lit = s.lit
         /\ Go(s, scr).level = s.level /\ Go(s, scr).contrast = s.contrast
BY DEF Go, States

LEMMA GoGood ==
  ASSUME NEW s \in States, s.level = s.contrast, s.prev # "SETTINGS_CONTRAST",
         NEW scr \in Screens \ (Choosing \cup {"SCREENSAVER"}),
         scr \in {"MNEMONIC_DISPLAY", "BIP39_PREDICTIVE_INPUT"} => s.idle = 0
  PROVE  Good(Go(s, scr))
<1> DEFINE x == Go(s, scr)
<1>1. x \in States /\ x.screen = scr /\ x.prev = s.prev /\ x.idle = s.idle
      /\ x.level = s.level /\ x.contrast = s.contrast
  BY GoState
<1> HIDE DEF x
<1>2. Good(x)
  BY <1>1, OpenGood DEF ShowsWords, Verifying
<1> QED BY <1>2 DEF x

LEMMA PressSetupGood ==
  ASSUME NEW s, Good(s), NEW c \in BOOLEAN, NEW x \in PressSetup(s, c)
  PROVE  Good(x)
<1> DEFINE a == Active(s)
<1>0. /\ s \in States /\ a \in States /\ a.idle = 0 /\ Good(a)
      /\ a.screen = s.screen /\ a.prev = s.prev /\ a.level = s.level /\ a.contrast = s.contrast
      /\ s.prev # "SETTINGS_CONTRAST" /\ a.verify = s.verify /\ 0 \in 0..Forever
  BY ActiveState, ActiveGood, Ticks DEF Good, Sound
<1>s. {"MNEMONIC_DISPLAY", "BIP39_PREDICTIVE_INPUT", "PASSPHRASE_PROMPT", "RESTORE_ERROR", "PIN_SETUP", "MAIN_MENU"}
        \subseteq Screens \ (Choosing \cup {"SCREENSAVER"})
  BY DEF Screens, IdleScreens, OtherScreens, Choosing
<1>l. s.screen \notin {"SETTINGS_CONTRAST", "WALLET_WIPED"} => s.level = s.contrast
  BY DEF Good, Sound
<1> HIDE DEF a
<1>1. CASE s.screen = "BOOT_MENU" /\ c
  <2>1. CASE x = ShowPhrase(s)
    <3> DEFINE m == [Go(s, "MNEMONIC_DISPLAY") EXCEPT !.idle = 0]
               y == [m EXCEPT !.lit = TRUE]
    <3>0. "MNEMONIC_DISPLAY" \in Screens
      BY <1>s
    <3>1. m \in States /\ m.idle = 0 /\ m.screen = "MNEMONIC_DISPLAY" /\ m.prev = s.prev
          /\ m.level = s.level /\ m.contrast = s.contrast
      BY <1>0, <3>0 DEF Go, States
    <3>2. x = y
      BY <2>1 DEF ShowPhrase, Active
    <3> HIDE DEF m
    <3>3. y \in States /\ y.idle = 0 /\ y.screen = "MNEMONIC_DISPLAY" /\ y.prev = s.prev
          /\ y.level = s.level /\ y.contrast = s.contrast
      BY <3>1 DEF States
    <3> HIDE DEF y
    <3> QED BY <1>0, <1>1, <1>l, <3>2, <3>3, Ticks DEF Good, Sound, Under
  <2>2. CASE x = [Go(s, "BIP39_PREDICTIVE_INPUT") EXCEPT !.verify = FALSE, !.age = 0]
    <3>1. x \in States /\ x.screen = "BIP39_PREDICTIVE_INPUT" /\ ~x.verify /\ x.prev = s.prev
          /\ x.level = s.level /\ x.contrast = s.contrast
      BY <2>2, <1>0, <1>s DEF Go, States
    <3> QED BY <1>0, <1>1, <1>l, <3>1, OpenGood DEF ShowsWords, Verifying, Choosing
  <2> QED BY <1>1, <2>1, <2>2 DEF PressSetup, Verifying, Restoring
<1>2. CASE s.screen = "MNEMONIC_DISPLAY"
  <2>1. CASE x = a
    BY <1>0, <2>1
  <2>2. CASE x = [Go(a, "BIP39_PREDICTIVE_INPUT") EXCEPT !.verify = TRUE]
    <3>1. x \in States /\ x.screen = "BIP39_PREDICTIVE_INPUT" /\ x.idle = 0 /\ x.prev = s.prev
          /\ x.level = s.level /\ x.contrast = s.contrast
      BY <2>2, <1>0, <1>s DEF Go, States
    <3> QED BY <1>0, <1>2, <1>l, <3>1, OpenGood DEF Choosing
  <2> QED BY <1>2, <2>1, <2>2 DEF PressSetup, Verifying, Restoring, a
<1>3. CASE Verifying(s)
  <2>1. x = a \/ x = Go(a, "MNEMONIC_DISPLAY") \/ x = Go(a, "PASSPHRASE_PROMPT")
    BY <1>3 DEF PressSetup, To, Verifying, Restoring, a
  <2> QED BY <1>0, <1>3, <1>s, <1>l, <2>1, GoGood DEF Verifying
<1>4. CASE Restoring(s)
  <2>1. x = a \/ x = Go(a, "PASSPHRASE_PROMPT") \/ x = [Go(a, "RESTORE_ERROR") EXCEPT !.age = 0]
    BY <1>4 DEF PressSetup, Verifying, Restoring, a
  <2>2. CASE x = [Go(a, "RESTORE_ERROR") EXCEPT !.age = 0]
    <3>1. x \in States /\ x.screen = "RESTORE_ERROR" /\ x.prev = s.prev
          /\ x.level = s.level /\ x.contrast = s.contrast
      BY <2>2, <1>0, <1>s DEF Go, States
    <3> QED BY <1>0, <1>4, <1>l, <3>1, OpenGood DEF Restoring, ShowsWords, Verifying, Choosing
  <2> QED BY <1>0, <1>4, <1>s, <1>l, <2>1, <2>2, GoGood DEF Restoring
<1>5. CASE s.screen = "RESTORE_ERROR"
  <2>1. x = [Go(s, "BIP39_PREDICTIVE_INPUT") EXCEPT !.verify = FALSE]
    BY <1>5 DEF PressSetup, Verifying, Restoring
  <2>2. x \in States /\ x.screen = "BIP39_PREDICTIVE_INPUT" /\ ~x.verify /\ x.prev = s.prev
        /\ x.level = s.level /\ x.contrast = s.contrast
    BY <2>1, <1>0, <1>s DEF Go, States
  <2> QED BY <1>0, <1>5, <1>l, <2>2, OpenGood DEF ShowsWords, Verifying, Choosing
<1>6. CASE s.screen = "PASSPHRASE_PROMPT"
  <2>1. x = s \/ x = Go(s, "PIN_SETUP")
    BY <1>6 DEF PressSetup, Verifying, Restoring
  <2> QED BY <1>0, <1>6, <1>s, <1>l, <2>1, GoGood
<1>7. CASE s.screen = "DEVICE_ID_DISPLAY"
  <2>1. x = Go(s, "MAIN_MENU")
    BY <1>7 DEF PressSetup, Verifying, Restoring, To
  <2> QED BY <1>0, <1>7, <1>s, <1>l, <2>1, GoGood
<1>8. CASE s.screen = "WALLET_WIPED"
  <2>1. x = Boot(s)
    BY <1>8 DEF PressSetup, Verifying, Restoring
  <2> QED BY <1>0, <2>1, BootGood
<1> QED BY <1>1, <1>2, <1>3, <1>4, <1>5, <1>6, <1>7, <1>8 DEF PressSetup

LEMMA PressOpenGood ==
  ASSUME NEW s, Good(s), NEW c \in BOOLEAN, NEW x \in PressOpen(s, c)
  PROVE  Good(x)
<1> DEFINE a == Active(s)
           Plain == {"MAIN_MENU", "SHOW_BALANCE", "SHOW_ADDRESS", "SIGN_TX", "PQC_STATUS", "TX_HISTORY",
                     "SETTINGS_MENU", "QR_DISPLAY"}
<1>0. /\ s \in States /\ a \in States /\ Good(a)
      /\ a.screen = s.screen /\ a.prev = s.prev /\ a.level = s.level /\ a.contrast = s.contrast
      /\ s.prev # "SETTINGS_CONTRAST"
      /\ s.screen \notin {"SETTINGS_CONTRAST", "WALLET_WIPED"} => s.level = s.contrast
  BY ActiveState, ActiveGood DEF Good, Sound
<1> HIDE DEF a
<1>1. s.screen \in Plain
  BY DEF PressOpen
<1>2. \/ x \in {s, a}
      \/ \E scr \in Plain : x = Go(s, scr) \/ x = Go(a, scr)
  <2>1. CASE s.screen = "MAIN_MENU"
    BY <2>1 DEF PressOpen, To
  <2>2. CASE s.screen = "SHOW_ADDRESS"
    BY <2>2 DEF PressOpen, To
  <2>3. CASE s.screen = "QR_DISPLAY"
    BY <2>3 DEF PressOpen, To
  <2>4. CASE s.screen = "SIGN_TX"
    BY <2>4 DEF PressOpen
  <2>5. CASE s.screen \in {"SHOW_BALANCE", "TX_HISTORY"}
    BY <2>5 DEF PressOpen, a
  <2>6. CASE s.screen = "PQC_STATUS"
    BY <2>6 DEF PressOpen, a
  <2>7. CASE s.screen = "SETTINGS_MENU"
    BY <2>7 DEF PressOpen
  <2> QED BY <1>1, <2>1, <2>2, <2>3, <2>4, <2>5, <2>6, <2>7
<1>3. Plain \subseteq Screens \ (Choosing \cup {"SCREENSAVER"})
  BY DEF Screens, IdleScreens, OtherScreens, Choosing
<1>4. ASSUME NEW scr \in Plain PROVE Good(Go(s, scr)) /\ Good(Go(a, scr))
  BY <1>0, <1>1, <1>3, GoGood
<1> QED BY <1>0, <1>2, <1>4

LEMMA OpenSettingsGood ==
  ASSUME NEW s \in States, s.level = s.contrast, s.prev # "SETTINGS_CONTRAST", s.idle = 0,
         NEW x \in OpenSettings(s)
  PROVE  Good(x)
<1>s. {"SETTINGS_TIMEOUT", "SETTINGS_AUTOLOCK", "SETTINGS_CONTRAST"} \subseteq Screens
      /\ {"SETTINGS_CHANGE_PIN", "SETTINGS_FACTORY_RESET_CONFIRM", "SETTINGS_ABOUT"}
           \subseteq Screens \ (Choosing \cup {"SCREENSAVER"})
  BY DEF Screens, IdleScreens, OtherScreens, Choosing
<1>o. s.disp \in DOMAIN DispMs /\ s.disp \in Nat /\ s.lock \in DOMAIN LockMs /\ s.lock \in Nat
  BY Options DEF States
<1>1. CASE x = [Go(s, "SETTINGS_TIMEOUT") EXCEPT !.sub = s.disp]
  <2>1. x \in States /\ x.screen = "SETTINGS_TIMEOUT" /\ x.sub = s.disp /\ x.prev = s.prev
        /\ x.level = s.level /\ x.contrast = s.contrast
    BY <1>1, <1>s, <1>o DEF Go, States
  <2> QED BY <1>o, <2>1 DEF Good, Sound, Under, ShowsWords, Verifying
<1>2. CASE x = [Go(s, "SETTINGS_AUTOLOCK") EXCEPT !.sub = s.lock]
  <2>1. x \in States /\ x.screen = "SETTINGS_AUTOLOCK" /\ x.sub = s.lock /\ x.prev = s.prev
        /\ x.level = s.level /\ x.contrast = s.contrast
    BY <1>2, <1>s, <1>o DEF Go, States
  <2> QED BY <1>o, <2>1 DEF Good, Sound, Under, ShowsWords, Verifying
<1>3. CASE x = [Go(s, "SETTINGS_CONTRAST") EXCEPT !.level = s.contrast]
  <2>1. x \in States /\ x.screen = "SETTINGS_CONTRAST" /\ x.prev = s.prev /\ x.idle = 0
    BY <1>3, <1>s DEF Go, States
  <2> QED BY <2>1, Ticks DEF Good, Sound, Under, ShowsWords, Verifying
<1>4. ASSUME NEW scr \in {"SETTINGS_CHANGE_PIN", "SETTINGS_FACTORY_RESET_CONFIRM", "SETTINGS_ABOUT"}
      PROVE  Good(Go(s, scr))
  BY <1>s, GoGood
<1> QED BY <1>1, <1>2, <1>3, <1>4 DEF OpenSettings, To

LEMMA PressSettingsGood ==
  ASSUME NEW s, Good(s), NEW c \in BOOLEAN, NEW x \in PressSettings(s, c)
  PROVE  Good(x)
<1> DEFINE a == Active(s)
<1>0. /\ s \in States /\ a \in States /\ a.idle = 0 /\ Good(a)
      /\ a.screen = s.screen /\ a.prev = s.prev /\ a.level = s.level /\ a.contrast = s.contrast
      /\ a.sub = s.sub /\ s.prev # "SETTINGS_CONTRAST" /\ s.sub \in Nat
  BY ActiveState, ActiveGood DEF Good, Sound, States
<1>l. s.screen \notin {"SETTINGS_CONTRAST", "WALLET_WIPED"} => s.level = s.contrast
  BY DEF Good, Sound
<1>s. {"SETTINGS_MENU", "SETTINGS_FACTORY_RESET_SURE"} \subseteq Screens \ (Choosing \cup {"SCREENSAVER"})
      /\ "WALLET_WIPED" \in Screens
  BY DEF Screens, IdleScreens, OtherScreens, Choosing
<1> HIDE DEF a
<1>m. s.screen \notin {"SETTINGS_CONTRAST", "WALLET_WIPED"} => Good(Go(a, "SETTINGS_MENU"))
  BY <1>0, <1>l, <1>s, GoGood
<1>1. CASE s.screen = "SETTINGS_MENU"
  <2> DEFINE y == [a EXCEPT !.lit = TRUE]
  <2>1. y \in States /\ y.idle = 0 /\ y.screen = "SETTINGS_MENU" /\ y.prev = s.prev
        /\ y.level = s.level /\ y.contrast = s.contrast
    BY <1>0, <1>1 DEF States
  <2>2. x = y \/ x \in OpenSettings(y)
    BY <1>1 DEF PressSettings, a
  <2> HIDE DEF y
  <2>3. Good(y)
    BY <1>0, <1>1, <1>l, <2>1, OpenGood DEF ShowsWords, Verifying, Choosing
  <2> QED BY <1>0, <1>1, <1>l, <2>1, <2>2, <2>3, OpenSettingsGood
<1>2. CASE s.screen = "SETTINGS_TIMEOUT"
  <2>0. s.sub \in DOMAIN DispMs
    BY <1>2 DEF Good, Sound, Under
  <2>1. CASE x = [Go(a, "SETTINGS_MENU") EXCEPT !.disp = s.sub]
    <3>1. x \in States /\ x.screen = "SETTINGS_MENU" /\ x.prev = s.prev
          /\ x.level = s.level /\ x.contrast = s.contrast
      BY <1>0, <1>s, <2>0, <2>1 DEF Go, States
    <3> QED BY <1>0, <1>2, <1>l, <3>1, OpenGood DEF ShowsWords, Verifying, Choosing
  <2>2. CASE x = [a EXCEPT !.sub = Next1(s.sub, Len(DispMs))]
    <3>1. Next1(s.sub, Len(DispMs)) \in DOMAIN DispMs /\ Next1(s.sub, Len(DispMs)) \in Nat
      BY <1>0, NextOption
    <3>2. x \in States /\ x.screen = "SETTINGS_TIMEOUT" /\ x.sub \in DOMAIN DispMs /\ x.prev = s.prev
          /\ x.level = s.level /\ x.contrast = s.contrast
      BY <1>0, <1>2, <2>2, <3>1 DEF States
    <3> QED BY <1>0, <1>2, <1>l, <3>2 DEF Good, Sound, Under, ShowsWords, Verifying
  <2>3. x = (IF c THEN [Go(a, "SETTINGS_MENU") EXCEPT !.disp = s.sub] ELSE [a EXCEPT !.sub = Next1(@, Len(DispMs))])
    BY <1>2 DEF PressSettings, a
  <2>4. [a EXCEPT !.sub = Next1(@, Len(DispMs))] = [a EXCEPT !.sub = Next1(s.sub, Len(DispMs))]
    BY <1>0
  <2> QED BY <2>1, <2>2, <2>3, <2>4
<1>3. CASE s.screen = "SETTINGS_AUTOLOCK"
  <2>0. s.sub \in DOMAIN LockMs
    BY <1>3 DEF Good, Sound, Under
  <2>1. CASE x = [Go(a, "SETTINGS_MENU") EXCEPT !.lock = s.sub]
    <3>1. x \in States /\ x.screen = "SETTINGS_MENU" /\ x.prev = s.prev
          /\ x.level = s.level /\ x.contrast = s.contrast
      BY <1>0, <1>s, <2>0, <2>1 DEF Go, States
    <3> QED BY <1>0, <1>3, <1>l, <3>1, OpenGood DEF ShowsWords, Verifying, Choosing
  <2>2. CASE x = [a EXCEPT !.sub = Next1(s.sub, Len(LockMs))]
    <3>1. Next1(s.sub, Len(LockMs)) \in DOMAIN LockMs /\ Next1(s.sub, Len(LockMs)) \in Nat
      BY <1>0, NextOption
    <3>2. x \in States /\ x.screen = "SETTINGS_AUTOLOCK" /\ x.sub \in DOMAIN LockMs /\ x.prev = s.prev
          /\ x.level = s.level /\ x.contrast = s.contrast
      BY <1>0, <1>3, <2>2, <3>1 DEF States
    <3> QED BY <1>0, <1>3, <1>l, <3>2 DEF Good, Sound, Under, ShowsWords, Verifying
  <2>3. x = (IF c THEN [Go(a, "SETTINGS_MENU") EXCEPT !.lock = s.sub] ELSE [a EXCEPT !.sub = Next1(@, Len(LockMs))])
    BY <1>3 DEF PressSettings, a
  <2>4. [a EXCEPT !.sub = Next1(@, Len(LockMs))] = [a EXCEPT !.sub = Next1(s.sub, Len(LockMs))]
    BY <1>0
  <2> QED BY <2>1, <2>2, <2>3, <2>4
<1>4. CASE s.screen = "SETTINGS_CONTRAST"
  <2>1. s.level \in 0..Contrasts
    BY <1>0 DEF States
  <2>2. PICK v \in 0..Contrasts : x = [a EXCEPT !.level = v]
    <3>1. Brighter(s.level) \in 0..Contrasts /\ Dimmer(s.level) \in 0..Contrasts
      BY <2>1, ContrastSteps
    <3>2. x = [a EXCEPT !.level = IF c THEN Brighter(@) ELSE Dimmer(@)]
      BY <1>4 DEF PressSettings, a
    <3>3. x = [a EXCEPT !.level = IF c THEN Brighter(s.level) ELSE Dimmer(s.level)]
      BY <1>0, <3>2
    <3> QED BY <3>1, <3>3
  <2>3. x \in States /\ x.screen = "SETTINGS_CONTRAST" /\ x.idle = 0 /\ x.prev = s.prev
    BY <1>0, <1>4, <2>2 DEF States
  <2> QED BY <1>0, <2>3, Ticks DEF Good, Sound, Under, ShowsWords, Verifying
<1>5. CASE s.screen \in {"SETTINGS_CHANGE_PIN", "SETTINGS_ABOUT"}
  <2>1. x = a \/ x = Go(a, "SETTINGS_MENU")
    BY <1>5 DEF PressSettings, To, a
  <2> QED BY <1>0, <1>5, <1>m, <2>1
<1>6. CASE s.screen = "SETTINGS_FACTORY_RESET_CONFIRM"
  <2>1. x = Go(a, "SETTINGS_FACTORY_RESET_SURE") \/ x = Go(a, "SETTINGS_MENU")
    BY <1>6 DEF PressSettings, To, a
  <2> QED BY <1>0, <1>6, <1>l, <1>m, <1>s, <2>1, GoGood
<1>7. CASE s.screen = "SETTINGS_FACTORY_RESET_SURE"
  <2>1. CASE x = Go(a, "SETTINGS_MENU")
    BY <1>7, <1>m, <2>1
  <2>2. CASE x = [EraseSettings(Go(a, "WALLET_WIPED")) EXCEPT !.pinSet = FALSE]
    <3> DEFINE w == Go(a, "WALLET_WIPED")
               e == EraseSettings(w)
    <3>1. w \in States /\ w.screen = "WALLET_WIPED" /\ w.prev = s.prev
      BY <1>0, <1>s, GoState
    <3> HIDE DEF w
    <3>2. PICK v \in 0..Contrasts : e = [w EXCEPT !.disp = 1, !.lock = 1, !.contrast = v]
      BY ContrastSteps DEF EraseSettings
    <3>3. e \in States /\ e.screen = "WALLET_WIPED" /\ e.prev = s.prev
      BY <3>1, <3>2, Options DEF States
    <3> HIDE DEF e
    <3>4. x = [e EXCEPT !.pinSet = FALSE]
      BY <2>2 DEF e, w
    <3>5. x \in States /\ x.screen = "WALLET_WIPED" /\ x.prev = s.prev
      BY <3>3, <3>4 DEF States
    <3> QED BY <1>0, <3>5 DEF Good, Sound, Under, ShowsWords, Verifying
  <2> QED BY <1>7, <2>1, <2>2 DEF PressSettings, a
<1> QED BY <1>1, <1>2, <1>3, <1>4, <1>5, <1>6, <1>7 DEF PressSettings

LEMMA PressGood ==
  ASSUME NEW s, Good(s), NEW c \in BOOLEAN, NEW x \in Press(s, c)
  PROVE  Good(x)
<1>1. x = s \/ x \in PressSetup(s, c) \/ x \in PressOpen(s, c) \/ x \in PressSettings(s, c)
  BY DEF Press
<1> QED BY <1>1, PressSetupGood, PressOpenGood, PressSettingsGood

LEMMA AfterDigitGood ==
  ASSUME NEW s, Good(s), s.screen \in PinScreens, NEW x \in AfterDigit(s)
  PROVE  Good(x)
<1>0. s \in States /\ s.level = s.contrast /\ s.prev # "SETTINGS_CONTRAST"
  BY DEF Good, Sound, PinScreens
<1>s. "DEVICE_ID_DISPLAY" \in Screens \ (Choosing \cup {"SCREENSAVER"}) /\ "WALLET_WIPED" \in Screens
  BY DEF Screens, OtherScreens, Choosing
<1>1. ASSUME NEW scr \in {"DEVICE_ID_DISPLAY", "WALLET_WIPED"}, NEW p \in BOOLEAN,
             x = [Active(Go(s, scr)) EXCEPT !.pinSet = p]
      PROVE  Good(x)
  <2> DEFINE y == Active(Go(s, scr))
  <2>0. scr \in Screens
    BY <1>s
  <2>1. Go(s, scr) \in States /\ Go(s, scr).screen = scr /\ Go(s, scr).prev = s.prev
        /\ Go(s, scr).level = s.level /\ Go(s, scr).contrast = s.contrast
    BY <1>0, <2>0, GoState
  <2>2. y \in States /\ y.screen = scr /\ y.prev = s.prev /\ y.level = s.level /\ y.contrast = s.contrast
    BY <2>1, ActiveState
  <2> HIDE DEF y
  <2>3. x = [y EXCEPT !.pinSet = p]
    BY <1>1 DEF y
  <2>4. x \in States /\ x.screen = scr /\ x.prev = s.prev /\ x.level = s.level /\ x.contrast = s.contrast
    BY <2>2, <2>3 DEF States
  <2> QED BY <1>0, <2>4, OpenGood DEF ShowsWords, Verifying, Choosing
<1>2. Good(Go(s, "DEVICE_ID_DISPLAY"))
  BY <1>0, <1>s, GoGood
<1>3. \/ x = s \/ x = Go(s, "DEVICE_ID_DISPLAY")
      \/ x = [Active(Go(s, "DEVICE_ID_DISPLAY")) EXCEPT !.pinSet = TRUE]
      \/ x = [Active(Go(s, "WALLET_WIPED")) EXCEPT !.pinSet = FALSE]
  BY DEF AfterDigit
<1> QED BY <1>1, <1>2, <1>3

LEMMA HandleGood ==
  ASSUME NEW s, Good(s), NEW pressed \in SUBSET Keys, NEW x \in Handle(s, pressed)
  PROVE  Good(x)
<1>0. s \in States /\ s.lit \in BOOLEAN
  BY DEF Good, Sound, States
<1>1. CASE pressed = {}
  BY <1>1 DEF Handle
<1>2. CASE pressed # {} /\ ~s.lit
  <2> DEFINE a == Active(s)
             y == [a EXCEPT !.lit = TRUE]
  <2>1. Good(a) /\ a.idle = 0 /\ a \in States
    BY <1>0, ActiveGood, ActiveState
  <2> HIDE DEF a
  <2>2. y \in States /\ y.idle = 0 /\ y.screen = a.screen /\ y.prev = a.prev /\ y.sub = a.sub
        /\ y.level = a.level /\ y.contrast = a.contrast
    BY <2>1 DEF States
  <2> HIDE DEF y
  <2>3. Good(y)
    BY <2>1, <2>2, Ticks DEF Good, Sound, Under
  <2>4. x = y
    BY <1>2 DEF Handle, Hidden, y, a
  <2> QED BY <2>3, <2>4
<1>3. CASE pressed # {} /\ s.lit /\ s.screen = "SCREENSAVER"
  <2> DEFINE w == Go(s, s.prev)
             y == Active(w)
  <2>0. s.prev \in Screens /\ s.prev \in IdleScreens /\ s.prev # "SETTINGS_CONTRAST" /\ s.level = s.contrast
    BY <1>0, <1>3 DEF States, Screens, Good, Sound
  <2>1. w \in States /\ w.screen = s.prev /\ w.prev = s.prev /\ w.sub = s.sub
        /\ w.level = s.level /\ w.contrast = s.contrast
    BY <1>0, <2>0, GoState
  <2> HIDE DEF w
  <2>2. y \in States /\ y.idle = 0 /\ y.screen = s.prev /\ y.prev = s.prev /\ y.sub = s.sub
        /\ y.level = s.level /\ y.contrast = s.contrast
    BY <2>1, ActiveState
  <2> HIDE DEF y
  <2>3. Good(y)
    <3>1. Under(y) = Under(s)
      BY <1>3, <2>0, <2>2, DefaultScreens DEF Under
    <3> QED BY <2>0, <2>2, <3>1, Ticks DEF Good, Sound
  <2>4. x = y
    BY <1>3 DEF Handle, Hidden, y, w
  <2> QED BY <2>3, <2>4
<1>4. CASE pressed # {} /\ ~Hidden(s) /\ s.screen \in PinScreens
  <2>1. x = s \/ x \in AfterDigit(s)
    BY <1>4 DEF Handle, Hidden
  <2> QED BY <1>4, <2>1, AfterDigitGood
<1>5. CASE pressed # {} /\ ~Hidden(s) /\ s.screen \notin PinScreens
  <2>1. x \in Press(s, ActsAsConfirm(s, pressed))
    BY <1>5 DEF Handle, Hidden
  <2>2. ActsAsConfirm(s, pressed) \in BOOLEAN
    BY DEF ActsAsConfirm
  <2> QED BY <2>1, <2>2, PressGood
<1> QED BY <1>1, <1>2, <1>3, <1>4, <1>5 DEF Hidden

LEMMA TidyGood == ASSUME NEW s, Good(s) PROVE Good(Tidy(s))
<1>0. s \in States /\ s.sub \in Nat /\ s.verify \in BOOLEAN /\ s.prev \in IdleScreens
  BY DEF Good, Sound, States
<1> DEFINE shown == {s.screen} \cup (IF s.screen = "SCREENSAVER" THEN {s.prev} ELSE {})
           sub == IF shown \cap {"SETTINGS_TIMEOUT", "SETTINGS_AUTOLOCK"} = {} THEN 1 ELSE s.sub
           ver == s.verify /\ "BIP39_PREDICTIVE_INPUT" \in shown
           prev == IF s.screen = "SCREENSAVER" THEN s.prev ELSE "MAIN_MENU"
           x == [s EXCEPT !.sub = sub, !.verify = ver, !.prev = prev]
<1>1. Tidy(s) = x
  BY <1>0 DEF Tidy
<1>2. /\ Under(s) \in {"SETTINGS_TIMEOUT", "SETTINGS_AUTOLOCK"} => sub = s.sub
      /\ sub \in Nat /\ ver \in BOOLEAN /\ (ver => s.verify)
      /\ prev \in IdleScreens /\ prev # "SETTINGS_CONTRAST"
      /\ s.screen = "SCREENSAVER" => prev = s.prev
  BY <1>0, DefaultScreens DEF Under, Good, Sound
<1> HIDE DEF shown, sub, ver, prev
<1>3. x \in States /\ x.screen = s.screen /\ x.prev = prev /\ x.sub = sub /\ x.verify = ver
      /\ x.level = s.level /\ x.contrast = s.contrast /\ x.idle = s.idle /\ x.lit = s.lit
  BY <1>0, <1>2 DEF States
<1> HIDE DEF x
<1>4. Under(x) = Under(s)
  BY <1>2, <1>3 DEF Under
<1>5. Good(x)
  BY <1>2, <1>3, <1>4 DEF Good, Sound, ShowsWords, Verifying
<1> QED BY <1>1, <1>5

-----------------------------------------------------------------------------
(* The logo                                                                   *)

LEMMA AxisMoves ==
  ASSUME NEW max \in Nat \ {0}, NEW v, NEW d, Axis(v, d, max)
  PROVE  Axis(Inside(v + d, max), Turn(v + d, max, d), max)
BY DEF Axis, Inside, Turn

LEMMA BlockMoves == ASSUME NEW b, OnCanvas(b) PROVE OnCanvas(MoveBlock(b))
<1> DEFINE c == MoveBlock(b)
<1>1. Axis(c.x, c.dx, Right) /\ Axis(c.y, c.dy, Bottom)
  BY AxisMoves, Ticks DEF OnCanvas, MoveBlock
<1>2. c = [x |-> c.x, dx |-> c.dx, y |-> c.y, dy |-> c.dy]
  BY DEF MoveBlock
<1> HIDE DEF c
<1>3. c.x \in 0..Right /\ c.y \in 0..Bottom /\ c.dx \in {-1, 1} /\ c.dy \in {-1, 1}
  BY <1>1 DEF Axis
<1>4. c \in [x : 0..Right, y : 0..Bottom, dx : {-1, 1}, dy : {-1, 1}]
  BY <1>2, <1>3
<1>5. OnCanvas(c)
  BY <1>1, <1>4 DEF OnCanvas
<1> QED BY <1>5 DEF c

LEMMA BlockStarts == OnCanvas(StartBlock)
<1>1. Axis(Right \div 2, 1, Right) /\ Axis(Bottom \div 2, 1, Bottom)
  BY Ticks DEF Axis
<1>2. Right \div 2 \in 0..Right /\ Bottom \div 2 \in 0..Bottom
  BY <1>1 DEF Axis
<1> QED BY <1>1, <1>2 DEF StartBlock, OnCanvas

-----------------------------------------------------------------------------
(* Steps                                                                      *)

LEMMA EdgeIsNew ==
  ASSUME NEW s, NEW pressed \in SUBSET Keys
  PROVE  Edge(s, pressed) \in {"none"} \cup (pressed \ down)
BY DEF Edge, Keys

LEMMA PassKeeps ==
  ASSUME IdleInv, NEW d \in 0..2, NEW pressed \in SUBSET Keys, Pass(d, pressed)
  PROVE  IdleInv'
<1>1. PICK s \in Timers(st, d) :
        /\ st' \in {Tidy(x) : x \in Handle(s, pressed)}
        /\ down' = SeenKeys(s, pressed)
        /\ digit' = Edge(s, pressed)
        /\ woke' = pressed \cap (IF Hidden(s) THEN Keys ELSE woke)
        /\ block' \in IF st'.screen = "SCREENSAVER" /\ st'.lit THEN {block, MoveBlock(block)} ELSE {StartBlock}
  BY DEF Pass
<1>2. Good(st')
  <2>1. Good(s)
    BY TimersGood DEF IdleInv
  <2> QED BY <1>1, <2>1, HandleGood, TidyGood
<1>3. OnCanvas(block')
  BY <1>1, BlockMoves, BlockStarts DEF IdleInv
<1>4. down' \subseteq Keys /\ woke' \subseteq down'
  BY <1>1 DEF SeenKeys
<1>5. digit' \notin woke'
  <2>1. digit' \in {"none"} \cup (pressed \ down)
    BY <1>1, EdgeIsNew
  <2>2. CASE digit' = "none"
    BY <1>4, <2>2 DEF Keys
  <2>3. CASE Hidden(s)
    BY <1>1, <1>4, <2>3 DEF Edge, Keys
  <2>4. CASE ~Hidden(s) /\ digit' \in pressed \ down
    BY <1>1, <2>4 DEF IdleInv
  <2> QED BY <2>1, <2>2, <2>3, <2>4
<1> QED BY <1>2, <1>3, <1>4, <1>5 DEF IdleInv

LEMMA PowerKeeps == ASSUME IdleInv, PowerCycle PROVE IdleInv'
<1>1. st \in States
  BY DEF IdleInv, Good, Sound
<1> QED BY <1>1, BootGood, TidyGood, BlockStarts DEF PowerCycle, IdleInv

LEMMA IdleStart == Init => IdleInv
<1> SUFFICES ASSUME Init PROVE IdleInv
  OBVIOUS
<1>1. PICK v \in 0..Contrasts : v = (Contrasts + 1) \div 2
  BY ContrastSteps
<1>2. st = [screen |-> "BOOT_MENU", prev |-> "MAIN_MENU", idle |-> 0, age |-> 0, lit |-> TRUE,
            verify |-> FALSE, pinSet |-> FALSE, disp |-> 1, lock |-> 1, sub |-> 1,
            contrast |-> v, level |-> v]
  BY <1>1 DEF Init
<1>3. "BOOT_MENU" \in Screens /\ "MAIN_MENU" \in IdleScreens /\ 0 \in 0..Forever
  BY DefaultScreens, Ticks DEF Screens
<1>4. st \in States
  BY <1>2, <1>3, Options DEF States
<1>5. Good(st)
  BY <1>2, <1>4, OpenGood DEF ShowsWords, Verifying, Choosing
<1> QED BY <1>5, BlockStarts DEF IdleInv, Init

LEMMA IdleStep == IdleInv /\ [Next]_vars => IdleInv'
<1> SUFFICES ASSUME IdleInv, [Next]_vars PROVE IdleInv'
  OBVIOUS
<1>1. CASE PowerCycle
  BY <1>1, PowerKeeps
<1>2. ASSUME NEW d \in 0..2, NEW pressed \in SUBSET Keys, Pass(d, pressed) PROVE IdleInv'
  BY <1>2, PassKeeps
<1>3. CASE UNCHANGED vars
  BY <1>3 DEF vars, IdleInv
<1> QED BY <1>1, <1>2, <1>3 DEF Next

THEOREM AlwaysIdleInv == Spec => []IdleInv
BY IdleStart, IdleStep, PTL DEF Spec

-----------------------------------------------------------------------------
(* The theorems                                                               *)

(* The screensaver comes over an idle screen only, the settings are among     *)
(* their options, and the logo is on the canvas and turns inwards at every    *)
(* edge and corner (loop, settings.cpp, screensaver_update_position).         *)
THEOREM AlwaysIdleTypeOK == Spec => []IdleTypeOK
<1>1. IdleInv => IdleTypeOK
  BY Ticks DEF IdleInv, Good, Sound, States, Screens, OnCanvas, Axis, IdleTypeOK
<1> QED BY <1>1, AlwaysIdleInv, PTL

(* The words of a mnemonic are dark or under the screensaver after 30 s       *)
(* without a key, however late a pass of loop() comes.                        *)
THEOREM AlwaysWordsHiddenWhenIdle == Spec => []WordsHiddenWhenIdle
<1>1. IdleInv => WordsHiddenWhenIdle
  BY DEF IdleInv, Good, WordsHiddenWhenIdle
<1> QED BY <1>1, AlwaysIdleInv, PTL

(* The contrast on the display is the stored one wherever none is chosen: the *)
(* timer of the choice saves it before a longer one takes the screen away.    *)
THEOREM AlwaysPreviewIsSaved == Spec => []PreviewIsSaved
<1>1. IdleInv => PreviewIsSaved
  BY DEF IdleInv, Good, Sound, PreviewIsSaved
<1> QED BY <1>1, AlwaysIdleInv, PTL

(* The press that ends the dark or the screensaver enters no digit.           *)
THEOREM AlwaysWakePressEntersNoDigit == Spec => []WakePressEntersNoDigit
<1>1. IdleInv => WakePressEntersNoDigit
  BY DEF IdleInv, WakePressEntersNoDigit
<1> QED BY <1>1, AlwaysIdleInv, PTL

(* No key completes a restore that was given up after five minutes, though    *)
(* the screensaver, over which the timer is not looked at, came in between.   *)
THEOREM StaleRestoreIsOver == Spec => StaleRestoreTakesNoKey
<1>1. ASSUME IdleInv, [Next]_vars, Restoring(st), st'.screen \in {"PASSPHRASE_PROMPT", "RESTORE_ERROR"}
      PROVE  st.age <= Abandon
  <2>0. st \in States /\ st.age \in Nat /\ st.screen = "BIP39_PREDICTIVE_INPUT"
    BY <1>1, Ticks DEF IdleInv, Good, Sound, States, Restoring
  <2>1. CASE PowerCycle
    <3>1. Boot(st).screen \in {"PIN_ENTRY", "BOOT_MENU"}
      BY <2>0 DEF Boot, States
    <3>2. st'.screen = Boot(st).screen
      BY <2>0, <2>1, BootGood DEF PowerCycle, Tidy, Good, Sound, States
    <3> QED BY <1>1, <3>1, <3>2
  <2>2. ASSUME NEW d \in 0..2, NEW pressed \in SUBSET Keys, Pass(d, pressed) PROVE st.age <= Abandon
    <3> SUFFICES ASSUME st.age > Abandon PROVE FALSE
      BY <2>0, Ticks
    <3>1. PICK s \in Timers(st, d) : st' \in {Tidy(x) : x \in Handle(s, pressed)}
      BY <2>2 DEF Pass
    <3>2. s.screen = "BOOT_MENU" /\ Good(s)
      BY <1>1, <2>0, <3>1, StaleRestoreEnds, TimersGood DEF IdleInv
    <3>3. PICK x \in Handle(s, pressed) : st' = Tidy(x)
      BY <3>1
    <3>4. Good(x) /\ x \in States
      BY <3>2, <3>3, HandleGood DEF Good, Sound
    <3>5. x.screen = st'.screen
      BY <3>3, <3>4 DEF Tidy, States
    <3>6. x.screen \in {"BOOT_MENU", "MNEMONIC_DISPLAY", "BIP39_PREDICTIVE_INPUT"}
      <4>0. s \in States
        BY <3>2 DEF Good, Sound
      <4>1. CASE pressed = {}
        BY <3>2, <3>3, <4>1 DEF Handle
      <4>2. CASE pressed # {} /\ ~s.lit
        <5>1. x = [Active(s) EXCEPT !.lit = TRUE]
          BY <3>3, <4>2 DEF Handle, Hidden
        <5> QED BY <3>2, <4>0, <5>1, ActiveState DEF States
      <4>3. CASE pressed # {} /\ s.lit
        <5>1. x \in Press(s, ActsAsConfirm(s, pressed))
          BY <3>2, <3>3, <4>3 DEF Handle, Hidden, PinScreens
        <5>2. x = s \/ x = ShowPhrase(s) \/ x = [Go(s, "BIP39_PREDICTIVE_INPUT") EXCEPT !.verify = FALSE, !.age = 0]
          BY <3>2, <5>1 DEF Press, PressSetup, PressOpen, PressSettings, Verifying, Restoring
        <5> QED BY <3>2, <4>0, <5>2 DEF ShowPhrase, Active, Go, States
      <4> QED BY <4>1, <4>2, <4>3
    <3> QED BY <1>1, <3>5, <3>6
  <2>3. CASE UNCHANGED vars
    BY <1>1, <2>0, <2>3 DEF vars
  <2> QED BY <1>1, <2>1, <2>2, <2>3 DEF Next
<1>2. IdleInv /\ [Next]_vars =>
        [Restoring(st) /\ st'.screen \in {"PASSPHRASE_PROMPT", "RESTORE_ERROR"} => st.age <= Abandon]_vars
  BY <1>1
<1> QED BY <1>2, AlwaysIdleInv, PTL DEF Spec, StaleRestoreTakesNoKey
=============================================================================
