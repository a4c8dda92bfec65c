------------------------------ MODULE Keyboard ------------------------------
(***************************************************************************)
(* The predictive keyboard of two buttons: the prefix search of bip39.cpp, *)
(* the screen BIP39_PREDICTIVE_INPUT of handleNavigation() in wallet1.ino, *)
(* and what a word does in its two uses, restoring a wallet and verifying  *)
(* the words of a new one.                                                 *)
(*                                                                         *)
(* A step on the keyboard is one pass of loop(): the levels of CONFIRM and *)
(* CANCEL in that pass.  Letters are numbers, words sequences of letters.  *)
(***************************************************************************)
EXTENDS Integers, Sequences, SequencesExt, FiniteSetsExt

CONSTANTS Words,       \* bip39_wordlist, in alphabetical order
          LastLetter,  \* 'z'
          PrefixMax,   \* letters of a prefix, 4 in the code
          Phrase,      \* words of a mnemonic, 24 in the code
          Targets      \* indices of the words a user may want to enter

None == 0
Backspace == LastLetter + 1
Letters == 1..LastLetter
Index == 1..Len(Words)
Shown == 3
TotalModulus == 256

ASSUME ConstantTypes ==
  /\ {LastLetter, Phrase} \subseteq Nat \ {0} /\ PrefixMax \in Nat
  /\ Words \in Seq(Seq(Letters) \ {<<>>}) /\ Targets \subseteq Index
\* No two words share their first letters up to PrefixMax, as in the BIP-39 list.
ASSUME WordsUnique ==
  \A i, j \in Index :
       i # j /\ Len(Words[i]) >= PrefixMax => ~IsPrefix(SubSeq(Words[i], 1, PrefixMax), Words[j])
\* Many words start with 'a' and with 'b' (136 and 117 in the list): neither letter alone takes one.
ASSUME FirstLettersShared == \A c \in {1, 2} : Cardinality({i \in Index : Words[i][1] = c}) # 1
\* A byte counts the words that start with a letter: 250 with 's', the most in the list.
ASSUME LetterFitsByte == \A c \in Letters : Cardinality({i \in Index : Words[i][1] = c}) < TotalModulus

VARIABLES screen,    \* currentState, of the screens around the keyboard
          kb,        \* the predictive... variables
          isVerify,  \* predictiveIsVerify
          restore,   \* restoreWords up to restoreWordIdx, as indices
          mnemonic,  \* mnemonicWords, as indices; <<>> when zero
          asked,     \* mnemonicVerifyIndices
          step,      \* mnemonicVerifyStep
          keys,      \* the levels of <<CONFIRM, CANCEL>> in the last pass
          goal       \* the word a determined user is entering, or None
vars == <<screen, kb, isVerify, restore, mnemonic, asked, step, keys, goal>>
words == <<isVerify, restore, mnemonic, asked, step>>

-----------------------------------------------------------------------------
(* bip39_find_prefix and bip39_prefix_match                                *)

\* strcmp(s, t) < 0
Before(s, t) ==
  \/ s # t /\ IsPrefix(s, t)
  \/ \E i \in 1..Min({Len(s), Len(t)}) : s[i] < t[i] /\ SubSeq(s, 1, i - 1) = SubSeq(t, 1, i - 1)

ASSUME WordsSorted == \A i, j \in Index : i < j => Before(Words[i], Words[j])

Ranges == (1..Len(Words) + 1) \X (0..Len(Words))
\* Mutant of LowerBound: the search stops one short of the end.
LowerBoundShort(p) ==
  LET from[r \in Ranges] ==
        LET lo == r[1]
            hi == r[2]
            mid == lo + (hi - lo) \div 2
        IN IF lo >= hi THEN lo
           ELSE IF Before(Words[mid], p) THEN from[<<mid + 1, hi>>] ELSE from[<<lo, mid - 1>>]
  IN from[<<1, Len(Words)>>]

\* The binary search: the first word that is not before p.
LowerBound(p) ==
  LET from[r \in Ranges] ==
        LET lo == r[1]
            hi == r[2]
            mid == lo + (hi - lo) \div 2
        IN IF lo > hi THEN lo
           ELSE IF Before(Words[mid], p) THEN from[<<mid + 1, hi>>] ELSE from[<<lo, mid - 1>>]
  IN from[<<1, Len(Words)>>]

\* How many words from the first on start with p: the scan ends at one that does not.
FindPrefix(p) ==
  LET first == LowerBound(p)
  IN Max({n \in 0..Len(Words) + 1 - first : \A i \in first..first + n - 1 : IsPrefix(p, Words[i])})

\* The order of the candidates: shorter words first, then as in the list.
Ahead(i, j) == Len(Words[i]) < Len(Words[j]) \/ (Len(Words[i]) = Len(Words[j]) /\ i < j)

\* The candidates of updatePredictiveMatches, the first of those words; none for no prefix.
PrefixMatch(p) ==
  LET first == LowerBound(p)
      count == IF p = <<>> THEN 0 ELSE Min({FindPrefix(p), Shown})
  IN CHOOSE c \in [1..count -> first..first + count - 1] :
       \A m, n \in DOMAIN c : m < n => Ahead(c[m], c[n])

-----------------------------------------------------------------------------
(* The keys                                                                *)

Search(k) == IF k.letter = Backspace THEN k.prefix ELSE Append(k.prefix, k.letter)

\* What each search finds; the count is kept in a byte.
Searches == UNION {[1..n -> Letters] : n \in 0..PrefixMax + 1}
Offer == [p \in Searches |-> [matches |-> PrefixMatch(p), total |-> FindPrefix(p) % TotalModulus]]

\* updatePredictiveMatches
UpdateMatches(k) ==
  [k EXCEPT !.matches = Offer[Search(k)].matches, !.total = Offer[Search(k)].total]

EmptyEntry(k) ==
  UpdateMatches([k EXCEPT !.prefix = <<>>, !.letter = 1, !.select = FALSE, !.highlight = 0,
                          !.short = FALSE, !.confirmLast = FALSE])

\* predictiveCancelHoldStart = 0 and the two flags with it
NotHeld(k) == [k EXCEPT !.hold = "none", !.long = FALSE, !.short = FALSE]

DropLetter(k) == [k EXCEPT !.prefix = IF @ = <<>> THEN @ ELSE Front(@), !.letter = 1]

\* A short CANCEL outside selection: the next letter; after the backspace, which erases one, 'a'.
NextLetter(k) ==
  UpdateMatches(IF k.letter = Backspace THEN DropLetter(k) ELSE [k EXCEPT !.letter = @ + 1])

\* Mutant of NextCandidate: the highlight stops at the last candidate.
NextCandidateStuck(k) ==
  IF k.highlight + 1 >= Len(k.matches) THEN k ELSE [k EXCEPT !.highlight = @ + 1]

\* A short CANCEL in selection: the next candidate; past the last one, back to the letters.
NextCandidate(k) ==
  IF k.highlight + 1 >= Len(k.matches) THEN [k EXCEPT !.select = FALSE, !.highlight = 0]
  ELSE [k EXCEPT !.highlight = @ + 1]

LongCancel(k) == [EmptyEntry(k) EXCEPT !.long = TRUE]

\* CANCEL down in this pass; t says that it has been held for a second.
PressCancel(k, t) ==
  LET h == IF k.hold = "none" THEN [NotHeld(k) EXCEPT !.hold = "short"]
           ELSE [k EXCEPT !.hold = IF t THEN "long" ELSE @]
  IN CASE h.long -> h
       [] ~h.long /\ h.hold = "long" -> LongCancel(h)
       [] ~h.long /\ h.hold # "long" /\ h.short -> h
       [] OTHER -> IF h.select THEN NextCandidate([h EXCEPT !.short = TRUE])
                   ELSE NextLetter([h EXCEPT !.short = TRUE])

\* The word CONFIRM takes: the highlighted one, or the only one left.
Taken(k) ==
  CASE k.select -> k.matches[k.highlight + 1]
    [] ~k.select /\ k.letter # Backspace /\ k.total = 1 -> k.matches[1]
    [] OTHER -> None

\* CONFIRM when it takes no word.
PressConfirm(k) ==
  CASE k.letter = Backspace -> IF k.prefix = <<>> THEN k ELSE UpdateMatches(DropLetter(k))
    [] k.letter # Backspace /\ k.total \in 2..Shown -> [k EXCEPT !.select = TRUE, !.highlight = 0]
    [] k.letter # Backspace /\ k.total > Shown /\ Len(k.prefix) < PrefixMax ->
         UpdateMatches([k EXCEPT !.prefix = Append(@, k.letter), !.letter = 1])
    [] OTHER -> k

-----------------------------------------------------------------------------
(* The screen                                                              *)

Elsewhere == {"BOOT_MENU", "MNEMONIC_DISPLAY", "RESTORE_PASSPHRASE", "RESTORE_ERROR", "PASSPHRASE_PROMPT"}
OnKeyboard == screen = "BIP39_PREDICTIVE_INPUT"

BlankKeys == [prefix |-> <<>>, letter |-> 1, matches |-> <<>>, total |-> 0, select |-> FALSE,
              highlight |-> 0, hold |-> "none", long |-> FALSE, short |-> FALSE, confirmLast |-> FALSE]

Init ==
  /\ screen = "BOOT_MENU" /\ kb = BlankKeys /\ isVerify = FALSE
  /\ restore = <<>> /\ mnemonic = <<>> /\ asked = <<>> /\ step = 0
  /\ keys = <<FALSE, FALSE>> /\ goal = None

\* Mutant of WordRestored: the count of words is kept when the phrase was wrong.
RestoreErrorKeeps(w, k) ==
  /\ restore' = IF Len(restore) >= Phrase THEN restore ELSE Append(restore, w)
  /\ kb' = EmptyEntry(k) /\ UNCHANGED <<screen, isVerify, mnemonic, asked, step>>

\* predictiveWordSelected when restoring: the last word decides by its checksum.
WordRestored(w, k) ==
  /\ restore' = Append(restore, w)
  /\ IF Len(restore) + 1 >= Phrase
     THEN screen' \in {"RESTORE_PASSPHRASE", "RESTORE_ERROR"} /\ kb' = k
     ELSE kb' = [EmptyEntry(k) EXCEPT !.confirmLast = TRUE] /\ UNCHANGED screen
  /\ UNCHANGED <<isVerify, mnemonic, asked, step>>

\* predictiveWordSelected when verifying: a wrong word goes back to the phrase.
WordVerified(w, k) ==
  /\ IF w # mnemonic[asked[step + 1]]
     THEN screen' = "MNEMONIC_DISPLAY" /\ step' = 0 /\ kb' = k
     ELSE /\ step' = step + 1
          /\ IF step + 1 >= Len(asked)
             THEN screen' = "PASSPHRASE_PROMPT" /\ kb' = k
             ELSE kb' = [EmptyEntry(k) EXCEPT !.confirmLast = TRUE] /\ UNCHANGED screen
  /\ UNCHANGED <<isVerify, restore, mnemonic, asked>>

\* Mutant of Frame's edge: CONFIRM acts in every pass in which it is down.
ConfirmLevel(c, k) == c
\* CONFIRM acts once for a press.
ConfirmEdge(c, k) == c /\ ~k.confirmLast

\* One pass of handleNavigation with CONFIRM at c and CANCEL at x.
Frame(c, x, t) ==
  LET released == [(IF x THEN kb ELSE NotHeld(kb)) EXCEPT !.confirmLast = @ /\ c]
      pressed == IF x THEN PressCancel(released, t) ELSE released
      fired == [NotHeld(pressed) EXCEPT !.confirmLast = TRUE]
      w == Taken(fired)
  IN /\ OnKeyboard /\ keys' = <<c, x>>
     /\ \/ ~ConfirmEdge(c, pressed) /\ kb' = [pressed EXCEPT !.confirmLast = c] /\ UNCHANGED <<screen, words>>
        \/ ConfirmEdge(c, pressed) /\ w = None /\ kb' = PressConfirm(fired) /\ UNCHANGED <<screen, words>>
        \/ ConfirmEdge(c, pressed) /\ w # None /\ isVerify /\ WordVerified(w, fired)
        \/ ConfirmEdge(c, pressed) /\ w # None /\ ~isVerify /\ WordRestored(w, fired)

\* startRestoreProcess: CONFIRM is still down when the keyboard opens.
StartRestoreProcess ==
  /\ screen = "BOOT_MENU" /\ screen' = "BIP39_PREDICTIVE_INPUT"
  /\ restore' = <<>> /\ isVerify' = FALSE /\ kb' = EmptyEntry(kb) /\ keys' = <<TRUE, FALSE>>
  /\ UNCHANGED <<mnemonic, asked, step, goal>>

StartMnemonicCeremony ==
  /\ screen = "BOOT_MENU" /\ screen' = "MNEMONIC_DISPLAY"
  /\ mnemonic' \in [1..Phrase -> Targets] /\ step' = 0 /\ keys' = <<TRUE, FALSE>>
  /\ UNCHANGED <<kb, isVerify, restore, asked, goal>>

\* startVerification: positions drawn until they differ; all of them here, three of 24 in the code.
StartVerification ==
  /\ screen = "MNEMONIC_DISPLAY" /\ screen' = "BIP39_PREDICTIVE_INPUT"
  /\ asked' \in {q \in [1..Phrase -> 1..Phrase] : IsInjective(q)}
  /\ step' = 0 /\ isVerify' = TRUE /\ kb' = EmptyEntry(kb) /\ keys' = <<TRUE, FALSE>>
  /\ UNCHANGED <<restore, mnemonic, goal>>

\* Either button on RESTORE_ERROR starts over.
RetryRestore ==
  /\ screen = "RESTORE_ERROR" /\ screen' = "BIP39_PREDICTIVE_INPUT"
  /\ restore' = <<>> /\ isVerify' = FALSE
  /\ kb' = UpdateMatches([kb EXCEPT !.prefix = <<>>, !.letter = 1, !.select = FALSE, !.highlight = 0])
  /\ keys' \in {<<TRUE, FALSE>>, <<FALSE, TRUE>>}
  /\ UNCHANGED <<mnemonic, asked, step, goal>>

\* Five minutes on a restore: loop() clears the words and what was typed.
RestoreTimeout ==
  /\ OnKeyboard /\ ~isVerify /\ goal = None
  /\ screen' = "BOOT_MENU" /\ restore' = <<>>
  /\ kb' = [kb EXCEPT !.prefix = <<>>, !.letter = 1]
  /\ UNCHANGED <<isVerify, mnemonic, asked, step, keys, goal>>

\* The power goes; also how the screens that follow the keyboard end here.
Restart ==
  /\ goal = None /\ screen' = "BOOT_MENU" /\ kb' = BlankKeys /\ isVerify' = FALSE
  /\ restore' = <<>> /\ mnemonic' = <<>> /\ asked' = <<>> /\ step' = 0
  /\ keys' = <<FALSE, FALSE>> /\ UNCHANGED goal

-----------------------------------------------------------------------------
(* The user: any keys in any pass, or the word he has set out to enter     *)

AnyKeys ==
  /\ goal = None
  /\ \E c, x, t \in BOOLEAN : Frame(c, x, t)
  /\ UNCHANGED goal

SetOut == /\ OnKeyboard /\ ~isVerify /\ goal = None /\ goal' \in Targets
          /\ UNCHANGED <<screen, kb, words, keys>>

\* The keys for the word: its letters in turn, a candidate by its highlight, and a
\* long CANCEL when something else has been typed.
NextKey(k, w) ==
  LET n == Len(k.prefix) + 1
  IN CASE k.select -> IF k.matches[k.highlight + 1] = goal THEN "confirm" ELSE "cancel"
       [] ~k.select /\ ~IsPrefix(k.prefix, w) -> "long"
       [] OTHER -> IF n <= Len(w) /\ k.letter = w[n] THEN "confirm" ELSE "cancel"

TowardsGoal ==
  /\ goal # None
  /\ LET key == NextKey(kb, Words[goal])
     IN IF keys = <<FALSE, FALSE>> THEN Frame(key = "confirm", key # "confirm", FALSE)
        ELSE IF keys = <<FALSE, TRUE>> /\ key = "long" THEN Frame(FALSE, TRUE, TRUE)
        ELSE Frame(FALSE, FALSE, FALSE)
  /\ goal' = IF Len(restore') > Len(restore) /\ Last(restore') = goal THEN None ELSE goal

Next ==
  \/ StartRestoreProcess \/ StartMnemonicCeremony \/ StartVerification \/ RetryRestore
  \/ RestoreTimeout \/ Restart \/ AnyKeys \/ SetOut \/ TowardsGoal

\* The user who has set out goes on; nothing else is promised.
Spec == Init /\ [][Next]_vars /\ WF_vars(TowardsGoal)

-----------------------------------------------------------------------------
(* Properties                                                              *)

\* The keyboard's state has its type, and the counts of words stay inside the arrays
\* restoreWords[24] and mnemonicVerifyIndices[3] they index while the keyboard is open.
KeyboardTypeOK ==
  /\ screen \in Elsewhere \cup {"BIP39_PREDICTIVE_INPUT"}
  /\ Len(kb.prefix) <= PrefixMax /\ kb.letter \in Letters \cup {Backspace}
  /\ kb.hold \in {"none", "short", "long"}
  /\ {kb.select, kb.long, kb.short, kb.confirmLast, isVerify} \subseteq BOOLEAN
  /\ OnKeyboard => IF isVerify THEN step < Len(asked) ELSE Len(restore) < Phrase

Matching(p) == {i \in Index : IsPrefix(p, Words[i])}

\* What is offered fits what is typed, after any keys: the candidates and their number in
\* updatePredictiveMatches, found by binary search, are the words with the prefix and letter
\* shown, the first three of them, the shorter first; and while one is highlighted there are
\* two or three of them, all shown, and it is one of those.
CandidatesAreCurrent ==
  OnKeyboard =>
    LET found == Matching(Search(kb))
    IN /\ kb.total = Cardinality(found) % TotalModulus
       /\ Len(kb.matches) = IF Search(kb) = <<>> THEN 0 ELSE Min({Cardinality(found), Shown})
       /\ \A n \in 1..Len(kb.matches) :
            /\ kb.matches[n] \in found
            /\ \A i \in found : i < kb.matches[n] => i \in ToSet(kb.matches)
            /\ n > 1 => Len(Words[kb.matches[n - 1]]) <= Len(Words[kb.matches[n]])
       /\ kb.select => kb.total \in 2..Shown /\ kb.highlight < kb.total

\* A press of CONFIRM gives at most one word, however long it is held and whatever CANCEL does:
\* confirmPressedLastFrame is cleared by the reset after a word and set again in the same pass.
OneWordPerPress ==
  [][Len(restore') > Len(restore) \/ step' > step => ~keys[1]]_vars

\* Whatever state the keys have been left in, a user can clear the prefix and enter the word he
\* wants, and gets that word: no state of the keyboard is a trap.
EveryWordCanBeEntered == goal # None ~> goal = None
=============================================================================
