--------------------------- MODULE TxReviewProofs ---------------------------
(***************************************************************************)
(* The review of any transactions: what the screens know while the user    *)
(* goes through them (ReviewInv), that the signer's promises hold for every *)
(* call the review makes, and that the review implements SignRequest.       *)
(***************************************************************************)
EXTENDS TxReviewProperties, PsbtSignerProofs

Afterwards == {"TX_SUCCESS", "TX_SIGN_ERROR"}

(* The call of psbt_sign belongs to the screens that wait for it and tell of  *)
(* it, and until then the slots are those of the host.                        *)
CallScreenInv ==
  /\ call.step = "idle" => call = NoCall
  /\ Signing => currentState \in {"TX_OUTPUT_REVIEW"} \cup Afterwards
  /\ currentState \in Afterwards => call.step = "done"
  /\ currentState = "TX_SUCCESS" => ~(call.outcome < 0)
  /\ currentState \in BeforeSigning /\ ~Signing => sigs = HostSigs(inputs)

(* What has been selected by the time a screen is shown.                      *)
ConsentInv ==
  /\ coinControlScrollIdx \in Nat
  /\ currentState \in ReviewScreens => selected \subseteq Owned(inputs)
  /\ currentState \in ReviewScreens \ {"COIN_CONTROL"} => selected # {} \/ Owned(inputs) = {}

(* What has been confirmed, with this selection, by the time a screen is      *)
(* shown, and that the output on the display was drawn.                       *)
ConfirmedInv ==
  /\ currentState = "COIN_CONTROL" => ConfirmedOn({}) /\ "COIN_CONTROL" \in Required
  /\ currentState = "TX_FEE_REVIEW" => ConfirmedOn(Required \cap {"COIN_CONTROL"})
  /\ currentState = "TX_RBF_CONFIRM" =>
       ConfirmedOn(Required \cap {"COIN_CONTROL", "TX_FEE_REVIEW"}) /\ "TX_RBF_CONFIRM" \in Required
  /\ currentState = "TX_OUTPUT_REVIEW" /\ ~Signing => ConfirmedOn(Required \ {"TX_OUTPUT_REVIEW"})
  /\ Signing => ConfirmedOn(Required)
  /\ currentState \in {"TX_OUTPUT_REVIEW"} \cup Afterwards =>
       Nth(NonChange(tx), txReviewOutputIdx) \in shown

HostInv ==
  /\ line \in HostTxs \cup {None} /\ psbtFromUsb \in BOOLEAN
  /\ currentState = "WAIT_PSBT" => ~psbtFromUsb

ReviewInv == SignerInv /\ CallScreenInv /\ ConsentInv /\ ConfirmedInv /\ HostInv

-----------------------------------------------------------------------------
LEMMA OwnedFinite ==
  InputsInv => /\ Owned(inputs) \subseteq 1..Len(inputs) /\ Len(inputs) \in Nat
               /\ IsFiniteSet(Owned(inputs)) /\ Cardinality(Owned(inputs)) \in Nat
  <1> SUFFICES ASSUME InputsInv
               PROVE  /\ Owned(inputs) \subseteq 1..Len(inputs) /\ Len(inputs) \in Nat
                      /\ IsFiniteSet(Owned(inputs)) /\ Cardinality(Owned(inputs)) \in Nat
    OBVIOUS
  <1>1. Owned(inputs) \in SUBSET (1..Len(inputs)) /\ Len(inputs) \in Nat
    BY DEF Owned, InputsInv
  <1>2. IsFiniteSet(1..Len(inputs))
    BY <1>1, FS_Interval
  <1> QED
    BY <1>1, <1>2, FS_Subset, FS_CardinalityType

(* Every place of the array has its member: to count the indices before one   *)
(* is a bijection onto the places, as it is injective between sets of one     *)
(* size.                                                                      *)
LEMMA NthIsMember ==
  ASSUME NEW O, NEW m \in Nat, O \subseteq 1..m, NEW k \in Nat, k < Cardinality(O)
  PROVE  Nth(O, k) \in O
  <1> DEFINE n == Cardinality(O)
             Before(i) == {j \in O : j < i}
             place(i) == Cardinality(Before(i))
             row == [i \in O |-> place(i)]
  <1>1. O \subseteq 1..m /\ IsFiniteSet(O) /\ n \in Nat
    <2>1. IsFiniteSet(1..m) /\ O \in SUBSET (1..m)
      BY FS_Interval
    <2> QED
      BY <2>1, FS_Subset, FS_CardinalityType
  <1>2. \A i \in O : /\ IsFiniteSet(Before(i)) /\ place(i) \in Nat
                     /\ Cardinality(Before(i) \cup {i}) = place(i) + 1
    <2> TAKE i \in O
    <2>1. Before(i) \in SUBSET O
      OBVIOUS
    <2>2. i \notin Before(i)
      BY <1>1
    <2>3. IsFiniteSet(Before(i)) /\ place(i) \in Nat
      BY <1>1, <2>1, FS_Subset, FS_CardinalityType
    <2> QED
      BY <2>2, <2>3, FS_AddElement
  <1>3. \A i \in O : place(i) + 1 <= n
    <2> TAKE i \in O
    <2>1. Before(i) \cup {i} \in SUBSET O
      OBVIOUS
    <2>2. Cardinality(Before(i) \cup {i}) <= n
      BY <1>1, <2>1, FS_Subset
    <2> QED
      BY <1>2, <2>2, Zenon
  <1>4. \A i, l \in O : i < l => place(i) + 1 <= place(l)
    <2> SUFFICES ASSUME NEW i \in O, NEW l \in O, i < l
                 PROVE  place(i) + 1 <= place(l)
      OBVIOUS
    <2>1. Before(i) \cup {i} \in SUBSET Before(l)
      <3>1. \A j \in O : j \in Int
        BY <1>1
      <3>2. \A j \in O : j < i => j < l
        BY <3>1
      <3> QED
        BY <3>2, Zenon
    <2>2. Cardinality(Before(i) \cup {i}) <= place(l)
      BY <1>2, <2>1, FS_Subset
    <2> QED
      BY <1>2, <2>2, Zenon
  <1>5. row \in Injection(O, 0..(n - 1))
    <2>1. \A i \in O : row[i] = place(i)
      OBVIOUS
    <2>2. \A i \in O : place(i) \in 0..(n - 1)
      <3> TAKE i \in O
      <3>1. place(i) \in Nat /\ place(i) + 1 <= n /\ n \in Nat
        BY <1>1, <1>2, <1>3, Zenon
      <3> HIDE DEF place, n
      <3> QED
        BY <3>1
    <2> HIDE DEF place
    <2>3. row \in [O -> 0..(n - 1)]
      BY <2>2
    <2>4. \A i, l \in O : i < l \/ i = l \/ l < i
      BY <1>1
    <2>5. \A i, l \in O : place(i) = place(l) => i = l
      <3> SUFFICES ASSUME NEW i \in O, NEW l \in O, place(i) = place(l) PROVE i = l
        OBVIOUS
      <3>1. place(i) \in Nat /\ place(l) \in Nat
        BY <1>2, Zenon
      <3>2. /\ i < l => place(i) + 1 <= place(l)
            /\ l < i => place(l) + 1 <= place(i)
        BY <1>4, Zenon
      <3> QED
        BY <2>4, <3>1, <3>2
    <2> QED
      BY <2>1, <2>3, <2>5 DEF Injection, IsInjective
  <1>6. IsFiniteSet(0..(n - 1)) /\ Cardinality(0..(n - 1)) = n
    <2>1. n \in Nat
      BY <1>1
    <2> HIDE DEF n
    <2>2. 0 \in Int /\ n - 1 \in Int
      BY <2>1
    <2>3. /\ IsFiniteSet(0..(n - 1))
          /\ Cardinality(0..(n - 1)) = IF 0 > n - 1 THEN 0 ELSE n - 1 - 0 + 1
      BY <2>2, FS_Interval
    <2> QED
      BY <2>1, <2>3
  <1>7. row \in Surjection(O, 0..(n - 1))
    BY <1>5, <1>6, FS_Injection
  <1>8. k \in 0..(n - 1)
    BY <1>1
  <1>9. \E i \in O : row[i] = k
    BY <1>7, <1>8 DEF Surjection
  <1>10. \E i \in O : Cardinality({j \in O : j < i}) = k
    BY <1>9
  <1> QED
    BY <1>10, Zenon DEF Nth

(* Every row of the coin control list stands for an input of the wallet.      *)
LEMMA RowIsOwned ==
  ASSUME InputsInv, coinControlScrollIdx \in Nat,
         coinControlScrollIdx < Cardinality(Owned(inputs))
  PROVE  RowInput(coinControlScrollIdx) \in Owned(inputs)
  BY OwnedFinite, NthIsMember DEF RowInput

-----------------------------------------------------------------------------
Whole(t) == t.inputs \in Seq(Inputs) /\ Len(t.inputs) <= MaxInputs /\ t.readable \in BOOLEAN

LEMMA KnownTxs == Whole(Blank) /\ Whole(Demo) /\ \A t \in HostTxs : Whole(t)
  <1>1. \A t \in HostTxs \cup {Demo} : Whole(t)
    BY ReviewAssumption DEF Whole, Tx
  <1>2. Whole(Blank)
    BY SignerAssumption DEF Whole, Blank
  <1> QED
    BY <1>1, <1>2

(* While no call is under way the signer's invariant says little.             *)
LEMMA IdleHolds ==
  InputsInv /\ SlotsInv /\ scratch \in Nat \cup {None} /\ call = NoCall => SignerInv
  <1> SUFFICES ASSUME InputsInv, SlotsInv, scratch \in Nat \cup {None}, call = NoCall
               PROVE  SignerInv
    OBVIOUS
  <1>1. call = [step |-> "idle", i |-> 1, anyOwned |-> FALSE, count |-> 0, outcome |-> 0]
    BY DEF NoCall
  <1>2. Len(inputs) \in Nat /\ MaxInputs \in Nat
    BY SignerAssumption DEF InputsInv
  <1>3. CallInv
    BY <1>1, <1>2 DEF CallInv, CallType
  <1>4. Progress /\ Promises
    BY <1>1 DEF Progress, Promises, FailureReturnsNothing, SuccessIsComplete,
                UnselectedUntouched, Failed, Succeeded
  <1> QED
    BY <1>3, <1>4 DEF SignerInv

(* A transaction that is loaded brings its own slots and selection.           *)
LEMMA LoadHolds ==
  ASSUME NEW t, Whole(t), LoadTx(t), call' = NoCall, scratch' = scratch,
         scratch \in Nat \cup {None}
  PROVE  /\ SignerInv'
         /\ sigs' = HostSigs(inputs)' /\ selected' \subseteq Owned(inputs)'
         /\ t.readable => selected' = Owned(inputs)'
         /\ coinControlScrollIdx' = 0
  <1>1. /\ inputs' = t.inputs /\ sigs' = HostSigs(t.inputs) /\ coinControlScrollIdx' = 0
        /\ selected' = IF t.readable THEN Owned(t.inputs) ELSE {}
    BY DEF LoadTx
  <1>2. HostSigs(inputs)' = HostSigs(t.inputs) /\ Owned(inputs)' = Owned(t.inputs)
    BY <1>1 DEF HostSigs, Owned
  <1>3. Owned(t.inputs) \subseteq 1..Len(t.inputs)
    BY DEF Owned
  <1>4. InputsInv'
    BY <1>1, <1>3 DEF InputsInv, Whole, Indices
  <1>5. SlotsInv'
    <2>1. (InputsInv /\ sigs = HostSigs(inputs))'
      BY <1>1, <1>2, <1>4
    <2> QED
      BY <2>1, FreshSlots, PTL
  <1>6. (call = NoCall /\ scratch \in Nat \cup {None})'
    BY DEF NoCall
  <1>7. SignerInv'
    BY <1>4, <1>5, <1>6, IdleHolds, PTL
  <1> QED
    BY <1>1, <1>2, <1>3, <1>7

-----------------------------------------------------------------------------
(* psbt_sign leaves a call that is under way, or has come to its end.         *)
LEMMA SignGoesOn ==
  ASSUME SignerInv, psbt_sign
  PROVE  /\ Signing /\ Signing' /\ call.step # "done"
         /\ inputs' = inputs /\ selected' = selected
  <1>1. call \in CallType
    BY DEF SignerInv, CallInv
  <1>2. inputs' = inputs /\ selected' = selected
    BY DEF psbt_sign, SkipInput, se051_derive_child_key, SignInput, DeleteKey, EndOfLoop
  <1>3. Signing /\ call.step # "done"
    BY DEF psbt_sign, SkipInput, se051_derive_child_key, SignInput, DeleteKey, EndOfLoop, Signing
  <1>4. call'.step # "idle"
    BY <1>1 DEF psbt_sign, SkipInput, se051_derive_child_key, SignInput, DeleteKey, EndOfLoop,
       NextInput, ReturnError, Return, ToDelete, CallType
  <1> QED
    BY <1>2, <1>3, <1>4 DEF Signing

LEMMA ReviewInvInit == Init => ReviewInv
  <1> SUFFICES ASSUME Init PROVE ReviewInv
    OBVIOUS
  <1>1. InputsInv /\ sigs = HostSigs(inputs)
    BY SignerAssumption DEF Init, InputsInv, Indices
  <1>2. SignerInv
    BY <1>1, FreshSlots, IdleHolds DEF Init
  <1> QED
    BY <1>2 DEF Init, ReviewInv, CallScreenInv, ConsentInv, ConfirmedInv, HostInv, ReviewScreens, BeforeSigning,
       Afterwards, Signing, NoCall

(* The signer's invariant under every action of the review.                   *)
LEMMA SignerKept ==
  ASSUME ReviewInv, Next
  PROVE  SignerInv'
  <1>1. /\ SignerInv /\ InputsInv /\ SlotsInv /\ scratch \in Nat \cup {None}
        /\ coinControlScrollIdx \in Nat
    BY DEF ReviewInv, SignerInv, CallInv, ConsentInv
  <1>2. CASE UNCHANGED signerVars
    BY <1>1, <1>2, SignerInvStep
  <1>3. CASE Sign
    BY <1>1, <1>3, SignerInvStep DEF Sign
  <1>4. CASE PollTakesUp
    <2>1. Whole(line)
      BY <1>4, KnownTxs DEF PollTakesUp, ReviewInv, HostInv
    <2>2. call' = NoCall
      BY <1>4 DEF PollTakesUp, ReviewInv, CallScreenInv
    <2> QED
      BY <1>1, <1>4, <2>1, <2>2, LoadHolds DEF PollTakesUp
  <1>5. CASE DemoReview
    <2>1. call' = NoCall
      BY <1>5 DEF DemoReview, ReviewInv, CallScreenInv, Signing, Afterwards
    <2> QED
      BY <1>1, <1>5, <2>1, KnownTxs, LoadHolds DEF DemoReview
  <1>6. CASE FeeReviewConfirmAllChange
    <2>1. call' = NoCall
      BY <1>6 DEF FeeReviewConfirmAllChange, ReviewInv, CallScreenInv, Signing, Afterwards
    <2> QED
      BY <1>1, <1>6, <2>1, KnownTxs, LoadHolds DEF FeeReviewConfirmAllChange
  <1>7. CASE Reset
    BY <1>1, <1>7, KnownTxs, LoadHolds DEF Reset
  <1>8. CASE CoinControlToggle
    <2>1. call = NoCall
      BY <1>8 DEF CoinControlToggle, ReviewInv, CallScreenInv, Signing, Afterwards
    <2>2. RowInput(coinControlScrollIdx) \in Owned(inputs)
      BY <1>1, <1>8, RowIsOwned DEF CoinControlToggle
    <2>3. Owned(inputs) \subseteq Indices
      BY DEF Owned, Indices
    <2>4. /\ inputs' = inputs /\ sigs' = sigs /\ scratch' = scratch /\ call' = call
          /\ selected' \subseteq selected \cup Owned(inputs)
      BY <1>8, <2>2 DEF CoinControlToggle
    <2>5. InputsInv' /\ SlotsInv'
      BY <1>1, <2>3, <2>4 DEF InputsInv, SlotsInv, Indices, AnyValue, SlotValues
    <2>6. (call = NoCall /\ scratch \in Nat \cup {None})'
      BY <1>1, <2>1, <2>4 DEF NoCall
    <2> QED
      BY <2>5, <2>6, IdleHolds, PTL
  <1>9. CASE OutputReviewConfirm
    <2>1. sigs = HostSigs(inputs)
      BY <1>9 DEF OutputReviewConfirm, ReviewInv, CallScreenInv, BeforeSigning, Signing
    <2>2. inputs' = inputs /\ sigs' = sigs /\ selected' = selected /\ scratch' = scratch
      BY <1>9 DEF OutputReviewConfirm
    <2>3. (/\ InputsInv /\ sigs = HostSigs(inputs)
           /\ scratch \in Nat \cup {None} /\ call = Called)'
      BY <1>1, <1>9, <2>1, <2>2 DEF InputsInv, Indices, HostSigs, OutputReviewConfirm, Called, NoCall
    <2> QED
      BY <2>3, CalledHolds, PTL
  <1>10. CASE TxSuccess \/ TxSignError
    <2>1. /\ inputs' = inputs /\ sigs' = sigs /\ selected' = selected /\ scratch' = scratch
          /\ call' = NoCall
      BY <1>10 DEF TxSuccess, TxSignError
    <2>2. (InputsInv /\ SlotsInv /\ call = NoCall /\ scratch \in Nat \cup {None})'
      BY <1>1, <2>1 DEF InputsInv, SlotsInv, Indices, AnyValue, SlotValues, NoCall
    <2> QED
      BY <2>2, IdleHolds, PTL
  <1>11. \/ UNCHANGED signerVars \/ Sign \/ PollTakesUp \/ DemoReview
         \/ FeeReviewConfirmAllChange \/ Reset \/ CoinControlToggle \/ OutputReviewConfirm
         \/ TxSuccess \/ TxSignError
    BY DEF Next, Host, Poll, User, Device, HostSends, HostAsksInfo, PollDrops, ChooseSignTx,
       SignTx, WaitPsbtCancel, CoinControlScroll, CoinControlProceed, FeeReviewCancel,
       FeeReviewConfirm, RbfConfirm, OutputReviewCancel, SignReturns
  <1> QED
    BY <1>2, <1>3, <1>4, <1>5, <1>6, <1>7, <1>8, <1>9, <1>10, <1>11

ScreensInv == CallScreenInv /\ ConsentInv /\ HostInv

(* A transaction on its way from the line, the menu or a reset to its first   *)
(* screen, with nothing confirmed.                                            *)
LEMMA StartHolds ==
  ASSUME ReviewInv, NEW t, Whole(t), LoadTx(t), call' = NoCall, scratch' = scratch,
         HostInv',
         \/ StartReview(t)
         \/ currentState' = "TX_FEE_REVIEW" /\ t.readable
         \/ currentState' = "MAIN_MENU"
  PROVE  ScreensInv'
  <1>1. /\ sigs' = HostSigs(inputs)' /\ selected' \subseteq Owned(inputs)'
        /\ t.readable => selected' = Owned(inputs)'
        /\ coinControlScrollIdx' = 0
    BY LoadHolds DEF ReviewInv, SignerInv, CallInv
  <1>2. \/ currentState' = "MAIN_MENU"
        \/ currentState' \in {"COIN_CONTROL", "TX_FEE_REVIEW"} /\ t.readable
    BY DEF StartReview, Go
  <1>3. CallScreenInv'
    BY <1>1, <1>2 DEF CallScreenInv, Signing, Afterwards, BeforeSigning, NoCall
  <1>4. ConsentInv'
    BY <1>1, <1>2 DEF ConsentInv, ReviewScreens, Afterwards
  <1> QED
    BY <1>3, <1>4 DEF ScreensInv

(* The screens under every action: who confirmed what, and whose the call is. *)
LEMMA ScreensKept ==
  ASSUME ReviewInv, Next
  PROVE  ScreensInv'
  <1> USE DEF ScreensInv, CallScreenInv, ConsentInv, HostInv
  <1>1. /\ CallScreenInv /\ ConsentInv /\ HostInv /\ InputsInv /\ SignerInv
    BY DEF ReviewInv, SignerInv
  <1>2. CASE HostSends \/ HostAsksInfo \/ PollDrops
    BY <1>1, <1>2 DEF HostSends, HostAsksInfo, PollDrops, signerVars, uiVars, history, Signing, Afterwards
  <1>3. CASE PollTakesUp
    <2>1. Whole(line) /\ call' = NoCall
      BY <1>1, <1>3, KnownTxs DEF PollTakesUp
    <2>2. HostInv'
      BY <1>1, <1>3 DEF PollTakesUp, StartReview, Go
    <2> QED
      BY <1>3, <2>1, <2>2, StartHolds DEF PollTakesUp
  <1>4. CASE DemoReview
    <2>1. call' = NoCall
      BY <1>1, <1>4 DEF DemoReview, Signing, Afterwards
    <2>2. HostInv'
      BY <1>1, <1>4 DEF DemoReview, StartReview, Go, hostVars
    <2> QED
      BY <1>4, <2>1, <2>2, StartHolds, KnownTxs DEF DemoReview
  <1>5. CASE FeeReviewConfirmAllChange
    <2>1. call' = NoCall
      BY <1>1, <1>5 DEF FeeReviewConfirmAllChange, Signing, Afterwards
    <2>2. HostInv'
      BY <1>1, <1>5 DEF FeeReviewConfirmAllChange, hostVars
    <2> QED
      BY <1>5, <2>1, <2>2, StartHolds, KnownTxs, ReviewAssumption DEF FeeReviewConfirmAllChange
  <1>6. CASE Reset
    <2>1. HostInv'
      BY <1>6 DEF Reset, Go
    <2> QED
      BY <1>6, <2>1, StartHolds, KnownTxs DEF Reset, Go
  <1>7. CASE ChooseSignTx \/ SignTx \/ WaitPsbtCancel
    BY <1>1, <1>7 DEF ChooseSignTx, SignTx, WaitPsbtCancel, RejectTx, Reply, Go, signerVars, hostVars,
       history, Signing, Afterwards, BeforeSigning, ReviewScreens
  <1>8. CASE CoinControlScroll
    <2>1. coinControlScrollIdx' \in Nat
      BY <1>1, <1>8, OwnedFinite DEF CoinControlScroll
    <2> QED
      BY <1>1, <1>8, <2>1 DEF CoinControlScroll, signerVars, hostVars, history, Signing, Afterwards
  <1>9. CASE CoinControlToggle
    <2>1. RowInput(coinControlScrollIdx) \in Owned(inputs)
      BY <1>1, <1>9, RowIsOwned DEF CoinControlToggle
    <2>2. selected' \subseteq Owned(inputs)
      BY <1>1, <1>9, <2>1 DEF CoinControlToggle, ReviewScreens
    <2> QED
      BY <1>1, <1>9, <2>2 DEF CoinControlToggle, uiVars, hostVars, history, Signing, Afterwards
  <1>10. CASE CoinControlProceed
    BY <1>1, <1>10 DEF CoinControlProceed, Go, Confirm, signerVars, hostVars, Signing, Afterwards,
       BeforeSigning, ReviewScreens
  <1>11. CASE FeeReviewCancel \/ OutputReviewCancel
    BY <1>1, <1>11 DEF FeeReviewCancel, OutputReviewCancel, RejectTx, Reply, Show, Go, signerVars,
       hostVars, history, Signing, Afterwards, BeforeSigning, ReviewScreens
  <1>12. CASE FeeReviewConfirm
    BY <1>1, <1>12 DEF FeeReviewConfirm, Confirm, Show, Go, signerVars, hostVars, Signing, Afterwards,
       BeforeSigning, ReviewScreens
  <1>13. CASE RbfConfirm
    BY <1>1, <1>13 DEF RbfConfirm, RejectTx, Reply, Confirm, Show, Go, signerVars, hostVars, Signing,
       Afterwards, BeforeSigning, ReviewScreens
  <1>14. CASE OutputReviewConfirm
    BY <1>1, <1>14 DEF OutputReviewConfirm, Called, NoCall, Confirm, uiVars, hostVars, Signing,
       Afterwards, BeforeSigning, ReviewScreens
  <1>15. CASE Sign
    <2>1. /\ Signing /\ Signing' /\ call.step # "done"
          /\ inputs' = inputs /\ selected' = selected
      BY <1>1, <1>15, SignGoesOn DEF Sign
    <2>2. currentState = "TX_OUTPUT_REVIEW"
      BY <1>1, <2>1
    <2> QED
      BY <1>1, <1>15, <2>1, <2>2 DEF Sign, uiVars, hostVars, history, Signing, Afterwards, ReviewScreens
  <1>16. CASE SignReturns
    BY <1>1, <1>16 DEF SignReturns, Go, signerVars, hostVars, history, Signing, Afterwards,
       BeforeSigning, ReviewScreens
  <1>17. CASE TxSuccess \/ TxSignError
    <2>1. /\ currentState' = "MAIN_MENU" /\ psbtFromUsb' = FALSE /\ call' = NoCall
          /\ coinControlScrollIdx' = coinControlScrollIdx /\ line' = line
      BY <1>17 DEF TxSuccess, TxSignError, Go, Reply, hostVars
    <2> QED
      BY <1>1, <2>1 DEF NoCall, Signing, Afterwards, BeforeSigning, ReviewScreens
  <1> QED
    BY <1>2, <1>3, <1>4, <1>5, <1>6, <1>7, <1>8, <1>9, <1>10, <1>11, <1>12, <1>13, <1>14, <1>15,
       <1>16, <1>17 DEF Next, Host, Poll, User, Device

(* Where the transaction stays, so do the screens it needs and its outputs.   *)
LEMMA SameTx ==
  ASSUME tx' = tx, inputs' = inputs
  PROVE  Required' = Required /\ NonChange(tx)' = NonChange(tx)
  <1>1. Owned(inputs)' = Owned(inputs) /\ tx_detect_rbf(inputs)' = tx_detect_rbf(inputs)
    BY DEF Owned, tx_detect_rbf
  <1> QED
    BY <1>1 DEF Required, NonChange

LEMMA AlwaysRequired ==
  "TX_FEE_REVIEW" \in Required /\ "TX_OUTPUT_REVIEW" \in Required /\ Required \subseteq BeforeSigning
  BY DEF Required, BeforeSigning

NowConfirmedOn(screens) == confirmed' = {<<s, selected'>> : s \in screens}

(* A screen that is confirmed joins those that were.                          *)
LEMMA ConfirmAdds ==
  ASSUME NEW screens, ConfirmedOn(screens), Confirm, selected' = selected
  PROVE  NowConfirmedOn(screens \cup {currentState})
  BY DEF ConfirmedOn, NowConfirmedOn, Confirm

(* A review begins with nothing confirmed, on coin control if it needs that.  *)
LEMMA LoadUnconfirmed ==
  ASSUME LoadTx(tx'), call' = NoCall,
         \/ currentState' \notin ReviewScreens
         \/ currentState' = "COIN_CONTROL" /\ Cardinality(Owned(tx'.inputs)) > 1
         \/ currentState' = "TX_FEE_REVIEW" /\ ~(Cardinality(Owned(tx'.inputs)) > 1)
  PROVE  ConfirmedInv'
  <1>1. confirmed' = {} /\ inputs' = tx'.inputs
    BY DEF LoadTx
  <1>2. Owned(inputs)' = Owned(tx'.inputs)
    BY <1>1 DEF Owned
  <1>3. /\ Cardinality(Owned(tx'.inputs)) > 1 => ("COIN_CONTROL" \in Required)'
        /\ ~(Cardinality(Owned(tx'.inputs)) > 1) => Required' \cap {"COIN_CONTROL"} = {}
    BY <1>2 DEF Required, BeforeSigning
  <1>4. ~Signing'
    BY DEF Signing, NoCall
  <1> QED
    BY <1>1, <1>3, <1>4 DEF ConfirmedInv, ConfirmedOn, ReviewScreens, Afterwards

(* DEMO_PSBT has one input and needs no coin control.                         *)
LEMMA DemoNeedsNoChoice == ~(Cardinality(Owned(Demo.inputs)) > 1)
  <1>1. Owned(Demo.inputs) \in SUBSET (1..1)
    BY ReviewAssumption DEF Owned
  <1>2. IsFiniteSet(1..1) /\ Cardinality(1..1) = 1
    <2>1. /\ IsFiniteSet(1..1)
          /\ Cardinality(1..1) = IF 1 > 1 THEN 0 ELSE 1 - 1 + 1
      BY FS_Interval, 1 \in Int
    <2> QED
      BY <2>1
  <1>3. Cardinality(Owned(Demo.inputs)) <= 1 /\ Cardinality(Owned(Demo.inputs)) \in Nat
    BY <1>1, <1>2, FS_Subset, FS_CardinalityType
  <1> QED
    BY <1>3

(* What is confirmed grows with the screens, and only with them.              *)
LEMMA ConfirmedKept ==
  ASSUME ReviewInv, Next
  PROVE  ConfirmedInv'
  <1>1. CallScreenInv /\ ConsentInv /\ ConfirmedInv /\ HostInv /\ ScreensInv'
    BY ScreensKept DEF ReviewInv
  <1>2. ASSUME UNCHANGED <<tx, inputs, selected, confirmed>>,
               \/ currentState' = currentState /\ shown \subseteq shown'
               \/ currentState' \notin ReviewScreens,
               txReviewOutputIdx' = txReviewOutputIdx, Signing' => Signing,
               currentState = "TX_OUTPUT_REVIEW" => (Signing => Signing')
        PROVE  ConfirmedInv'
    BY <1>1, <1>2, SameTx DEF ConfirmedInv, ConfirmedOn, ReviewScreens, Afterwards
  <1>3. CASE HostSends \/ HostAsksInfo \/ PollDrops
    BY <1>2, <1>3 DEF HostSends, HostAsksInfo, PollDrops, signerVars, uiVars, history, Signing
  <1>4. CASE PollTakesUp
    <2>1. call' = NoCall /\ LoadTx(line) /\ StartReview(line) /\ tx' = line
      BY <1>1, <1>4 DEF PollTakesUp, CallScreenInv, LoadTx
    <2> QED
      BY <2>1, LoadUnconfirmed DEF StartReview, Go, ReviewScreens
  <1>5. CASE DemoReview
    <2>1. call' = NoCall /\ LoadTx(Demo) /\ tx' = Demo /\ StartReview(Demo)
      BY <1>1, <1>5 DEF DemoReview, CallScreenInv, Signing, Afterwards, LoadTx
    <2> QED
      BY <2>1, LoadUnconfirmed DEF StartReview, Go, ReviewScreens
  <1>6. CASE FeeReviewConfirmAllChange
    <2>1. call' = NoCall /\ LoadTx(Demo) /\ tx' = Demo /\ currentState' = "TX_FEE_REVIEW"
      BY <1>1, <1>6 DEF FeeReviewConfirmAllChange, CallScreenInv, Signing, Afterwards, LoadTx
    <2> QED
      BY <2>1, LoadUnconfirmed, DemoNeedsNoChoice
  <1>7. CASE Reset
    <2>1. call' = NoCall /\ LoadTx(Blank) /\ tx' = Blank /\ currentState' = "MAIN_MENU"
      BY <1>7 DEF Reset, Go, LoadTx
    <2> QED
      BY <2>1, LoadUnconfirmed DEF ReviewScreens
  <1>8. CASE ChooseSignTx \/ SignTx \/ WaitPsbtCancel \/ CoinControlScroll
    BY <1>2, <1>8 DEF ChooseSignTx, SignTx, WaitPsbtCancel, CoinControlScroll, RejectTx, Go, signerVars,
       history, Signing, ReviewScreens
  <1>9. CASE CoinControlToggle
    <2>1. /\ UNCHANGED <<tx, inputs, confirmed, currentState, call>>
          /\ currentState = "COIN_CONTROL" /\ ~Signing
      BY <1>1, <1>9 DEF CoinControlToggle, uiVars, history, CallScreenInv, Signing, Afterwards
    <2> QED
      BY <1>1, <2>1, SameTx DEF ConfirmedInv, ConfirmedOn, NowConfirmedOn, Signing, Afterwards
  <1>10. CASE CoinControlProceed
    <2>1. /\ UNCHANGED <<tx, inputs, selected, call>> /\ Confirm
          /\ currentState = "COIN_CONTROL" /\ currentState' = "TX_FEE_REVIEW" /\ ~Signing
      BY <1>1, <1>10 DEF CoinControlProceed, signerVars, CallScreenInv, Signing, Afterwards, Go
    <2>2. NowConfirmedOn({} \cup {"COIN_CONTROL"}) /\ "COIN_CONTROL" \in Required
      BY <1>1, <2>1, ConfirmAdds DEF ConfirmedInv
    <2>3. {} \cup {"COIN_CONTROL"} = Required \cap {"COIN_CONTROL"}
      BY <2>2
    <2> QED
      BY <2>1, <2>2, <2>3, SameTx DEF ConfirmedInv, ConfirmedOn, NowConfirmedOn, Signing, Afterwards
  <1>11. CASE FeeReviewCancel
    BY <1>2, <1>11 DEF FeeReviewCancel, RejectTx, Go, signerVars, history, Signing, ReviewScreens
  <1>12. CASE FeeReviewConfirm
    <2>1. /\ UNCHANGED <<tx, inputs, selected, call>> /\ Confirm /\ txReviewOutputIdx' = 0
          /\ currentState = "TX_FEE_REVIEW" /\ ~Signing
      BY <1>1, <1>12 DEF FeeReviewConfirm, signerVars, CallScreenInv, Signing, Afterwards
    <2>2. NowConfirmedOn((Required \cap {"COIN_CONTROL"}) \cup {"TX_FEE_REVIEW"})
      BY <1>1, <2>1, ConfirmAdds DEF ConfirmedInv
    <2>3. CASE tx_detect_rbf(inputs)
      <3>1. currentState' = "TX_RBF_CONFIRM" /\ "TX_RBF_CONFIRM" \in Required
        BY <1>12, <2>3 DEF FeeReviewConfirm, Go, Required, BeforeSigning
      <3>2. (Required \cap {"COIN_CONTROL"}) \cup {"TX_FEE_REVIEW"} = Required \cap {"COIN_CONTROL", "TX_FEE_REVIEW"}
        BY AlwaysRequired
      <3> QED
        BY <2>1, <2>2, <3>1, <3>2, SameTx DEF ConfirmedInv, ConfirmedOn, NowConfirmedOn, Signing, Afterwards
    <2>4. CASE ~tx_detect_rbf(inputs)
      <3>1. currentState' = "TX_OUTPUT_REVIEW" /\ Show(0) /\ "TX_RBF_CONFIRM" \notin Required
        BY <1>12, <2>4 DEF FeeReviewConfirm, Go, Required
      <3>2. (Required \cap {"COIN_CONTROL"}) \cup {"TX_FEE_REVIEW"} = Required \ {"TX_OUTPUT_REVIEW"}
        BY <3>1, AlwaysRequired DEF BeforeSigning
      <3>3. Nth(NonChange(tx), 0) \in shown'
        BY <3>1 DEF Show
      <3> QED
        BY <2>1, <2>2, <3>1, <3>2, <3>3, SameTx DEF ConfirmedInv, ConfirmedOn, NowConfirmedOn, Signing
    <2> QED
      BY <2>3, <2>4
  <1>13. CASE RbfConfirm
    <2>1. CASE RejectTx /\ UNCHANGED <<shown, confirmed>>
      BY <1>2, <1>13, <2>1 DEF RbfConfirm, RejectTx, Go, signerVars, Signing, ReviewScreens
    <2>2. CASE Go("TX_OUTPUT_REVIEW") /\ Show(txReviewOutputIdx) /\ Confirm
      <3>1. /\ UNCHANGED <<tx, inputs, selected, call, txReviewOutputIdx>>
            /\ currentState = "TX_RBF_CONFIRM" /\ currentState' = "TX_OUTPUT_REVIEW" /\ ~Signing
            /\ Nth(NonChange(tx), txReviewOutputIdx) \in shown'
        BY <1>1, <1>13, <2>2 DEF RbfConfirm, signerVars, CallScreenInv, Signing, Afterwards, Go, Show
      <3>2. /\ NowConfirmedOn((Required \cap {"COIN_CONTROL", "TX_FEE_REVIEW"}) \cup {"TX_RBF_CONFIRM"})
            /\ "TX_RBF_CONFIRM" \in Required
        BY <1>1, <2>2, <3>1, ConfirmAdds DEF ConfirmedInv
      <3>3. (Required \cap {"COIN_CONTROL", "TX_FEE_REVIEW"}) \cup {"TX_RBF_CONFIRM"}
              = Required \ {"TX_OUTPUT_REVIEW"}
        BY <3>2, AlwaysRequired DEF BeforeSigning
      <3> QED
        BY <3>1, <3>2, <3>3, SameTx DEF ConfirmedInv, ConfirmedOn, NowConfirmedOn, Signing
    <2> QED
      BY <1>13, <2>1, <2>2 DEF RbfConfirm
  <1>14. CASE OutputReviewCancel
    <2>1. /\ UNCHANGED <<tx, inputs, selected, call, confirmed>>
          /\ currentState = "TX_OUTPUT_REVIEW" /\ ~Signing
          /\ \/ currentState' = "MAIN_MENU"
             \/ /\ currentState' = currentState
                /\ Nth(NonChange(tx), txReviewOutputIdx') \in shown'
      BY <1>14 DEF OutputReviewCancel, RejectTx, Go, Show, signerVars, Signing
    <2> QED
      BY <1>1, <2>1, SameTx DEF ConfirmedInv, ConfirmedOn, NowConfirmedOn, Signing, Afterwards
  <1>15. CASE OutputReviewConfirm
    <2>1. /\ UNCHANGED <<tx, inputs, selected, currentState, txReviewOutputIdx, shown>> /\ Confirm
          /\ currentState = "TX_OUTPUT_REVIEW" /\ ~Signing /\ Signing'
      BY <1>15 DEF OutputReviewConfirm, uiVars, Signing, Called, NoCall
    <2>2. NowConfirmedOn((Required \ {"TX_OUTPUT_REVIEW"}) \cup {"TX_OUTPUT_REVIEW"})
      BY <1>1, <2>1, ConfirmAdds DEF ConfirmedInv
    <2>3. (Required \ {"TX_OUTPUT_REVIEW"}) \cup {"TX_OUTPUT_REVIEW"} = Required
      BY AlwaysRequired
    <2> QED
      BY <1>1, <2>1, <2>2, <2>3, SameTx DEF ConfirmedInv, ConfirmedOn, NowConfirmedOn
  <1>16. CASE Sign
    <2>1. Signing /\ Signing' /\ inputs' = inputs /\ selected' = selected
      BY <1>16, SignGoesOn DEF Sign, ReviewInv
    <2> QED
      BY <1>2, <1>16, <2>1 DEF Sign, uiVars, history
  <1>17. CASE SignReturns
    <2>1. /\ UNCHANGED <<tx, inputs, selected, call, confirmed, shown, txReviewOutputIdx>>
          /\ Signing /\ currentState = "TX_OUTPUT_REVIEW" /\ currentState' \in Afterwards
      BY <1>17 DEF SignReturns, Go, signerVars, history, Signing, Afterwards
    <2> QED
      BY <1>1, <2>1, SameTx DEF ConfirmedInv, ConfirmedOn, NowConfirmedOn, Signing, Afterwards
  <1>18. CASE TxSuccess \/ TxSignError
    <2>1. /\ UNCHANGED <<tx, inputs, selected, confirmed, txReviewOutputIdx>>
          /\ currentState' = "MAIN_MENU" /\ ~Signing'
          /\ currentState # "TX_OUTPUT_REVIEW"
      BY <1>18 DEF TxSuccess, TxSignError, Go, history, Signing, NoCall
    <2> QED
      BY <1>2, <2>1 DEF ReviewScreens
  <1> QED
    BY <1>3, <1>4, <1>5, <1>6, <1>7, <1>8, <1>9, <1>10, <1>11, <1>12, <1>13, <1>14, <1>15, <1>16,
       <1>17, <1>18 DEF Next, Host, Poll, User, Device

LEMMA ReviewInvStep == ReviewInv /\ [Next]_vars => ReviewInv'
  <1> SUFFICES ASSUME ReviewInv, [Next]_vars PROVE ReviewInv'
    OBVIOUS
  <1>1. CASE Next
    BY <1>1, SignerKept, ScreensKept, ConfirmedKept DEF ReviewInv, ScreensInv
  <1>2. CASE UNCHANGED vars
    <2>1. SignerInv'
      BY <1>2, SignerInvStep DEF vars, ReviewInv
    <2>2. /\ currentState' = currentState /\ psbtFromUsb' = psbtFromUsb /\ line' = line
          /\ coinControlScrollIdx' = coinControlScrollIdx /\ shown' = shown /\ confirmed' = confirmed
          /\ call' = call /\ sigs' = sigs /\ inputs' = inputs /\ selected' = selected /\ tx' = tx
          /\ txReviewOutputIdx' = txReviewOutputIdx
      BY <1>2 DEF vars, uiVars, hostVars, history, signerVars
    <2>3. ConfirmedInv'
      BY <2>2, SameTx DEF ReviewInv, ConfirmedInv, ConfirmedOn, Signing
    <2> QED
      BY <2>1, <2>2, <2>3 DEF ReviewInv, CallScreenInv, ConsentInv, HostInv, Signing
  <1> QED
    BY <1>1, <1>2

-----------------------------------------------------------------------------
(* The indices of the screens stay within their arrays, and the history within *)
(* the transaction under review.                                              *)
PlaceInv ==
  /\ tx \in HostTxs \cup {Demo, Blank} /\ inputs = tx.inputs
  /\ currentState \in ReviewScreens \cup {"MAIN_MENU", "SIGN_TX", "WAIT_PSBT"}
  /\ currentState \in ReviewScreens => tx.readable
  /\ ready \in BOOLEAN /\ reply \in [kind : {"none", "SIGNED", "REJECTED", "ERROR"}, bit : {0, 1}]
  /\ txMetaPage \in Nat /\ txReviewOutputIdx \in Nat
  /\ shown \subseteq 1..Len(tx.outputs) /\ confirmed \subseteq BeforeSigning \X SUBSET Indices
  /\ ReviewIndexInBounds

LEMMA OutputsFinite ==
  ASSUME NEW t \in HostTxs \cup {Demo, Blank}
  PROVE  /\ Len(t.outputs) \in Nat /\ NonChange(t) \subseteq 1..Len(t.outputs)
         /\ Cardinality(NonChange(t)) \in Nat
         /\ NonChange(t) # {} => Cardinality(NonChange(t)) > 0
         /\ \A k \in Nat : k < Cardinality(NonChange(t)) => Nth(NonChange(t), k) \in 1..Len(t.outputs)
  <1>1. Len(t.outputs) \in Nat
    <2>1. CASE t \in HostTxs \cup {Demo}
      BY <2>1, ReviewAssumption DEF Tx
    <2>2. CASE t = Blank
      BY <2>2 DEF Blank
    <2> QED
      BY <2>1, <2>2
  <1>2. NonChange(t) \in SUBSET (1..Len(t.outputs))
    BY DEF NonChange
  <1>3. IsFiniteSet(NonChange(t))
    <2>1. IsFiniteSet(1..Len(t.outputs))
      BY <1>1, FS_Interval
    <2> QED
      BY <1>2, <2>1, FS_Subset
  <1>4. /\ Cardinality(NonChange(t)) \in Nat
        /\ Cardinality(NonChange(t)) = 0 <=> NonChange(t) = {}
    BY <1>3, FS_CardinalityType, FS_EmptySet
  <1> QED
    BY <1>1, <1>2, <1>4, NthIsMember

LEMMA Pages == InputsInv => MaxPage \in Nat /\ MaxPage > 0
  <1> SUFFICES ASSUME InputsInv PROVE MaxPage \in Nat /\ MaxPage > 0
    OBVIOUS
  <1>1. Len(inputs) \in Nat
    BY DEF InputsInv
  <1>2. MaxPage = 1 + Len(inputs) \/ MaxPage = 2 + Len(inputs)
    BY <1>1 DEF MaxPage
  <1> QED
    BY <1>1, <1>2

(* A transaction that is loaded is shown from its first page and output.      *)
LEMMA LoadPlaces ==
  ASSUME NEW t \in HostTxs \cup {Demo, Blank}, LoadTx(t), InputsInv', ready' \in BOOLEAN,
         reply' \in [kind : {"none", "SIGNED", "REJECTED", "ERROR"}, bit : {0, 1}],
         currentState' \in {"MAIN_MENU", "COIN_CONTROL", "TX_FEE_REVIEW"},
         currentState' # "MAIN_MENU" => t.readable
  PROVE  PlaceInv'
  <1>1. /\ tx' = t /\ inputs' = t.inputs /\ txMetaPage' = 0 /\ txReviewOutputIdx' = 0
        /\ coinControlScrollIdx' = 0 /\ shown' = {} /\ confirmed' = {}
    BY DEF LoadTx
  <1>2. MaxPage' > 0
    <2>1. (MaxPage \in Nat /\ MaxPage > 0)'
      BY Pages, PTL
    <2> QED
      BY <2>1
  <1>3. Cardinality(Owned(inputs)') >= 0
    <2>1. (Cardinality(Owned(inputs)) \in Nat)'
      BY OwnedFinite, PTL
    <2> QED
      BY <2>1
  <1>4. ReviewIndexInBounds'
    BY <1>1, <1>2, <1>3 DEF ReviewIndexInBounds
  <1> QED
    BY <1>1, <1>4 DEF PlaceInv, ReviewScreens

LEMMA PlacesKept ==
  ASSUME ReviewInv, PlaceInv, Next
  PROVE  PlaceInv'
  <1> DEFINE Replies == [kind : {"none", "SIGNED", "REJECTED", "ERROR"}, bit : {0, 1}]
  <1>1. /\ PlaceInv /\ InputsInv /\ InputsInv' /\ line \in HostTxs \cup {None}
        /\ reply \in Replies /\ ready \in BOOLEAN
    BY SignerKept DEF ReviewInv, SignerInv, HostInv, PlaceInv
  <1>2. \A kind \in {"SIGNED", "REJECTED", "ERROR"} : [kind |-> kind, bit |-> 1 - reply.bit] \in Replies
    BY <1>1
  <1>3. ASSUME NEW kind \in {"SIGNED", "REJECTED", "ERROR"}, Reply(kind)
        PROVE  reply' \in Replies /\ ready' \in BOOLEAN
    BY <1>2, <1>3 DEF Reply
  <1>4. CASE PollTakesUp
    <2>1. line \in HostTxs
      BY <1>1, <1>4 DEF PollTakesUp
    <2>2. reply' \in Replies
      BY <1>1, <1>2, <1>4 DEF PollTakesUp
    <2> QED
      BY <1>1, <1>4, <2>1, <2>2, LoadPlaces DEF PollTakesUp, StartReview, Go
  <1>5. CASE DemoReview
    BY <1>1, <1>5, LoadPlaces DEF DemoReview, StartReview, Go, hostVars
  <1>6. CASE FeeReviewConfirmAllChange
    BY <1>1, <1>6, LoadPlaces, ReviewAssumption DEF FeeReviewConfirmAllChange, hostVars
  <1>7. CASE Reset
    BY <1>1, <1>7, LoadPlaces DEF Reset, Go
  <1>8. \A k \in Nat : k < Cardinality(NonChange(tx)) => Nth(NonChange(tx), k) \in 1..Len(tx.outputs)
    BY <1>1, OutputsFinite DEF PlaceInv
  <1>9. Cardinality(NonChange(tx)) \in Nat /\ (NonChange(tx) # {} => Cardinality(NonChange(tx)) > 0)
    BY <1>1, OutputsFinite DEF PlaceInv
  <1>10. MaxPage \in Nat /\ MaxPage > 0
    BY <1>1, Pages
\* From here on the transaction under review stays.
  <1> DEFINE Stays == /\ tx' = tx /\ inputs' = inputs
                      /\ NonChange(tx)' = NonChange(tx) /\ MaxPage' = MaxPage /\ Owned(inputs)' = Owned(inputs)
                      /\ Indices' = Indices
         Recorded(c) == c \subseteq BeforeSigning \X SUBSET Indices
  <1>11. ASSUME tx' = tx, inputs' = inputs PROVE Stays
    BY <1>11 DEF NonChange, MaxPage, Owned, Indices
  <1>11a. ASSUME Confirm, currentState \in BeforeSigning PROVE Recorded(confirmed')
    <2>1. <<currentState, selected>> \in BeforeSigning \X SUBSET Indices
      BY <1>1, <1>11a DEF InputsInv
    <2> QED
      BY <1>1, <1>11a, <2>1 DEF Confirm, PlaceInv
  <1>12. CASE UNCHANGED <<tx, inputs, currentState, txMetaPage, txReviewOutputIdx, coinControlScrollIdx,
                          shown, confirmed>> /\ ready' \in BOOLEAN /\ reply' \in Replies
    BY <1>1, <1>11, <1>12 DEF PlaceInv, ReviewIndexInBounds
  <1>13. CASE UNCHANGED <<tx, inputs, txReviewOutputIdx, coinControlScrollIdx, shown, confirmed>>
              /\ txMetaPage' \in Nat
              /\ ready' \in BOOLEAN /\ reply' \in Replies
              /\ \/ currentState' \in {"MAIN_MENU", "SIGN_TX", "WAIT_PSBT"}
                 \/ currentState \in ReviewScreens /\ currentState' \in {"TX_SUCCESS", "TX_SIGN_ERROR"}
    BY <1>1, <1>11, <1>13 DEF PlaceInv, ReviewIndexInBounds, ReviewScreens
  <1>14. CASE HostSends \/ HostAsksInfo \/ PollDrops \/ CoinControlToggle \/ Sign
    <2>1. inputs' = inputs
      <3>1. Sign => inputs' = inputs
        BY SignGoesOn DEF Sign, ReviewInv
      <3> QED
        BY <1>14, <3>1 DEF HostSends, HostAsksInfo, PollDrops, CoinControlToggle, signerVars
    <2> QED
      BY <1>1, <1>12, <1>14, <2>1 DEF HostSends, HostAsksInfo, PollDrops, CoinControlToggle, Sign,
         signerVars, uiVars, hostVars, history
  <1>15. CASE ChooseSignTx \/ SignTx \/ SignReturns
    BY <1>1, <1>13, <1>15 DEF PlaceInv, ChooseSignTx, SignTx, SignReturns, ReviewScreens, Go, signerVars, hostVars, history
  <1>16. RejectTx => currentState' = "MAIN_MENU" /\ ready' \in BOOLEAN /\ reply' \in Replies
    BY <1>1, <1>3 DEF RejectTx, Go, hostVars
  <1>17. CASE WaitPsbtCancel
    BY <1>1, <1>13, <1>16, <1>17 DEF PlaceInv, WaitPsbtCancel, signerVars, history
  <1>18. CASE TxSuccess \/ TxSignError
    <2>1. currentState' = "MAIN_MENU" /\ ready' \in BOOLEAN /\ reply' \in Replies
      BY <1>1, <1>3, <1>18 DEF TxSuccess, TxSignError, Go, hostVars
    <2> QED
      BY <1>1, <1>13, <1>18, <2>1 DEF PlaceInv, TxSuccess, TxSignError, history
  <1>19. CASE CoinControlScroll
    <2>1. coinControlScrollIdx' <= Cardinality(Owned(inputs))
      <3>1. Cardinality(Owned(inputs)) \in Nat /\ coinControlScrollIdx \in Nat
        BY <1>1, OwnedFinite DEF ReviewInv, ConsentInv
      <3>2. \A a, n \in Nat : (a + 1) % (n + 1) <= n
        OBVIOUS
      <3> QED
        BY <1>19, <3>1, <3>2 DEF CoinControlScroll
    <2>2. /\ UNCHANGED <<tx, inputs, currentState, txMetaPage, txReviewOutputIdx, shown, confirmed, ready, reply>>
      BY <1>19 DEF CoinControlScroll, signerVars, hostVars, history
    <2> QED
      BY <1>1, <1>11, <2>1, <2>2 DEF PlaceInv, ReviewIndexInBounds
  <1>20. CASE CoinControlProceed
    <2>1. /\ UNCHANGED <<tx, inputs, txReviewOutputIdx, coinControlScrollIdx, shown, ready, reply>>
          /\ currentState = "COIN_CONTROL" /\ currentState' = "TX_FEE_REVIEW"
          /\ txMetaPage' = 0 /\ Recorded(confirmed')
      BY <1>20, <1>11a DEF CoinControlProceed, Go, BeforeSigning, signerVars, hostVars
    <2> QED
      BY <1>1, <1>10, <1>11, <2>1 DEF PlaceInv, ReviewIndexInBounds, ReviewScreens
  <1>21. CASE FeeReviewCancel
    <2>1. UNCHANGED <<tx, inputs, txReviewOutputIdx, coinControlScrollIdx, shown, confirmed>>
          /\ txMetaPage' = txMetaPage + 1 /\ txMetaPage' \in Nat /\ currentState = "TX_FEE_REVIEW"
      BY <1>1, <1>21 DEF PlaceInv, FeeReviewCancel, signerVars, history
    <2>2. CASE txMetaPage' >= MaxPage
      BY <1>13, <1>16, <1>21, <2>1, <2>2 DEF FeeReviewCancel, MaxPage
    <2>3. CASE ~(txMetaPage' >= MaxPage)
      <3>1. UNCHANGED <<currentState, ready, reply>>
        BY <1>21, <2>3 DEF FeeReviewCancel, hostVars
      <3> QED
        BY <1>1, <1>10, <1>11, <2>1, <2>3, <3>1 DEF PlaceInv, ReviewIndexInBounds
    <2> QED
      BY <2>2, <2>3
  <1>22. CASE FeeReviewConfirm
    <2>1. /\ UNCHANGED <<tx, inputs, txMetaPage, coinControlScrollIdx, ready, reply>>
          /\ txReviewOutputIdx' = 0 /\ Recorded(confirmed')
          /\ currentState = "TX_FEE_REVIEW" /\ currentState' \in {"TX_RBF_CONFIRM", "TX_OUTPUT_REVIEW"}
          /\ shown' = shown \/ shown' = shown \cup {Nth(NonChange(tx), 0)}
          /\ 0 < Cardinality(NonChange(tx))
      BY <1>9, <1>22, <1>11a DEF FeeReviewConfirm, Go, Show, BeforeSigning, signerVars, hostVars
    <2>2. Nth(NonChange(tx), 0) \in 1..Len(tx.outputs)
      BY <1>8, <2>1
    <2>3. shown' \subseteq 1..Len(tx.outputs)
      BY <1>1, <2>1, <2>2, Zenon DEF PlaceInv
    <2> QED
      BY <1>1, <1>11, <2>1, <2>3 DEF PlaceInv, ReviewIndexInBounds, ReviewScreens
  <1>23. CASE RbfConfirm
    <2>1. CASE RejectTx /\ UNCHANGED <<shown, confirmed>>
      BY <1>1, <1>13, <1>16, <1>23, <2>1 DEF PlaceInv, RbfConfirm, signerVars
    <2>2. CASE Go("TX_OUTPUT_REVIEW") /\ Show(txReviewOutputIdx) /\ Confirm /\ UNCHANGED <<psbtFromUsb, hostVars>>
      <3>1. /\ UNCHANGED <<tx, inputs, txMetaPage, txReviewOutputIdx, coinControlScrollIdx, ready, reply>>
            /\ currentState = "TX_RBF_CONFIRM" /\ currentState' = "TX_OUTPUT_REVIEW"
            /\ Recorded(confirmed')
            /\ shown' = shown \cup {Nth(NonChange(tx), txReviewOutputIdx)}
        BY <1>23, <1>11a, <2>2 DEF RbfConfirm, Go, Show, BeforeSigning, signerVars, hostVars
      <3>2. txReviewOutputIdx \in Nat /\ txReviewOutputIdx < Cardinality(NonChange(tx))
        BY <1>1, <3>1 DEF PlaceInv, ReviewIndexInBounds
      <3>3. shown' \subseteq 1..Len(tx.outputs)
        BY <1>1, <1>8, <3>1, <3>2 DEF PlaceInv
      <3> QED
        BY <1>1, <1>11, <3>1, <3>2, <3>3 DEF PlaceInv, ReviewIndexInBounds, ReviewScreens
    <2> QED
      BY <1>23, <2>1, <2>2 DEF RbfConfirm
  <1>24. CASE OutputReviewCancel
    <2>1. /\ UNCHANGED <<tx, inputs, txMetaPage, coinControlScrollIdx, confirmed>>
          /\ txReviewOutputIdx' = txReviewOutputIdx + 1 /\ txReviewOutputIdx' \in Nat
          /\ currentState = "TX_OUTPUT_REVIEW"
      BY <1>1, <1>24 DEF PlaceInv, OutputReviewCancel, signerVars
    <2>2. CASE txReviewOutputIdx' >= Cardinality(NonChange(tx))
      <3>1. RejectTx /\ shown' = shown
        BY <1>24, <2>2 DEF OutputReviewCancel
      <3> QED
        BY <1>1, <1>11, <1>16, <2>1, <3>1 DEF PlaceInv, ReviewIndexInBounds, ReviewScreens
    <2>3. CASE ~(txReviewOutputIdx' >= Cardinality(NonChange(tx)))
      <3>1. /\ UNCHANGED <<currentState, ready, reply>>
            /\ shown' = shown \cup {Nth(NonChange(tx), txReviewOutputIdx')}
        BY <1>24, <2>3 DEF OutputReviewCancel, Show, hostVars
      <3>2. txReviewOutputIdx' < Cardinality(NonChange(tx))
        BY <1>9, <2>1, <2>3
      <3>3. shown' \subseteq 1..Len(tx.outputs)
        BY <1>1, <1>8, <2>1, <3>1, <3>2 DEF PlaceInv
      <3> QED
        BY <1>1, <1>11, <2>1, <3>1, <3>2, <3>3 DEF PlaceInv, ReviewIndexInBounds
    <2> QED
      BY <2>2, <2>3
  <1>25. CASE OutputReviewConfirm
    <2>1. /\ UNCHANGED <<tx, inputs, currentState, txMetaPage, txReviewOutputIdx, coinControlScrollIdx,
                          ready, reply, shown>>
          /\ Recorded(confirmed')
      BY <1>25, <1>11a DEF OutputReviewConfirm, BeforeSigning, uiVars, hostVars
    <2> QED
      BY <1>1, <1>11, <2>1 DEF PlaceInv, ReviewIndexInBounds, ReviewScreens
  <1> QED
    BY <1>4, <1>5, <1>6, <1>7, <1>14, <1>15, <1>17, <1>18, <1>19, <1>20, <1>21, <1>22, <1>23, <1>24,
       <1>25 DEF Next, Host, Poll, User, Device

(* What the screens know is known at every one of them, whatever transactions  *)
(* the host sends and wherever a call fails or the power is lost.              *)
THEOREM ReviewInvariant == Spec => []ReviewInv
  BY ReviewInvInit, ReviewInvStep, PTL DEF Spec

LEMMA ReviewInvImplies ==
  ReviewInv => /\ SelectionIsOwned /\ ConfirmedBeforeSigning
               /\ KeyFitsInput /\ FailureReturnsNothing /\ SuccessIsComplete
               /\ UnselectedUntouched
  <1> SUFFICES ASSUME ReviewInv
               PROVE  /\ SelectionIsOwned /\ ConfirmedBeforeSigning
                      /\ KeyFitsInput /\ FailureReturnsNothing /\ SuccessIsComplete
                      /\ UnselectedUntouched
    OBVIOUS
  <1>1. SelectionIsOwned
    BY DEF ReviewInv, CallScreenInv, ConsentInv, SelectionIsOwned, ReviewScreens, Afterwards
  <1>2. ConfirmedBeforeSigning
    BY DEF ReviewInv, CallScreenInv, ConfirmedInv, ConfirmedBeforeSigning
  <1> QED
    BY <1>1, <1>2, SignerInvImplies DEF ReviewInv

(* The indices and the history fit the transaction under review.               *)
THEOREM PlaceInvariant == Spec => []PlaceInv
  <1>1. Init => PlaceInv
    <2> SUFFICES ASSUME Init PROVE PlaceInv
      OBVIOUS
    <2>1. /\ tx = Blank /\ inputs = <<>> /\ currentState = "MAIN_MENU" /\ ready = FALSE
          /\ reply = [kind |-> "none", bit |-> 0] /\ txMetaPage = 0 /\ txReviewOutputIdx = 0
          /\ shown = {} /\ confirmed = {}
      BY DEF Init
    <2>2. Blank.inputs = <<>>
      BY DEF Blank
    <2>3. ReviewIndexInBounds
      BY <2>1 DEF ReviewIndexInBounds
    <2> QED
      BY <2>1, <2>2, <2>3 DEF PlaceInv, ReviewScreens
  <1>2. ReviewInv /\ PlaceInv /\ [Next]_vars => PlaceInv'
    <2>1. UNCHANGED vars /\ PlaceInv => PlaceInv'
      BY DEF vars, uiVars, hostVars, history, signerVars, PlaceInv, ReviewIndexInBounds, MaxPage, NonChange, Owned, Indices
    <2> QED
      BY <2>1, PlacesKept
  <1> QED
    BY <1>1, <1>2, ReviewInvariant, PTL DEF Spec

(* No index of a screen leaves its array, also when the transaction under      *)
(* review is replaced while they are in use, and what is kept of the review is *)
(* of that transaction.                                                       *)
THEOREM AlwaysReviewTypeOK == Spec => []ReviewTypeOK
  <1>1. ReviewInv /\ PlaceInv => ReviewTypeOK
    <2>1. ReviewInv => /\ coinControlScrollIdx \in Nat /\ psbtFromUsb \in BOOLEAN
                       /\ line \in HostTxs \cup {None} /\ TypeOK
      BY SignerInvImplies DEF ReviewInv, ConsentInv, HostInv
    <2> QED
      BY <2>1 DEF PlaceInv, ReviewTypeOK
  <1> QED
    BY <1>1, ReviewInvariant, PlaceInvariant, PTL

(* The signer is called with inputs of the wallet only, and with at least one  *)
(* unless the wallet owns none, however the list was scrolled and toggled.     *)
THEOREM AlwaysSelectionIsOwned == Spec => []SelectionIsOwned
  BY ReviewInvariant, ReviewInvImplies, PTL

(* No path through the screens comes to a signature past coin control, the     *)
(* fee, the warning of a replaceable transaction or the output on the display, *)
(* and the selection that is signed is the one that was confirmed on each of   *)
(* them, also when the transaction under review was replaced on the way.       *)
THEOREM AlwaysConfirmedBeforeSigning == Spec => []ConfirmedBeforeSigning
  BY ReviewInvariant, ReviewInvImplies, PTL

(* The promises of psbt_sign hold for every call that the review makes: each   *)
(* starts from the slots the host sent and a selection within the inputs.      *)
THEOREM ReviewKeepsSignersPromises ==
  Spec => [](KeyFitsInput /\ FailureReturnsNothing /\ SuccessIsComplete /\ UnselectedUntouched)
  BY ReviewInvariant, ReviewInvImplies, PTL

-----------------------------------------------------------------------------
(* The device answers its host: each action of the review is a step of        *)
(* SignRequest or changes nothing of it.                                      *)
LEMMA RequestStep ==
  ASSUME ~PowerFails, ~HeapFails, ReviewInv, PlaceInv, Next
  PROVE  [Request!Next]_(Request!vars)
  <1> USE DEF Request!vars, Request!NoRequest, Request!Reply, Request!Close, Asked, ReviewScreens
  <1>1. CallScreenInv /\ HostInv /\ SignerInv /\ None \notin HostTxs
    BY ReviewAssumption DEF ReviewInv
  <1>2. CASE HostSends
    <2>1. UNCHANGED <<Asked, Signing, tx, reply>>
      BY <1>2 DEF HostSends, signerVars, uiVars, Signing
    <2> QED
      BY <1>2, <2>1 DEF HostSends, Request!Next, Request!Send
  <1>3. CASE HostAsksInfo
    BY <1>3 DEF HostAsksInfo, signerVars, uiVars, Signing
  <1>4. CASE PollDrops
    <2>1. UNCHANGED <<Asked, Signing, tx, reply>>
      BY <1>4 DEF PollDrops, signerVars, uiVars, Signing
    <2> QED
      BY <1>4, <2>1 DEF PollDrops, Request!Next, Request!Drop
  <1>5. CASE PollTakesUp
    <2>1. line \in HostTxs /\ tx' = line /\ line' = None /\ ~Asked /\ ~Signing'
      BY <1>1, <1>5 DEF PollTakesUp, LoadTx, HostInv, Signing
    <2>2. CASE line.readable
      <3>1. Asked' /\ reply' = reply
        BY <1>5, <2>2 DEF PollTakesUp, StartReview, Go
      <3> QED
        BY <2>1, <2>2, <3>1 DEF Request!Next, Request!TakeUp
    <2>3. CASE ~line.readable
      <3>1. ~Asked' /\ reply' = [kind |-> "ERROR", bit |-> 1 - reply.bit]
        BY <1>5, <2>3 DEF PollTakesUp, StartReview, Go
      <3> QED
        BY <2>1, <2>3, <3>1 DEF Request!Next, Request!Refuse
    <2> QED
      BY <2>2, <2>3
  <1>6. CASE DemoReview
    <2>1. ~Asked /\ ~Asked' /\ UNCHANGED <<line, reply>>
      BY <1>6 DEF DemoReview, hostVars
    <2> QED
      BY <2>1
  <1>7. CASE FeeReviewConfirmAllChange
    <2>1. /\ tx' = Demo /\ NonChange(tx) = {} /\ UNCHANGED <<Asked, Signing, line, reply>> /\ ~Signing
      BY <1>1, <1>7 DEF FeeReviewConfirmAllChange, LoadTx, hostVars, Signing, CallScreenInv, Afterwards
    <2>2. CASE ~Asked \/ tx = Demo
      BY <2>1, <2>2
    <2>3. CASE Asked /\ tx # Demo
      <3>1. tx \in HostTxs
        BY <2>3 DEF PlaceInv, Blank
      <3>2. <<tx, Demo>> \in {<<t, Demo>> : t \in {t \in HostTxs : NonChange(t) = {}}}
        BY <2>1, <3>1
      <3>3. tx = <<tx, Demo>>[1] /\ Demo = <<tx, Demo>>[2]
        OBVIOUS
      <3>4. [[phase |-> "taken", tx |-> tx] EXCEPT !.tx = Demo] = [phase |-> "taken", tx |-> Demo]
        OBVIOUS
      <3>5. Request!Substitute
        BY <2>1, <2>3, <3>2, <3>3, <3>4 DEF Request!Substitute
      <3> QED
        BY <3>5 DEF Request!Next
    <2> QED
      BY <2>2, <2>3
  <1>8. CASE ChooseSignTx \/ SignTx \/ WaitPsbtCancel
    <2>1. ~Asked /\ ~Asked' /\ UNCHANGED <<line, reply>>
      BY <1>1, <1>8 DEF ChooseSignTx, SignTx, WaitPsbtCancel, RejectTx, Go, hostVars, HostInv
    <2> QED
      BY <2>1
  <1>9. CASE CoinControlScroll \/ CoinControlToggle \/ CoinControlProceed \/ FeeReviewConfirm \/ SignReturns
    <2>1. UNCHANGED <<Asked, Signing, tx, line, reply>>
      BY <1>9 DEF CoinControlScroll, CoinControlToggle, CoinControlProceed, FeeReviewConfirm, SignReturns,
         Go, signerVars, uiVars, hostVars, Signing
    <2> QED
      BY <2>1
  <1>10. CASE FeeReviewCancel \/ RbfConfirm \/ OutputReviewCancel
    <2>1. ~Signing /\ ~Signing' /\ tx' = tx
      BY <1>1, <1>10 DEF FeeReviewCancel, RbfConfirm, OutputReviewCancel, CallScreenInv, Signing, Afterwards,
         signerVars
    <2>2. \/ RejectTx
          \/ UNCHANGED <<psbtFromUsb, hostVars>> /\ currentState' \in ReviewScreens
      BY <1>10 DEF FeeReviewCancel, RbfConfirm, OutputReviewCancel, Go
    <2>3. currentState \in ReviewScreens
      BY <1>10 DEF FeeReviewCancel, RbfConfirm, OutputReviewCancel
    <2>4. CASE RejectTx
      BY <2>1, <2>3, <2>4 DEF RejectTx, Reply, Go, hostVars, Request!Next, Request!Reject
    <2>5. CASE UNCHANGED <<psbtFromUsb, hostVars>> /\ currentState' \in ReviewScreens
      BY <2>1, <2>3, <2>5 DEF hostVars
    <2> QED
      BY <2>2, <2>4, <2>5
  <1>11. CASE OutputReviewConfirm
    <2>1. UNCHANGED <<Asked, tx, line, reply>> /\ ~Signing /\ Signing'
      BY <1>11 DEF OutputReviewConfirm, Called, NoCall, uiVars, hostVars, Signing
    <2> QED
      BY <2>1 DEF Request!Next, Request!Approve
  <1>12. CASE Sign
    <2>1. Signing /\ Signing'
      BY <1>1, <1>12, SignGoesOn DEF Sign
    <2>2. UNCHANGED <<Asked, tx, line, reply>>
      BY <1>12 DEF Sign, uiVars, hostVars
    <2> QED
      BY <2>1, <2>2
  <1>13. CASE TxSuccess \/ TxSignError
    <2>1. Signing /\ ~Asked' /\ line' = line /\ currentState \in ReviewScreens
      BY <1>1, <1>13 DEF TxSuccess, TxSignError, CallScreenInv, Signing, Afterwards, Go, NoCall, Reply, hostVars
    <2>2. IF psbtFromUsb THEN Reply("ERROR") \/ Reply("SIGNED") ELSE reply' = reply
      BY <1>13 DEF TxSuccess, TxSignError, hostVars
    <2> QED
      BY <2>1, <2>2 DEF Reply, Request!Next, Request!Answer
  <1> QED
    BY <1>2, <1>3, <1>4, <1>5, <1>6, <1>7, <1>8, <1>9, <1>10, <1>11, <1>12, <1>13
       DEF Next, Host, Poll, User, Device, Reset

(* One reply for each PSBT taken up, and the right one for the transaction the *)
(* host sent or the demo that took its place, as long as the device has power  *)
(* and memory; that the reply comes is liveness and left to TLC.               *)
THEOREM ReviewImplementsRequest ==
  ASSUME ~PowerFails, ~HeapFails
  PROVE  Spec => Request!Init /\ [][Request!Next]_(Request!vars)
  <1>1. Init => Request!Init
    BY DEF Init, Request!Init, Request!NoRequest, Asked
  <1>2. ReviewInv /\ PlaceInv /\ [Next]_vars => [Request!Next]_(Request!vars)
    <2>1. ASSUME UNCHANGED vars PROVE UNCHANGED Request!vars
      BY <2>1 DEF vars, Request!vars, uiVars, hostVars, signerVars, Asked, Signing
    <2> QED
      BY <2>1, RequestStep
  <1> QED
    BY <1>1, <1>2, ReviewInvariant, PlaceInvariant, PTL DEF Spec

(* Whatever fails: SIGNED is said only of a transaction confirmed on all its   *)
(* screens, to the host that sent one, and what goes with it is signed exactly *)
(* as selected, with the right keys.                                          *)
THEOREM AlwaysSignedAsAsked == Spec => SignedAsAsked
  <1> DEFINE Said == reply' # reply /\ reply'.kind = "SIGNED"
             AsAsked == /\ Asked /\ ConfirmedOn(Required)
                       /\ SignedByUs # {}
                       /\ SignedByUs = {i \in selected : input_is_owned(inputs[i]) /\ CanSign(inputs[i])}
                       /\ KeyFitsInput
                       /\ \A i \in Indices \ selected : sigs[i] = HostSigs(inputs)[i]
  <1>1. ReviewInv /\ [Next]_vars => [Said => AsAsked]_vars
    <2> SUFFICES ASSUME ReviewInv, Next, reply' # reply, reply'.kind = "SIGNED" PROVE AsAsked
      OBVIOUS
    <2>1. TxSuccess /\ Reply("SIGNED") /\ psbtFromUsb /\ call.outcome # 0
      BY DEF Next, Host, Poll, User, Device, HostSends, HostAsksInfo, PollTakesUp, PollDrops, DemoReview,
         ChooseSignTx, SignTx, WaitPsbtCancel, CoinControlScroll, CoinControlToggle, CoinControlProceed,
         FeeReviewCancel, FeeReviewConfirm, FeeReviewConfirmAllChange, RbfConfirm, OutputReviewCancel,
         OutputReviewConfirm, Sign, SignReturns, TxSuccess, TxSignError, Reset, RejectTx, Reply, hostVars
    <2>2. /\ call.step = "done" /\ ~(call.outcome < 0) /\ Signing /\ Asked /\ ConfirmedOn(Required)
      BY <2>1 DEF TxSuccess, ReviewInv, CallScreenInv, ConfirmedInv, Afterwards, Signing, Asked, ReviewScreens
    <2>3. TypeOK /\ KeyFitsInput /\ SuccessIsComplete /\ UnselectedUntouched
      BY ReviewInvImplies, SignerInvImplies DEF ReviewInv
    <2>4. Succeeded /\ ~Failed
      BY <2>2, <2>3 DEF TypeOK, Succeeded, Failed
    <2>5. SignedByUs # {}
      BY <2>1, <2>3, <2>4, FS_EmptySet DEF SuccessIsComplete
    <2> QED
      BY <2>2, <2>3, <2>4, <2>5 DEF SuccessIsComplete, UnselectedUntouched, Signing
  <1> QED
    BY <1>1, ReviewInvariant, PTL DEF Spec, SignedAsAsked
=============================================================================
