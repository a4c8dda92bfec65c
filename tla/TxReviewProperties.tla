------------------------- MODULE TxReviewProperties -------------------------
(* What the review of a transaction promises to the user and to the host.     *)
EXTENDS TxReview

ReviewScreens == {"COIN_CONTROL", "TX_FEE_REVIEW", "TX_RBF_CONFIRM", "TX_OUTPUT_REVIEW",
                  "TX_SUCCESS", "TX_SIGN_ERROR"}
BeforeSigning == {"COIN_CONTROL", "TX_FEE_REVIEW", "TX_RBF_CONFIRM", "TX_OUTPUT_REVIEW"}
Signing == call.step # "idle"

(* The detail page shown is the locktime or an input that exists, and the     *)
(* output shown is one of those that are not change: neither index leaves its *)
(* array, also after the transaction under review has been replaced.          *)
ReviewIndexInBounds ==
  /\ currentState = "TX_FEE_REVIEW" => txMetaPage < MaxPage
  /\ currentState \in {"TX_RBF_CONFIRM", "TX_OUTPUT_REVIEW"} =>
       txReviewOutputIdx < Cardinality(NonChange(tx))
  /\ currentState = "COIN_CONTROL" => coinControlScrollIdx <= Cardinality(Owned(inputs))

(* The state has its type, the call of psbt_sign included, and no index of a *)
(* screen leaves its array.                                                   *)
ReviewTypeOK ==
  /\ TypeOK
  /\ currentState \in ReviewScreens \cup {"MAIN_MENU", "SIGN_TX", "WAIT_PSBT"}
  /\ tx \in HostTxs \cup {Demo, Blank} /\ inputs = tx.inputs
  /\ psbtFromUsb \in BOOLEAN /\ ready \in BOOLEAN
  /\ {coinControlScrollIdx, txMetaPage, txReviewOutputIdx} \subseteq Nat
  /\ line \in HostTxs \cup {None}
  /\ reply \in [kind : {"none", "SIGNED", "REJECTED", "ERROR"}, bit : {0, 1}]
  /\ ReviewIndexInBounds
  /\ shown \subseteq 1..Len(tx.outputs) /\ confirmed \subseteq BeforeSigning \X SUBSET Indices

(* The signer is called with inputs of the wallet only, and with at least one *)
(* unless the wallet owns none (prd.json US-019).                             *)
SelectionIsOwned ==
  /\ currentState \in ReviewScreens => selected \subseteq Owned(inputs)
  /\ Signing => selected # {} \/ Owned(inputs) = {}

(* The screens that the transaction under review must be confirmed on: coin   *)
(* control if there is a choice, the replaceability if it is replaceable.     *)
Required ==
  {s \in BeforeSigning : /\ s = "COIN_CONTROL" => Cardinality(Owned(inputs)) > 1
                         /\ s = "TX_RBF_CONFIRM" => tx_detect_rbf(inputs)}
ConfirmedOn(screens) == confirmed = {<<s, selected>> : s \in screens}

(* When psbt_sign runs, exactly the screens this very transaction needs have  *)
(* been confirmed, each with the selection that is signed now, and the output *)
(* on the display at the last CONFIRM was drawn.  The other outputs may not   *)
(* have been on the screen: the code asks for CONFIRM on one of them only.    *)
ConfirmedBeforeSigning ==
  Signing => ConfirmedOn(Required) /\ Nth(NonChange(tx), txReviewOutputIdx) \in shown

Asked == psbtFromUsb /\ currentState \in ReviewScreens

(* SIGNED is said only to a host that asked, of a transaction confirmed on    *)
(* all its screens, and what goes with it has at least one signature of the   *)
(* device: on the selected inputs of the wallet that can be signed and on no  *)
(* other, each with the key of its input, the unselected inputs as the host   *)
(* sent them; whatever failed or was reset before.                            *)
SignedAsAsked ==
  [][reply' # reply /\ reply'.kind = "SIGNED" =>
       /\ Asked /\ ConfirmedOn(Required)
       /\ SignedByUs # {}
       /\ SignedByUs = {i \in selected : input_is_owned(inputs[i]) /\ CanSign(inputs[i])}
       /\ KeyFitsInput
       /\ \A i \in Indices \ selected : sigs[i] = HostSigs(inputs)[i]]_vars

Request == INSTANCE SignRequest WITH
  Psbts <- HostTxs,
  Readable <- {t \in HostTxs : t.readable},
  Substitutes <- {<<t, Demo>> : t \in {t \in HostTxs : NonChange(t) = {}}},
  sent <- line,
  request <- [phase |-> IF ~Asked THEN "none" ELSE IF Signing THEN "approved" ELSE "taken",
              tx |-> IF Asked THEN tx ELSE None]

(* The review keeps the promise of SignRequest to the host: one reply for     *)
(* each PSBT it took up, SIGNED or ERROR when the user approved, REJECTED     *)
(* when not.  The transaction that is approved and answered is the one that   *)
(* the host sent, with an exception that is the code's and that no document   *)
(* has (wallet1.ino:1495; prd.json:292 is about "the signed PSBT"): when      *)
(* nothing of it leaves the wallet, the demo transaction takes its place, and *)
(* the host gets the result of the demo.  No other review of the demo answers *)
(* the host, also not after an unreadable PSBT, which leaves psbtFromUsb set. *)
ServesRequests == Request!Spec
=============================================================================
