------------------------------ MODULE TxReview ------------------------------
(***************************************************************************)
(* From a PSBT to a reply: the review screens of wallet1.ino, the signer   *)
(* and the line to the host.  An action is what one pass of loop() does    *)
(* with a pressed button, or with a line of the host; the other screens of *)
(* the open wallet are one, MAIN_MENU.                                     *)
(***************************************************************************)
EXTENDS PsbtSigner

CONSTANTS
  HostTxs,    \* the transactions a host sends: records of type Tx
  Demo,       \* DEMO_PSBT
  PowerFails, \* TRUE: power may be lost at any time
  HeapFails   \* TRUE: malloc may fail in serial_send_signed

(* A transaction as parsed.  `outputs`: for each, whether it is change;       *)
(* `readable`: psbt_parse accepts it.                                         *)
Tx == [inputs : Seq(Inputs), outputs : Seq(BOOLEAN),
       locktime : BOOLEAN, readable : BOOLEAN]

ASSUME ReviewAssumption ==
  /\ Demo \in Tx /\ Demo.readable /\ Demo \notin HostTxs
  /\ Len(Demo.inputs) = 1 /\ Demo.outputs # <<>>
  /\ HostTxs \subseteq Tx /\ None \notin HostTxs
  /\ \A t \in HostTxs \cup {Demo} : Len(t.inputs) <= MaxInputs
  /\ PowerFails \in BOOLEAN /\ HeapFails \in BOOLEAN

VARIABLES
  currentState,
  tx,                    \* txReviewPsbt: the transaction under review
  psbtFromUsb,           \* its reply goes to the host
  coinControlScrollIdx,
  txMetaPage,
  txReviewOutputIdx,     \* from 0, into the outputs that are not change
  line,                  \* a PSBT line of the host that is not read yet
  reply,                 \* the last reply to a PSBT, and a bit that flips
  ready,                 \* READY was the last word to the host
  shown,                 \* history: outputs of tx that were on the screen
  confirmed              \* history: screens confirmed for tx, with what was selected

uiVars == <<currentState, psbtFromUsb, coinControlScrollIdx, txMetaPage, txReviewOutputIdx>>
hostVars == <<line, reply, ready>>
history == <<shown, confirmed>>
vars == <<signerVars, tx, uiVars, hostVars, history>>

(* ------------------------------------------------------------------- helpers *)
Go(screen) == currentState' = screen
Reply(kind) ==
  reply' = [kind |-> kind, bit |-> 1 - reply.bit] /\ ready' = FALSE /\ UNCHANGED line

Owned(ins) == {i \in 1..Len(ins) : input_is_owned(ins[i])}
is_output_change(output) == output
NonChange(t) == {i \in 1..Len(t.outputs) : ~is_output_change(t.outputs[i])}
tx_detect_rbf(ins) == \E i \in 1..Len(ins) : ins[i].rbf
MaxPage == 1 + (IF tx.locktime THEN 1 ELSE 0) + Len(inputs)

(* The member of a set of indices that is in place k of its array, from 0.    *)
Nth(S, k) == CHOOSE i \in S : Cardinality({j \in S : j < i}) = k

(* A bug to try properties on: rows are taken for inputs.                     *)
RowIsInput(k) == k + 1
(* The owned input that row k of the coin control list stands for.            *)
RowInput(k) == Nth(Owned(inputs), k)

(* The buffers of a device that has just booted.                              *)
Blank == [inputs |-> <<>>, outputs |-> <<>>, locktime |-> FALSE, readable |-> FALSE]

(* A bug to try properties on: the page of the last review is kept.           *)
LoadTxKeepPage(t) ==
  /\ tx' = t /\ inputs' = t.inputs /\ sigs' = HostSigs(t.inputs)
  /\ selected' = IF t.readable THEN Owned(t.inputs) ELSE {}
  /\ txMetaPage' = txMetaPage /\ txReviewOutputIdx' = 0 /\ coinControlScrollIdx' = 0
  /\ shown' = {} /\ confirmed' = {}

(* initTransactionReviewFromBuffer                                            *)
LoadTx(t) ==
  /\ tx' = t /\ inputs' = t.inputs /\ sigs' = HostSigs(t.inputs)
  /\ selected' = IF t.readable THEN Owned(t.inputs) ELSE {}
  /\ txMetaPage' = 0 /\ txReviewOutputIdx' = 0 /\ coinControlScrollIdx' = 0
  /\ shown' = {} /\ confirmed' = {}

StartReview(t) ==
  Go(IF ~t.readable THEN "MAIN_MENU"
     ELSE IF Cardinality(Owned(t.inputs)) > 1 THEN "COIN_CONTROL" ELSE "TX_FEE_REVIEW")

Confirm == confirmed' = confirmed \cup {<<currentState, selected>>}
(* txNonChangeIndices[k]                                                      *)
Show(k) == shown' = shown \cup {Nth(NonChange(tx), k)}

(* Leave the review: the host is told, if it asked.                           *)
RejectTx ==
  /\ Go("MAIN_MENU") /\ psbtFromUsb' = FALSE
  /\ IF psbtFromUsb THEN Reply("REJECTED") ELSE UNCHANGED hostVars

(* --------------------------------------------------------------------- host *)
(* A PSBT follows a READY.                                                    *)
HostSends ==
  /\ ready /\ line = None
  /\ line' \in HostTxs
  /\ UNCHANGED <<signerVars, tx, uiVars, reply, ready, history>>

(* GET_INFO is answered on every screen.                                      *)
HostAsksInfo ==
  /\ call.step = "idle" /\ ready' = TRUE
  /\ UNCHANGED <<signerVars, tx, uiVars, line, reply, history>>

(* loop() on a PSBT line: WAIT_PSBT takes it up; every other screen drops it. *)
PollTakesUp ==
  /\ call.step = "idle" /\ line # None /\ currentState = "WAIT_PSBT"
  /\ psbtFromUsb' = TRUE
  /\ LoadTx(line) /\ StartReview(line)
  /\ line' = None /\ ready' = FALSE
  /\ reply' = IF line.readable THEN reply ELSE [kind |-> "ERROR", bit |-> 1 - reply.bit]
  /\ UNCHANGED <<scratch, call>>

PollDrops ==
  /\ call.step = "idle" /\ line # None /\ currentState # "WAIT_PSBT"
  /\ line' = None
  /\ UNCHANGED <<signerVars, tx, uiVars, reply, ready, history>>

(* --------------------------------------------------------------------- user *)
DemoReview ==
  /\ currentState = "MAIN_MENU"
  /\ psbtFromUsb' = FALSE
  /\ LoadTx(Demo) /\ StartReview(Demo)
  /\ UNCHANGED <<scratch, call, hostVars>>

ChooseSignTx ==
  /\ currentState = "MAIN_MENU" /\ Go("SIGN_TX")
  /\ UNCHANGED <<signerVars, tx, psbtFromUsb, coinControlScrollIdx, txMetaPage,
                 txReviewOutputIdx, hostVars, history>>

SignTx ==
  /\ currentState = "SIGN_TX"
  /\ \/ Go("MAIN_MENU") /\ UNCHANGED <<psbtFromUsb, ready>>
     \/ Go("WAIT_PSBT") /\ psbtFromUsb' = FALSE /\ ready' = TRUE
  /\ UNCHANGED <<signerVars, tx, coinControlScrollIdx, txMetaPage, txReviewOutputIdx,
                 line, reply, history>>

WaitPsbtCancel ==
  /\ currentState = "WAIT_PSBT" /\ RejectTx
  /\ UNCHANGED <<signerVars, tx, coinControlScrollIdx, txMetaPage, txReviewOutputIdx, history>>

CoinControlScroll ==
  /\ currentState = "COIN_CONTROL"
  /\ coinControlScrollIdx' = (coinControlScrollIdx + 1) % (Cardinality(Owned(inputs)) + 1)
  /\ UNCHANGED <<signerVars, tx, currentState, psbtFromUsb, txMetaPage, txReviewOutputIdx,
                 hostVars, history>>

CoinControlToggle ==
  /\ currentState = "COIN_CONTROL" /\ coinControlScrollIdx < Cardinality(Owned(inputs))
  /\ LET i == RowInput(coinControlScrollIdx)
     IN  selected' = IF i \in selected THEN selected \ {i} ELSE selected \cup {i}
  /\ UNCHANGED <<inputs, sigs, scratch, call, tx, uiVars, hostVars, history>>

CoinControlProceed ==
  /\ currentState = "COIN_CONTROL" /\ coinControlScrollIdx = Cardinality(Owned(inputs))
  /\ selected # {}
  /\ Go("TX_FEE_REVIEW") /\ txMetaPage' = 0 /\ Confirm
  /\ UNCHANGED <<signerVars, tx, psbtFromUsb, coinControlScrollIdx, txReviewOutputIdx,
                 hostVars, shown>>

(* CANCEL turns the detail pages; past the last one it rejects.               *)
FeeReviewCancel ==
  /\ currentState = "TX_FEE_REVIEW"
  /\ txMetaPage' = txMetaPage + 1
  /\ IF txMetaPage' >= MaxPage THEN RejectTx ELSE UNCHANGED <<currentState, psbtFromUsb, hostVars>>
  /\ UNCHANGED <<signerVars, tx, coinControlScrollIdx, txReviewOutputIdx, history>>

(* A bug to try properties on: the RBF screen is left out.                    *)
FeeReviewConfirmNoRbf ==
  /\ currentState = "TX_FEE_REVIEW" /\ NonChange(tx) # {}
  /\ txReviewOutputIdx' = 0 /\ Confirm
  /\ Go("TX_OUTPUT_REVIEW") /\ Show(0)
  /\ UNCHANGED <<signerVars, tx, psbtFromUsb, coinControlScrollIdx, txMetaPage, hostVars>>

FeeReviewConfirm ==
  /\ currentState = "TX_FEE_REVIEW" /\ NonChange(tx) # {}
  /\ txReviewOutputIdx' = 0 /\ Confirm
  /\ IF tx_detect_rbf(inputs)
     THEN Go("TX_RBF_CONFIRM") /\ UNCHANGED shown
     ELSE Go("TX_OUTPUT_REVIEW") /\ Show(0)
  /\ UNCHANGED <<signerVars, tx, psbtFromUsb, coinControlScrollIdx, txMetaPage, hostVars>>

(* Nothing leaves the wallet: the code loads the demo transaction instead.    *)
FeeReviewConfirmAllChange ==
  /\ currentState = "TX_FEE_REVIEW" /\ NonChange(tx) = {}
  /\ LoadTx(Demo)
  /\ UNCHANGED <<scratch, call, currentState, psbtFromUsb, hostVars>>

RbfConfirm ==
  /\ currentState = "TX_RBF_CONFIRM"
  /\ \/ RejectTx /\ UNCHANGED <<shown, confirmed>>
     \/ /\ Go("TX_OUTPUT_REVIEW") /\ Show(txReviewOutputIdx) /\ Confirm
        /\ UNCHANGED <<psbtFromUsb, hostVars>>
  /\ UNCHANGED <<signerVars, tx, coinControlScrollIdx, txMetaPage, txReviewOutputIdx>>

OutputReviewCancel ==
  /\ currentState = "TX_OUTPUT_REVIEW" /\ call.step = "idle"
  /\ txReviewOutputIdx' = txReviewOutputIdx + 1
  /\ IF txReviewOutputIdx' >= Cardinality(NonChange(tx))
     THEN RejectTx /\ UNCHANGED shown
     ELSE Show(txReviewOutputIdx') /\ UNCHANGED <<currentState, psbtFromUsb, hostVars>>
  /\ UNCHANGED <<signerVars, tx, coinControlScrollIdx, txMetaPage, confirmed>>

(* executeSigningSequence: the loop is busy until psbt_sign returns.          *)
OutputReviewConfirm ==
  /\ currentState = "TX_OUTPUT_REVIEW" /\ call.step = "idle"
  /\ call' = Called /\ Confirm
  /\ UNCHANGED <<inputs, sigs, selected, scratch, tx, uiVars, hostVars, shown>>

Sign ==
  /\ psbt_sign
  /\ UNCHANGED <<tx, uiVars, hostVars, history>>

(* The screen that psbt_sign's result leads to replies when it is drawn.      *)
SignReturns ==
  /\ currentState = "TX_OUTPUT_REVIEW" /\ call.step = "done"
  /\ Go(IF call.outcome < 0 THEN "TX_SIGN_ERROR" ELSE "TX_SUCCESS")
  /\ UNCHANGED <<signerVars, tx, psbtFromUsb, coinControlScrollIdx, txMetaPage,
                 txReviewOutputIdx, hostVars, history>>

(* A bug to try properties on: what nobody signed is called signed.           *)
TxSuccessAlways ==
  /\ currentState = "TX_SUCCESS"
  /\ Go("MAIN_MENU") /\ psbtFromUsb' = FALSE /\ call' = NoCall
  /\ IF ~psbtFromUsb THEN UNCHANGED hostVars ELSE Reply("SIGNED")
  /\ UNCHANGED <<inputs, sigs, selected, scratch, tx, coinControlScrollIdx, txMetaPage,
                 txReviewOutputIdx, history>>

(* SIGNED carries the transaction under review with the slots as they are.    *)
TxSuccess ==
  /\ currentState = "TX_SUCCESS"
  /\ Go("MAIN_MENU") /\ psbtFromUsb' = FALSE /\ call' = NoCall
  /\ IF ~psbtFromUsb THEN UNCHANGED hostVars
     ELSE IF call.outcome = 0 THEN Reply("ERROR")
     ELSE Reply("SIGNED") \/ (HeapFails /\ UNCHANGED hostVars)
  /\ UNCHANGED <<inputs, sigs, selected, scratch, tx, coinControlScrollIdx, txMetaPage,
                 txReviewOutputIdx, history>>

(* A bug to try properties on: a signer that has nothing to sign says nothing. *)
TxSignErrorSilent ==
  /\ currentState = "TX_SIGN_ERROR"
  /\ Go("MAIN_MENU") /\ psbtFromUsb' = FALSE /\ call' = NoCall
  /\ IF psbtFromUsb /\ call.outcome # PSBT_SIGN_ERR_NO_PARTICIPANT
     THEN Reply("ERROR") ELSE UNCHANGED hostVars
  /\ UNCHANGED <<inputs, sigs, selected, scratch, tx, coinControlScrollIdx, txMetaPage,
                 txReviewOutputIdx, history>>

TxSignError ==
  /\ currentState = "TX_SIGN_ERROR"
  /\ Go("MAIN_MENU") /\ psbtFromUsb' = FALSE /\ call' = NoCall
  /\ IF psbtFromUsb THEN Reply("ERROR") ELSE UNCHANGED hostVars
  /\ UNCHANGED <<inputs, sigs, selected, scratch, tx, coinControlScrollIdx, txMetaPage,
                 txReviewOutputIdx, history>>

(* A reset loses everything but the scratch object; the boot and the PIN are  *)
(* module Wallet's.                                                           *)
Reset ==
  /\ PowerFails
  /\ LoadTx(Blank) /\ Go("MAIN_MENU") /\ psbtFromUsb' = FALSE /\ call' = NoCall
  /\ line' = None /\ ready' = FALSE
  /\ UNCHANGED <<scratch, reply>>

-----------------------------------------------------------------------------
Init ==
  /\ currentState = "MAIN_MENU" /\ psbtFromUsb = FALSE
  /\ tx = Blank /\ inputs = <<>> /\ sigs = HostSigs(<<>>) /\ selected = {}
  /\ scratch = None /\ call = NoCall
  /\ coinControlScrollIdx = 0 /\ txMetaPage = 0 /\ txReviewOutputIdx = 0
  /\ line = None /\ reply = [kind |-> "none", bit |-> 0] /\ ready = FALSE
  /\ shown = {} /\ confirmed = {}

Host == HostSends \/ HostAsksInfo
Poll == PollTakesUp \/ PollDrops
User ==
  \/ DemoReview \/ ChooseSignTx \/ SignTx \/ WaitPsbtCancel
  \/ CoinControlScroll \/ CoinControlToggle \/ CoinControlProceed
  \/ FeeReviewCancel \/ FeeReviewConfirm \/ FeeReviewConfirmAllChange
  \/ RbfConfirm \/ OutputReviewCancel \/ OutputReviewConfirm
Device == Sign \/ SignReturns \/ TxSuccess \/ TxSignError

Next == Host \/ Poll \/ User \/ Device \/ Reset

Spec == Init /\ [][Next]_vars
(* Once signing has begun the processor goes on to the reply by itself.       *)
FairSpec == Spec /\ WF_vars(Device)
=============================================================================
