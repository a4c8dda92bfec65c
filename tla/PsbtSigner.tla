----------------------------- MODULE PsbtSigner -----------------------------
(***************************************************************************)
(* psbt_sign of psbt_signer.cpp: for each selected input that the wallet   *)
(* owns, derive its child key into the scratch object 0xF0 of the secure   *)
(* element, sign with it, delete it.  A step is one call to the secure     *)
(* element.  Keys are named by the input whose path derives them, hashes   *)
(* by the input they commit to; bytes and encodings are left out.          *)
(***************************************************************************)
EXTENDS Integers, Sequences, FiniteSets

CONSTANTS
  Inputs,      \* the inputs that occur: records of type Input
  MaxInputs,   \* PSBT_MAX_INPUTS
  SeFaults,    \* the calls that may fail, or act and say they failed
  None,        \* no key, no signature
  Cosigner     \* a key of somebody else

Scripts == {"p2wpkh", "p2tr", "multisig", "other"}

(* An input as the host describes it.  `lengthByte`: the script of the        *)
(* witness UTXO is preceded by its length, as in BIP 174 and DEMO_PSBT.       *)
Input == [script : Scripts, lengthByte : BOOLEAN, owned : BOOLEAN,
          participant : BOOLEAN, signed : BOOLEAN, rbf : BOOLEAN]

ASSUME SignerAssumption ==
  /\ Inputs \subseteq Input
  /\ MaxInputs \in Nat
  /\ SeFaults \subseteq {"derive", "sign", "delete"}
  /\ None \notin Nat /\ Cosigner \notin Nat /\ None # Cosigner
  /\ None \notin [key : Nat \cup {Cosigner}, input : Nat]   \* nor is it a signature

VARIABLES
  inputs,    \* psbt_t.inputs: as parsed, never assigned by the signer
  sigs,      \* their signature slots: partial_sig and tap_key_sig
  selected,  \* txInputSelected: the inputs that are selected
  scratch,   \* the key in object 0xF0
  call       \* the call of psbt_sign: step, loop index, locals, result

signerVars == <<inputs, sigs, selected, scratch, call>>

PSBT_SIGN_ERR_SE == -1
PSBT_SIGN_ERR_PARAM == -2
PSBT_SIGN_ERR_NO_PARTICIPANT == -5

Indices == 1..Len(inputs)
input_is_owned(in) == in.owned
is_multisig_input(in) == in.script = "multisig"
is_p2wpkh(in) == in.script = "p2wpkh" /\ ~in.lengthByte
is_p2tr(in) == in.script = "p2tr" /\ ~in.lengthByte

NoSigs == [partial |-> None, tap |-> None]
(* A signature is the key that made it and the input it commits to.           *)
Signature(key, i) == [key |-> key, input |-> i]
HostSigs(ins) == [i \in 1..Len(ins) |->
  IF ~ins[i].signed THEN NoSigs
  ELSE IF ins[i].script = "p2tr" THEN [NoSigs EXCEPT !.tap = Signature(Cosigner, i)]
  ELSE [NoSigs EXCEPT !.partial = Signature(Cosigner, i)]]

NoCall == [step |-> "idle", i |-> 1, anyOwned |-> FALSE, count |-> 0, outcome |-> 0]
Called == [NoCall EXCEPT !.step = "input"]

(* What a call to the secure element does: act and say so, nothing, or act    *)
(* and have its answer lost.                                                  *)
SeResults(request) == IF request \in SeFaults THEN {"ok", "failed", "lost"} ELSE {"ok"}

CurrentInput == inputs[call.i]
Return(result) == call' = [call EXCEPT !.step = "done", !.outcome = result]
NextInput == [call EXCEPT !.step = "input", !.i = @ + 1]

(* An error takes the signatures of all inputs with it.                       *)
(* A bug to try properties on: Taproot signatures are forgotten.              *)
ClearPartial == sigs' = [i \in Indices |-> [sigs[i] EXCEPT !.partial = None]]
ClearSignatures == sigs' = [i \in Indices |-> NoSigs]
ReturnError(result) == ClearSignatures /\ Return(result)

(* ---------------------------------------------------------------- the loop *)
SkipInput ==
  /\ call.step = "input" /\ call.i \in Indices
  /\ call.i \notin selected \/ ~input_is_owned(CurrentInput)
  /\ call' = NextInput
  /\ UNCHANGED <<inputs, sigs, selected, scratch>>

(* Two bugs to try properties on: an error is not looked at, nor the selection. *)
DeriveUnchecked ==
  /\ call.step = "input" /\ call.i \in Indices
  /\ call.i \in selected /\ input_is_owned(CurrentInput)
  /\ \E r \in SeResults("derive") : scratch' = IF r = "failed" THEN scratch ELSE call.i
  /\ call' = [call EXCEPT !.step = "sign", !.anyOwned = TRUE]
  /\ UNCHANGED <<inputs, sigs, selected>>
DeriveUnselected ==
  /\ call.step = "input" /\ call.i \in Indices /\ input_is_owned(CurrentInput)
  /\ scratch' = call.i
  /\ call' = [call EXCEPT !.step = "sign", !.anyOwned = TRUE]
  /\ UNCHANGED <<inputs, sigs, selected>>

se051_derive_child_key ==
  /\ call.step = "input" /\ call.i \in Indices
  /\ call.i \in selected /\ input_is_owned(CurrentInput)
  /\ \E r \in SeResults("derive") :
       /\ scratch' = IF r = "failed" THEN scratch ELSE call.i
       /\ IF r = "ok"
          THEN call' = [call EXCEPT !.step = "sign", !.anyOwned = TRUE] /\ UNCHANGED sigs
          ELSE ReturnError(PSBT_SIGN_ERR_SE)
  /\ UNCHANGED <<inputs, selected>>

ToDelete(outcome) == call' = [call EXCEPT !.step = "delete", !.outcome = outcome]

(* The signature goes into the one slot that its kind of input has.           *)
Signed(in) ==
  LET slot == IF is_multisig_input(in) \/ is_p2wpkh(in) THEN "partial" ELSE "tap"
  IN  sigs' = [sigs EXCEPT ![call.i][slot] = Signature(scratch, call.i)]

CanSign(in) ==
  IF is_multisig_input(in) THEN in.participant ELSE is_p2wpkh(in) \/ is_p2tr(in)

(* A bug to try properties on: somebody else's multisig leaves the key behind. *)
SignInputEarlyReturn ==
  /\ call.step = "sign"
  /\ IF is_multisig_input(CurrentInput) /\ ~CurrentInput.participant
     THEN call' = NextInput /\ UNCHANGED sigs
     ELSE IF CanSign(CurrentInput) THEN Signed(CurrentInput) /\ ToDelete(1)
     ELSE ToDelete(PSBT_SIGN_ERR_PARAM) /\ UNCHANGED sigs
  /\ UNCHANGED <<inputs, selected, scratch>>

SignInput ==
  /\ call.step = "sign"
  /\ \/ CanSign(CurrentInput) /\ Signed(CurrentInput) /\ ToDelete(1)
     \/ /\ is_multisig_input(CurrentInput) /\ ~CurrentInput.participant
        /\ ToDelete(0) /\ UNCHANGED sigs
     \/ /\ ~CanSign(CurrentInput) /\ ~is_multisig_input(CurrentInput)
        /\ ToDelete(PSBT_SIGN_ERR_PARAM) /\ UNCHANGED sigs
     \/ /\ "sign" \in SeFaults /\ (CanSign(CurrentInput) \/ is_multisig_input(CurrentInput))
        /\ ToDelete(PSBT_SIGN_ERR_SE) /\ UNCHANGED sigs
  /\ UNCHANGED <<inputs, selected, scratch>>

(* The result of se051_delete_key is not looked at.                           *)
DeleteKey ==
  /\ call.step = "delete"
  /\ \E r \in SeResults("delete") : scratch' = IF r = "failed" THEN scratch ELSE None
  /\ IF call.outcome < 0
     THEN ReturnError(call.outcome)
     ELSE call' = [NextInput EXCEPT !.count = @ + call.outcome] /\ UNCHANGED sigs
  /\ UNCHANGED <<inputs, selected>>

(* A bug to try properties on: the loop stops before the last input.          *)
EndOfLoopEarly ==
  /\ call.step = "input" /\ call.i >= Len(inputs)
  /\ Return(IF call.count = 0 /\ call.anyOwned THEN PSBT_SIGN_ERR_NO_PARTICIPANT
            ELSE call.count)
  /\ UNCHANGED <<inputs, sigs, selected, scratch>>

EndOfLoop ==
  /\ call.step = "input" /\ call.i \notin Indices
  /\ Return(IF call.count = 0 /\ call.anyOwned THEN PSBT_SIGN_ERR_NO_PARTICIPANT
            ELSE call.count)
  /\ UNCHANGED <<inputs, sigs, selected, scratch>>

psbt_sign ==
  SkipInput \/ se051_derive_child_key \/ SignInput \/ DeleteKey \/ EndOfLoop

(* ------------------------------------------------- a call of it on its own *)
(* Any inputs, any selection: psbt_sign takes NULL, or an array of the caller. *)
SignerInit ==
  /\ inputs \in UNION {[1..n -> Inputs] : n \in 0..MaxInputs}
  /\ selected \in SUBSET Indices
  /\ sigs = HostSigs(inputs)
  /\ scratch \in {None, MaxInputs + 1}    \* also a key that an earlier call left
  /\ call = Called

SignerSpec == SignerInit /\ [][psbt_sign]_signerVars

(* -------------------------------------------------------------- properties *)
TypeOK ==
  /\ inputs \in Seq(Inputs) /\ Len(inputs) <= MaxInputs
  /\ \A i \in Indices, slot \in {"partial", "tap"} :
       sigs[i][slot] \in {None} \cup [key : Nat \cup {Cosigner, None}, input : Indices]
  /\ selected \subseteq Indices
  /\ scratch \in Nat \cup {None}
  /\ call.step \in {"idle", "input", "sign", "delete", "done"}
  /\ call.i \in 1..Len(inputs) + 1 /\ call.count \in 0..MaxInputs
  /\ call.outcome \in -5..MaxInputs

IsOurs(i, slot) == sigs[i][slot] # None /\ sigs[i][slot].key # Cosigner
SignedByUs == {i \in Indices : \E slot \in {"partial", "tap"} : IsOurs(i, slot)}
Succeeded == call.step = "done" /\ call.outcome >= 0
Failed == call.step = "done" /\ call.outcome < 0

(* Every signature that the device makes over an input is made with the key   *)
(* of that input's own path, whatever key an earlier input, an earlier call   *)
(* or a reset left in the scratch object.                                     *)
KeyFitsInput ==
  \A i \in Indices, slot \in {"partial", "tap"} :
    IsOurs(i, slot) => sigs[i][slot] = Signature(i, i)

(* A call that fails hands back no signature of the device, not even of the   *)
(* inputs it had signed before the error (prd.json US-012: no partial PSBT).  *)
FailureReturnsNothing == Failed => SignedByUs = {}

(* A call that succeeds has signed every selected input of the wallet, except *)
(* multisig inputs of others, and its result is the number of them.           *)
SuccessIsComplete ==
  Succeeded =>
    /\ SignedByUs = {i \in selected : input_is_owned(inputs[i]) /\ CanSign(inputs[i])}
    /\ \A i \in selected \ SignedByUs : ~input_is_owned(inputs[i]) \/ is_multisig_input(inputs[i])
    /\ call.outcome = Cardinality(SignedByUs)

(* What the user took out of the transaction comes back as it came, unless    *)
(* the call fails (prd.json US-019: unselected inputs are left unsigned).     *)
UnselectedUntouched ==
  call.step # "idle" /\ ~Failed => \A i \in Indices \ selected : sigs[i] = HostSigs(inputs)[i]

(* No child private key stays in the secure element after a call that derived *)
(* one, on whatever path it left the bracket, a failed signature among them;  *)
(* checked where deriving and deleting work, for the result of                *)
(* se051_delete_key is not looked at.                                         *)
ScratchKeyDeleted == call.step = "done" /\ call.anyOwned => scratch = None

(* A P2WPKH or P2TR input of the wallet that the user selected is signed when *)
(* the secure element works (prd.json US-012).                                *)
OwnSegwitSigned ==
  call.step = "done" =>
    \A i \in selected :
      input_is_owned(inputs[i]) /\ inputs[i].script \in {"p2wpkh", "p2tr"} => i \in SignedByUs
=============================================================================
