-------------------------- MODULE PsbtSignerProofs --------------------------
(***************************************************************************)
(* psbt_sign for any inputs, any selection and any failures of the secure  *)
(* element: what the loop has signed when it comes to an input is known    *)
(* exactly (Progress), and everything it promises at its end follows.      *)
(***************************************************************************)
EXTENDS PsbtSigner, FiniteSetTheorems, TLAPS

(* What a slot of input i may hold: nothing, what the host sent, or the       *)
(* device's signature with the key of that input.                             *)
SlotValues(i) == {None, Signature(Cosigner, i), Signature(i, i)}

AnyValue == {None} \cup [key : Nat \cup {Cosigner}, input : Indices]

(* The inputs up to n that the loop has signed once it is past n.             *)
Due(n) == {j \in selected : j <= n /\ input_is_owned(inputs[j]) /\ CanSign(inputs[j])}

(* No input up to n stopped the loop.                                         *)
NoneUnsignable(n) ==
  \A j \in selected : j <= n =>
    ~input_is_owned(inputs[j]) \/ CanSign(inputs[j]) \/ is_multisig_input(inputs[j])

InputsInv ==
  /\ inputs \in Seq(Inputs) /\ Len(inputs) <= MaxInputs
  /\ selected \subseteq Indices

SlotsInv ==
  /\ sigs \in [Indices -> [partial : AnyValue, tap : AnyValue]]
  /\ \A i \in Indices : sigs[i].partial \in SlotValues(i) /\ sigs[i].tap \in SlotValues(i)

CallType ==
  [step : {"idle", "input", "sign", "delete", "done"}, i : Nat, anyOwned : BOOLEAN,
   count : Nat, outcome : Int]

CallInv ==
  /\ call \in CallType
  /\ call.i \in 1..Len(inputs) + 1 /\ call.count < call.i
  /\ call.outcome \in -5..MaxInputs
  /\ call.step \in {"sign", "delete"} =>
       call.i \in selected /\ input_is_owned(inputs[call.i])
  /\ call.step = "sign" => scratch = call.i
  /\ call.step = "delete" => call.outcome \in {-2, -1, 0, 1}
  /\ scratch \in Nat \cup {None}

Progress ==
  /\ call.step \in {"input", "sign"} =>
       /\ SignedByUs = Due(call.i - 1)
       /\ call.count = Cardinality(Due(call.i - 1))
       /\ NoneUnsignable(call.i - 1)
  /\ call.step = "delete" /\ call.outcome >= 0 =>
       /\ SignedByUs = Due(call.i)
       /\ call.count + call.outcome = Cardinality(Due(call.i))
       /\ NoneUnsignable(call.i)

Promises == FailureReturnsNothing /\ SuccessIsComplete /\ UnselectedUntouched

SignerInv == InputsInv /\ SlotsInv /\ CallInv /\ Progress /\ Promises

-----------------------------------------------------------------------------
(* The inputs signed by the device, slot by slot.                             *)
OwnKeyed ==
  {i \in Indices : sigs[i].partial = Signature(i, i) \/ sigs[i].tap = Signature(i, i)}

LEMMA OursIsOwnKey == SlotsInv => KeyFitsInput /\ SignedByUs = OwnKeyed
  <1> SUFFICES ASSUME SlotsInv PROVE KeyFitsInput /\ SignedByUs = OwnKeyed
    OBVIOUS
  <1>1. \A i \in Indices : /\ IsOurs(i, "partial") <=> sigs[i].partial = Signature(i, i)
                           /\ IsOurs(i, "tap") <=> sigs[i].tap = Signature(i, i)
    <2> TAKE i \in Indices
    <2>1. Signature(i, i) # None /\ Signature(i, i).key # Cosigner
      BY SignerAssumption DEF Signature, Indices
    <2>2. Signature(Cosigner, i).key = Cosigner
      BY DEF Signature
    <2>3. sigs[i].partial \in SlotValues(i) /\ sigs[i].tap \in SlotValues(i)
      BY DEF SlotsInv
    <2> QED
      BY <2>1, <2>2, <2>3 DEF IsOurs, SlotValues
  <1> QED
    BY <1>1 DEF KeyFitsInput, SignedByUs, OwnKeyed

(* The due inputs are finitely many and one pass of the loop adds at most one. *)
LEMMA DueStep ==
  ASSUME InputsInv, NEW n \in Nat, n + 1 \in Indices
  PROVE  /\ IsFiniteSet(Due(n)) /\ Cardinality(Due(n)) \in Nat
         /\ n + 1 \in selected /\ input_is_owned(inputs[n + 1]) /\ CanSign(inputs[n + 1]) =>
              /\ Due(n + 1) = Due(n) \cup {n + 1}
              /\ Cardinality(Due(n + 1)) = Cardinality(Due(n)) + 1
         /\ ~(n + 1 \in selected /\ input_is_owned(inputs[n + 1]) /\ CanSign(inputs[n + 1])) =>
              Due(n + 1) = Due(n)
  <1>1. selected \subseteq Nat /\ Len(inputs) \in Nat
    BY DEF InputsInv, Indices
  <1>2. IsFiniteSet(1..Len(inputs))
    BY <1>1, FS_Interval
  <1>3. Due(n) \in SUBSET (1..Len(inputs))
    BY DEF Due, InputsInv, Indices
  <1>4. IsFiniteSet(Due(n)) /\ Cardinality(Due(n)) \in Nat
    BY <1>2, <1>3, FS_Subset, FS_CardinalityType
  <1>5. n + 1 \notin Due(n)
    BY DEF Due
  <1>6. \A j \in selected : j <= n + 1 <=> j <= n \/ j = n + 1
    BY <1>1
  <1>7. Due(n + 1) = Due(n) \cup {j \in selected : j = n + 1 /\ input_is_owned(inputs[j]) /\ CanSign(inputs[j])}
    BY <1>6, Zenon DEF Due
  <1>8. Cardinality(Due(n) \cup {n + 1}) = Cardinality(Due(n)) + 1
    BY <1>4, <1>5, FS_AddElement
  <1> QED
    BY <1>4, <1>7, <1>8, Zenon

(* Signing writes one slot of the current input and nothing else.             *)
LEMMA SignedEffect ==
  ASSUME InputsInv, SlotsInv, call.i \in Indices, scratch = call.i,
         inputs' = inputs, Signed(CurrentInput)
  PROVE  /\ SlotsInv'
         /\ SignedByUs' = SignedByUs \cup {call.i}
         /\ \A j \in Indices \ {call.i} : sigs'[j] = sigs[j]
  <1> DEFINE k == call.i
             own == Signature(k, k)
  <1>1. Indices' = Indices /\ k \in Nat /\ Len(inputs) \in Nat
    BY DEF Indices, InputsInv
  <1>2. own \in AnyValue
    BY <1>1 DEF Signature, AnyValue
  <1>3. \/ sigs' = [sigs EXCEPT ![k] = [sigs[k] EXCEPT !.partial = own]]
        \/ sigs' = [sigs EXCEPT ![k] = [sigs[k] EXCEPT !.tap = own]]
    BY DEF Signed
  <1>4. sigs[k] \in [partial : AnyValue, tap : AnyValue]
    BY DEF SlotsInv
  <1>5. \A j \in Indices \ {k} : sigs'[j] = sigs[j]
    BY <1>3 DEF SlotsInv
  <1>6. /\ sigs'[k] \in [partial : AnyValue, tap : AnyValue]
        /\ sigs'[k].partial \in {sigs[k].partial, own} /\ sigs'[k].tap \in {sigs[k].tap, own}
        /\ sigs'[k].partial = own \/ sigs'[k].tap = own
    BY <1>2, <1>3, <1>4 DEF SlotsInv
  <1>7. sigs' \in [Indices -> [partial : AnyValue, tap : AnyValue]]
    BY <1>2, <1>3, <1>4 DEF SlotsInv
  <1>8. \A j \in Indices : sigs'[j].partial \in SlotValues(j) /\ sigs'[j].tap \in SlotValues(j)
    BY <1>5, <1>6 DEF SlotsInv, SlotValues
  <1>9. SlotsInv'
    BY <1>1, <1>7, <1>8 DEF SlotsInv, AnyValue, SlotValues
  <1>10. \A j \in Indices : (j \in SignedByUs') <=> (j = k \/ j \in SignedByUs)
    <2>1. (KeyFitsInput /\ SignedByUs = OwnKeyed)'
      BY <1>9, OursIsOwnKey, PTL
    <2>2. SignedByUs = OwnKeyed
      BY OursIsOwnKey
    <2> QED
      BY <2>1, <2>2, <1>1, <1>5, <1>6 DEF OwnKeyed
  <1>11. SignedByUs \subseteq Indices /\ SignedByUs' \subseteq Indices
    BY <1>1 DEF SignedByUs
  <1> QED
    BY <1>5, <1>9, <1>10, <1>11

(* An error takes all signatures out.                                         *)
LEMMA ErrorEffect ==
  ASSUME InputsInv, inputs' = inputs, NEW result \in -5..-1, ReturnError(result),
         call \in CallType
  PROVE  /\ SlotsInv' /\ SignedByUs' = {}
         /\ call' \in CallType /\ call'.step = "done" /\ call'.outcome = result
         /\ call'.i = call.i /\ call'.count = call.count
  <1>1. Indices' = Indices
    BY DEF Indices
  <1>2. sigs' = [i \in Indices |-> [partial |-> None, tap |-> None]]
    BY DEF ReturnError, ClearSignatures, NoSigs
  <1>3. SlotsInv'
    BY <1>1, <1>2 DEF SlotsInv, AnyValue, SlotValues
  <1>4. SignedByUs' = {}
    BY <1>1, <1>2 DEF SignedByUs, IsOurs
  <1>5. call' = [call EXCEPT !.step = "done", !.outcome = result]
    BY DEF ReturnError, Return
  <1>6. call' \in CallType
    <2>1. result \in Int
      OBVIOUS
    <2> QED
      BY <1>5, <2>1 DEF CallType
  <1>7. /\ call'.step = "done" /\ call'.outcome = result
        /\ call'.i = call.i /\ call'.count = call.count
    BY <1>5 DEF CallType
  <1> QED
    BY <1>3, <1>4, <1>6, <1>7

-----------------------------------------------------------------------------
(* Inputs and signature slots as the host sent them.                          *)
LEMMA FreshSlots == InputsInv /\ sigs = HostSigs(inputs) => SlotsInv /\ SignedByUs = {}
  <1> SUFFICES ASSUME InputsInv, sigs = HostSigs(inputs) PROVE SlotsInv /\ SignedByUs = {}
    OBVIOUS
  <1>1. /\ \A i \in Indices : sigs[i] \in [partial : {None, Signature(Cosigner, i)}, tap : {None, Signature(Cosigner, i)}]
        /\ DOMAIN sigs = Indices /\ sigs = [i \in Indices |-> sigs[i]]
    BY DEF HostSigs, Indices, NoSigs
  <1>2. \A i \in Indices : Signature(Cosigner, i) \in AnyValue
    BY DEF AnyValue, Signature, Indices
  <1>3. SlotsInv
    BY <1>1, <1>2 DEF SlotsInv, SlotValues, AnyValue
  <1>4. \A i \in Indices : Signature(Cosigner, i) # Signature(i, i)
    BY SignerAssumption DEF Signature, Indices
  <1>5. \A i \in Indices : None # Signature(i, i)
    BY SignerAssumption DEF Signature, Indices
  <1> QED
    BY <1>1, <1>3, <1>4, <1>5, OursIsOwnKey DEF OwnKeyed

(* A call may start whenever the slots are fresh.                             *)
LEMMA CalledHolds ==
  /\ InputsInv /\ sigs = HostSigs(inputs) /\ scratch \in Nat \cup {None} /\ call = Called
  => SignerInv
  <1> SUFFICES ASSUME InputsInv, sigs = HostSigs(inputs), scratch \in Nat \cup {None}, call = Called
               PROVE SignerInv
    OBVIOUS
  <1>1. SlotsInv /\ SignedByUs = {}
    BY FreshSlots
  <1>2. call = [step |-> "input", i |-> 1, anyOwned |-> FALSE, count |-> 0, outcome |-> 0]
    BY DEF Called, NoCall
  <1>3. Len(inputs) \in Nat /\ MaxInputs \in Nat
    BY SignerAssumption DEF InputsInv
  <1>4. CallInv
    BY <1>2, <1>3 DEF CallInv, CallType
  <1>5. Due(0) = {} /\ NoneUnsignable(0)
    <2>1. \A j \in selected : ~(j <= 0)
      BY DEF InputsInv, Indices
    <2> QED
      BY <2>1, Zenon DEF Due, NoneUnsignable
  <1>6. Progress
    BY <1>1, <1>2, <1>5, FS_EmptySet DEF Progress
  <1>7. Promises
    BY <1>2 DEF Promises, FailureReturnsNothing, SuccessIsComplete, UnselectedUntouched,
                Failed, Succeeded
  <1> QED
    BY <1>1, <1>4, <1>6, <1>7 DEF SignerInv

LEMMA SignerInvInit == SignerInit => SignerInv
  <1> SUFFICES ASSUME SignerInit PROVE SignerInv
    OBVIOUS
  <1>1. PICK n \in 0..MaxInputs : inputs \in [1..n -> Inputs]
    BY DEF SignerInit
  <1>2. inputs \in Seq(Inputs) /\ Len(inputs) = n /\ n \in Nat
    BY <1>1, SignerAssumption
  <1>3. InputsInv
    BY <1>2, SignerAssumption DEF InputsInv, SignerInit
  <1> QED
    BY <1>3, CalledHolds, SignerAssumption DEF SignerInit

(* What no action of the loop changes: the inputs and the selection.          *)
LEMMA InputsStay ==
  ASSUME InputsInv, inputs' = inputs, selected' = selected
  PROVE  /\ InputsInv' /\ Indices' = Indices
         /\ \A n : Due(n)' = Due(n) /\ (NoneUnsignable(n)' <=> NoneUnsignable(n))
         /\ HostSigs(inputs)' = HostSigs(inputs)
  BY DEF InputsInv, Indices, Due, NoneUnsignable, HostSigs

(* Where the loop stands in a step that it has come to.                       *)
LEMMA Position ==
  ASSUME SignerInv
  PROVE  /\ call.i \in Nat /\ call.i - 1 \in Nat /\ (call.i - 1) + 1 = call.i
         /\ Len(inputs) \in Nat /\ MaxInputs \in Nat /\ selected \subseteq Indices
         /\ call.step \in {"sign", "delete"} =>
              call.i \in selected /\ call.i \in Indices /\ input_is_owned(CurrentInput)
  BY SignerAssumption DEF SignerInv, InputsInv, CallInv, Indices, CurrentInput

LEMMA SkipInputStep ==
  ASSUME SignerInv, SkipInput
  PROVE  SignerInv'
  <1> DEFINE k == call.i
  <1>1. /\ InputsInv' /\ Indices' = Indices /\ HostSigs(inputs)' = HostSigs(inputs)
        /\ \A n : Due(n)' = Due(n) /\ (NoneUnsignable(n)' <=> NoneUnsignable(n))
    BY InputsStay DEF SignerInv, SkipInput
  <1>2. k \in Nat /\ k - 1 \in Nat /\ (k - 1) + 1 = k /\ k \in Indices
    BY Position DEF SkipInput
  <1>3. sigs' = sigs /\ SlotsInv' /\ SignedByUs' = SignedByUs
    BY <1>1 DEF SkipInput, SignerInv, SlotsInv, AnyValue, SlotValues, SignedByUs, IsOurs
  <1>4. call' = [call EXCEPT !.step = "input", !.i = k + 1]
    BY DEF SkipInput, NextInput
  <1>5. call \in CallType
    BY DEF SignerInv, CallInv
  <1>6. /\ call' \in CallType /\ call'.step = "input"
        /\ call'.i = k + 1 /\ call'.i - 1 = k
        /\ call'.count = call.count /\ call'.outcome = call.outcome
    <2>1. k + 1 \in Nat /\ (k + 1) - 1 = k
      BY <1>2
    <2>2. call' \in CallType
      BY <2>1, <1>4, <1>5 DEF CallType
    <2>3. call'.step = "input" /\ call'.i = k + 1 
      BY <2>1, <1>4, <1>5 DEF CallType
    <2>4. call'.count = call.count /\ call'.outcome = call.outcome
      BY <1>4, <1>5 DEF CallType
    <2> QED
      BY <2>1, <2>2, <2>3, <2>4
  <1>12. CallInv'
    <2>1. Len(inputs) \in Nat /\ inputs' = inputs /\ scratch' = scratch
      BY Position DEF SkipInput
    <2>2. call.count \in Nat /\ call.count < k
      BY <1>5 DEF CallType, CallInv, SignerInv
    <2>3. k + 1 \in 1..Len(inputs) + 1 /\ call.count < k + 1
      BY <1>2, <2>1, <2>2 DEF Indices
    <2> QED
      BY <1>6, <2>1, <2>3 DEF CallInv, SignerInv
  <1>7. ~(k \in selected /\ input_is_owned(inputs[k]))
    BY DEF SkipInput, CurrentInput
  <1>8. Due(k) = Due(k - 1)
    BY <1>2, <1>7, DueStep, Zenon DEF SignerInv
  <1>9. NoneUnsignable(k - 1) => NoneUnsignable(k)
    <2>1. \A j \in selected : j <= k => j <= k - 1 \/ j = k
      BY <1>2, Position DEF Indices
    <2> QED
      BY <2>1, <1>7, Zenon DEF NoneUnsignable
  <1>10. Progress'
    BY <1>1, <1>3, <1>6, <1>8, <1>9 DEF Progress, SignerInv, SkipInput
  <1>11. Promises'
    BY <1>1, <1>3, <1>6 DEF Promises, FailureReturnsNothing, SuccessIsComplete,
       UnselectedUntouched, Failed, Succeeded, SignerInv, SkipInput
  <1> QED
    BY <1>1, <1>3, <1>10, <1>11, <1>12 DEF SignerInv

(* An error ends the call, from wherever it comes.                            *)
LEMMA ErrorStep ==
  ASSUME SignerInv, NEW result \in -5..-1, ReturnError(result), inputs' = inputs,
         selected' = selected, scratch' \in Nat \cup {None}
  PROVE  SignerInv'
  <1>1. InputsInv'
    BY InputsStay DEF SignerInv
  <1>2. /\ SlotsInv' /\ SignedByUs' = {}
        /\ call' \in CallType /\ call'.step = "done" /\ call'.outcome = result
        /\ call'.i = call.i /\ call'.count = call.count
    BY ErrorEffect DEF SignerInv, CallInv
  <1>3. result \in -5..MaxInputs /\ result < 0
    BY Position
  <1>4. CallInv'
    BY <1>2, <1>3 DEF CallInv, SignerInv
  <1>5. Progress'
    BY <1>2 DEF Progress
  <1>6. Promises'
    BY <1>2, <1>3 DEF Promises, FailureReturnsNothing, SuccessIsComplete, UnselectedUntouched,
                      Failed, Succeeded
  <1> QED
    BY <1>1, <1>2, <1>4, <1>5, <1>6 DEF SignerInv

LEMMA DeriveStep ==
  ASSUME SignerInv, se051_derive_child_key
  PROVE  SignerInv'
  <1> DEFINE k == call.i
  <1>1. /\ inputs' = inputs /\ selected' = selected
        /\ call.step = "input" /\ k \in Indices /\ k \in selected /\ input_is_owned(inputs[k])
    BY DEF se051_derive_child_key, CurrentInput
  <1>2. k \in Nat /\ scratch \in Nat \cup {None}
    BY Position DEF SignerInv, CallInv
  <1>3. scratch' \in {scratch, k}
    BY DEF se051_derive_child_key
  <1>4. CASE ReturnError(PSBT_SIGN_ERR_SE)
    BY <1>1, <1>2, <1>3, <1>4, ErrorStep DEF PSBT_SIGN_ERR_SE
  <1>5. CASE /\ scratch' = k /\ call' = [call EXCEPT !.step = "sign", !.anyOwned = TRUE]
             /\ UNCHANGED sigs
    <2>1. /\ InputsInv' /\ Indices' = Indices /\ HostSigs(inputs)' = HostSigs(inputs)
          /\ \A n : Due(n)' = Due(n) /\ (NoneUnsignable(n)' <=> NoneUnsignable(n))
      BY <1>1, InputsStay DEF SignerInv
    <2>2. SlotsInv' /\ SignedByUs' = SignedByUs
      BY <1>5, <2>1 DEF SignerInv, SlotsInv, AnyValue, SlotValues, SignedByUs, IsOurs
    <2>3. call \in CallType
      BY DEF SignerInv, CallInv
    <2>4. call' \in CallType
      BY <1>5, <2>3 DEF CallType
    <2>5. /\ call'.step = "sign" /\ call'.i = k
          /\ call'.count = call.count /\ call'.outcome = call.outcome
      BY <1>5, <2>3 DEF CallType
    <2>6. CallInv'
      BY <1>1, <1>2, <1>5, <2>4, <2>5 DEF CallInv, SignerInv
    <2>7. Progress'
      BY <1>1, <2>1, <2>2, <2>5 DEF Progress, SignerInv
    <2>8. Promises'
      BY <1>1, <1>5, <2>1, <2>5 DEF Promises, FailureReturnsNothing, SuccessIsComplete,
         UnselectedUntouched, Failed, Succeeded, SignerInv
    <2> QED
      BY <2>1, <2>2, <2>6, <2>7, <2>8 DEF SignerInv
  <1> QED
    BY <1>4, <1>5 DEF se051_derive_child_key

LEMMA SignStep ==
  ASSUME SignerInv, SignInput
  PROVE  SignerInv'
  <1> DEFINE k == call.i
             in == inputs[k]
  <1>1. /\ inputs' = inputs /\ selected' = selected /\ scratch' = scratch /\ scratch = k
        /\ call.step = "sign" /\ k \in Indices /\ k \in selected /\ input_is_owned(in)
    BY Position DEF SignInput, SignerInv, CallInv, CurrentInput
  <1>2. k \in Nat /\ k - 1 \in Nat /\ (k - 1) + 1 = k
    BY Position
  <1>3. /\ InputsInv' /\ Indices' = Indices /\ HostSigs(inputs)' = HostSigs(inputs)
        /\ \A n : Due(n)' = Due(n) /\ (NoneUnsignable(n)' <=> NoneUnsignable(n))
    BY <1>1, InputsStay DEF SignerInv
  <1>4. PICK o \in {-2, -1, 0, 1} :
          /\ call' = [call EXCEPT !.step = "delete", !.outcome = o]
          /\ \/ o = 1 /\ CanSign(in) /\ Signed(in)
             \/ o = 0 /\ ~CanSign(in) /\ is_multisig_input(in) /\ sigs' = sigs
             \/ o < 0 /\ sigs' = sigs
    BY DEF SignInput, ToDelete, CurrentInput, PSBT_SIGN_ERR_SE, PSBT_SIGN_ERR_PARAM, CanSign
  <1>5. call \in CallType /\ o \in Int
    BY DEF SignerInv, CallInv
  <1>6. call' \in CallType
    BY <1>4, <1>5 DEF CallType
  <1>7. /\ call'.step = "delete" /\ call'.i = k
        /\ call'.count = call.count /\ call'.outcome = o
    BY <1>4, <1>5 DEF CallType
  <1>8. MaxInputs \in Nat /\ MaxInputs >= 1
    BY <1>1, Position DEF Indices, SignerInv, InputsInv
  <1>9. CallInv'
    BY <1>1, <1>6, <1>7, <1>8 DEF CallInv, SignerInv
  <1>10. ASSUME sigs' = sigs PROVE SlotsInv' /\ SignedByUs' = SignedByUs
    BY <1>3, <1>10 DEF SignerInv, SlotsInv, AnyValue, SlotValues, SignedByUs, IsOurs
  <1>11. ASSUME Signed(in)
         PROVE  /\ SlotsInv' /\ SignedByUs' = SignedByUs \cup {k}
                /\ \A j \in Indices \ {k} : sigs'[j] = sigs[j]
    BY <1>1, <1>11, SignedEffect DEF CurrentInput, SignerInv
  <1>12. SlotsInv'
    BY <1>4, <1>10, <1>11
  <1>13. \A j \in Indices \ selected : sigs'[j] = sigs[j]
    BY <1>1, <1>4, <1>11
  <1>14. ASSUME o >= 0
         PROVE  /\ SignedByUs' = Due(k) /\ NoneUnsignable(k)
                /\ call.count + o = Cardinality(Due(k))
    <2>1. SignedByUs = Due(k - 1) /\ call.count = Cardinality(Due(k - 1)) /\ NoneUnsignable(k - 1)
      BY <1>1 DEF SignerInv, Progress
    <2>2. NoneUnsignable(k)
      <3>1. \A j \in selected : j <= k => j <= k - 1 \/ j = k
        BY <1>2, Position DEF Indices
      <3>2. CanSign(in) \/ is_multisig_input(in)
        BY <1>4, <1>14
      <3> QED
        BY <2>1, <3>1, <3>2, Zenon DEF NoneUnsignable
    <2>3. CASE CanSign(in)
      <3>1. Due(k) = Due(k - 1) \cup {k} /\ Cardinality(Due(k)) = Cardinality(Due(k - 1)) + 1
        BY <1>1, <1>2, <2>3, DueStep, Zenon DEF SignerInv
      <3>2. o = 1 /\ Signed(in)
        BY <1>4, <1>14, <2>3
      <3> QED
        BY <1>11, <2>1, <2>2, <3>1, <3>2
    <2>4. CASE ~CanSign(in)
      <3>1. Due(k) = Due(k - 1)
        BY <1>1, <1>2, <2>4, DueStep, Zenon DEF SignerInv
      <3>2. o = 0 /\ sigs' = sigs
        BY <1>4, <1>14, <2>4
      <3>3. call.count \in Nat
        BY <1>5 DEF CallType
      <3> QED
        BY <1>10, <2>1, <2>2, <3>1, <3>2, <3>3
    <2> QED
      BY <2>3, <2>4
  <1>15. Progress'
    BY <1>3, <1>7, <1>14 DEF Progress
  <1>16. Promises'
    BY <1>1, <1>3, <1>7, <1>13 DEF Promises, FailureReturnsNothing, SuccessIsComplete,
       UnselectedUntouched, Failed, Succeeded, SignerInv
  <1> QED
    BY <1>3, <1>9, <1>12, <1>15, <1>16 DEF SignerInv

LEMMA DeleteStep ==
  ASSUME SignerInv, DeleteKey
  PROVE  SignerInv'
  <1> DEFINE k == call.i
  <1>1. /\ inputs' = inputs /\ selected' = selected
        /\ call.step = "delete" /\ k \in Indices /\ call.outcome \in {-2, -1, 0, 1}
    BY Position DEF DeleteKey, SignerInv, CallInv
  <1>2. scratch' \in Nat \cup {None}
    BY DEF DeleteKey, SignerInv, CallInv
  <1>3. CASE call.outcome < 0
    <2>1. ReturnError(call.outcome)
      BY <1>3 DEF DeleteKey
    <2> QED
      BY <1>1, <1>2, <1>3, <2>1, ErrorStep
  <1>4. CASE ~(call.outcome < 0)
    <2> DEFINE n == call.count + call.outcome
    <2>1. /\ InputsInv' /\ Indices' = Indices /\ HostSigs(inputs)' = HostSigs(inputs)
          /\ \A m : Due(m)' = Due(m) /\ (NoneUnsignable(m)' <=> NoneUnsignable(m))
      BY <1>1, InputsStay DEF SignerInv
    <2>2. sigs' = sigs
      BY <1>4 DEF DeleteKey
    <2>3. SlotsInv' /\ SignedByUs' = SignedByUs
      BY <2>1, <2>2 DEF SignerInv, SlotsInv, AnyValue, SlotValues, SignedByUs, IsOurs
    <2>4. call' = [call EXCEPT !.step = "input", !.i = k + 1, !.count = n]
      BY <1>4 DEF DeleteKey, NextInput
    <2>5. call \in CallType /\ call.count \in Nat /\ call.count < k /\ k \in Nat
      BY DEF SignerInv, CallInv, CallType
    <2>6. n \in Nat /\ n < k + 1 /\ k + 1 \in Nat /\ (k + 1) - 1 = k
      BY <1>1, <1>4, <2>5
    <2>7. call' \in CallType
      BY <2>4, <2>5, <2>6 DEF CallType
    <2>8. call'.step = "input" /\ call'.i = k + 1 /\ call'.count = n /\ call'.outcome = call.outcome
      BY <2>4, <2>5, <2>6 DEF CallType
    <2>9. k + 1 \in 1..Len(inputs) + 1
      BY <1>1, Position DEF Indices
    <2>10. CallInv'
      BY <1>1, <1>2, <2>6, <2>7, <2>8, <2>9 DEF CallInv, SignerInv
    <2>11. SignedByUs = Due(k) /\ n = Cardinality(Due(k)) /\ NoneUnsignable(k)
      BY <1>1, <1>4 DEF SignerInv, Progress
    <2>12. Progress'
      BY <2>1, <2>3, <2>6, <2>8, <2>11 DEF Progress
    <2>13. Promises'
      BY <1>1, <2>1, <2>2, <2>8 DEF Promises, FailureReturnsNothing, SuccessIsComplete,
         UnselectedUntouched, Failed, Succeeded, SignerInv
    <2> QED
      BY <2>1, <2>3, <2>10, <2>12, <2>13 DEF SignerInv
  <1> QED
    BY <1>3, <1>4

LEMMA EndStep ==
  ASSUME SignerInv, EndOfLoop
  PROVE  SignerInv'
  <1> DEFINE k == call.i
             result == IF call.count = 0 /\ call.anyOwned THEN PSBT_SIGN_ERR_NO_PARTICIPANT
                       ELSE call.count
  <1>1. /\ inputs' = inputs /\ selected' = selected /\ sigs' = sigs /\ scratch' = scratch
        /\ call.step = "input" /\ k \notin Indices
    BY DEF EndOfLoop
  <1>2. /\ InputsInv' /\ Indices' = Indices /\ HostSigs(inputs)' = HostSigs(inputs)
        /\ \A m : Due(m)' = Due(m) /\ (NoneUnsignable(m)' <=> NoneUnsignable(m))
    BY <1>1, InputsStay DEF SignerInv
  <1>3. SlotsInv' /\ SignedByUs' = SignedByUs
    BY <1>1, <1>2 DEF SignerInv, SlotsInv, AnyValue, SlotValues, SignedByUs, IsOurs
  <1>4. call \in CallType /\ call.count \in Nat /\ call.count < k
    BY DEF SignerInv, CallInv, CallType
  <1>5. k = Len(inputs) + 1 /\ Len(inputs) \in Nat /\ k \in Nat
    BY <1>1, Position DEF SignerInv, CallInv, Indices
  <1>6. result \in Int /\ result \in -5..MaxInputs /\ (result >= 0 => result = call.count)
    BY <1>4, <1>5, Position DEF PSBT_SIGN_ERR_NO_PARTICIPANT, SignerInv, InputsInv
  <1>7. result < 0 => call.count = 0
    BY <1>4
  <1>8. call' = [call EXCEPT !.step = "done", !.outcome = result]
    BY DEF EndOfLoop, Return
  <1> HIDE DEF result
  <1>9. call' \in CallType
    BY <1>4, <1>6, <1>8 DEF CallType
  <1>10. call'.step = "done" /\ call'.i = k /\ call'.count = call.count /\ call'.outcome = result
    BY <1>4, <1>6, <1>8 DEF CallType
  <1>11. CallInv'
    BY <1>1, <1>6, <1>9, <1>10 DEF CallInv, SignerInv
  <1>12. Progress'
    BY <1>10 DEF Progress
  <1>13. /\ SignedByUs = Due(k - 1) /\ call.count = Cardinality(Due(k - 1)) /\ NoneUnsignable(k - 1)
    BY <1>1 DEF SignerInv, Progress
  <1>14. IsFiniteSet(Due(k - 1))
    <2>1. Due(k - 1) \in SUBSET (1..Len(inputs))
      BY DEF Due, SignerInv, InputsInv, Indices
    <2>2. IsFiniteSet(1..Len(inputs))
      BY <1>5, FS_Interval
    <2> QED
      BY <2>1, <2>2, FS_Subset
  <1>15. FailureReturnsNothing'
    BY <1>3, <1>7, <1>10, <1>13, <1>14, FS_EmptySet DEF FailureReturnsNothing, Failed
  <1>16. \A j \in selected : j <= k - 1
    BY <1>5, Position DEF Indices
  <1>17. Due(k - 1) = {j \in selected : input_is_owned(inputs[j]) /\ CanSign(inputs[j])}
    BY <1>16, Zenon DEF Due
  <1>18. \A j \in selected \ SignedByUs : ~input_is_owned(inputs[j]) \/ is_multisig_input(inputs[j])
    BY <1>13, <1>16, <1>17, Zenon DEF NoneUnsignable
  <1>19. SuccessIsComplete'
    <2>1. Succeeded' => call.count = result
      BY <1>6, <1>10 DEF Succeeded
    <2>2. SignedByUs' = {j \in selected : input_is_owned(inputs[j]) /\ CanSign(inputs[j])}
      BY <1>3, <1>13, <1>17, Zenon
    <2> QED
      BY <1>1, <1>3, <1>10, <1>13, <1>18, <2>1, <2>2 DEF SuccessIsComplete
  <1>20. UnselectedUntouched'
    BY <1>1, <1>2 DEF UnselectedUntouched, SignerInv, Promises, Failed
  <1> QED
    BY <1>2, <1>3, <1>11, <1>12, <1>15, <1>19, <1>20 DEF SignerInv, Promises

-----------------------------------------------------------------------------
THEOREM SignerInvStep == SignerInv /\ [psbt_sign]_signerVars => SignerInv'
  <1> SUFFICES ASSUME SignerInv, [psbt_sign]_signerVars PROVE SignerInv'
    OBVIOUS
  <1>1. CASE SkipInput
    BY <1>1, SkipInputStep
  <1>2. CASE se051_derive_child_key
    BY <1>2, DeriveStep
  <1>3. CASE SignInput
    BY <1>3, SignStep
  <1>4. CASE DeleteKey
    BY <1>4, DeleteStep
  <1>5. CASE EndOfLoop
    BY <1>5, EndStep
  <1>6. CASE UNCHANGED signerVars
    <2>1. /\ inputs' = inputs /\ sigs' = sigs /\ selected' = selected
          /\ scratch' = scratch /\ call' = call
      BY <1>6 DEF signerVars
    <2> QED
      BY <2>1 DEF SignerInv, InputsInv, SlotsInv, CallInv, Progress, Promises, Indices,
         AnyValue, SlotValues, SignedByUs, IsOurs, Due, NoneUnsignable, FailureReturnsNothing,
         SuccessIsComplete, UnselectedUntouched, Failed, Succeeded, HostSigs
  <1> QED
    BY <1>1, <1>2, <1>3, <1>4, <1>5, <1>6 DEF psbt_sign

(* The invariant gives each promise and the type invariant.                   *)
LEMMA SignerInvImplies ==
  SignerInv => /\ TypeOK /\ KeyFitsInput /\ FailureReturnsNothing
               /\ SuccessIsComplete /\ UnselectedUntouched
  <1> SUFFICES ASSUME SignerInv
               PROVE  /\ TypeOK /\ KeyFitsInput /\ FailureReturnsNothing
                      /\ SuccessIsComplete /\ UnselectedUntouched
    OBVIOUS
  <1>1. call.count \in 0..MaxInputs
    BY Position DEF SignerInv, CallInv, CallType, InputsInv
  <1>2. \A i \in Indices : sigs[i].partial \in AnyValue /\ sigs[i].tap \in AnyValue
    BY DEF SignerInv, SlotsInv
  <1>3. AnyValue \subseteq {None} \cup [key : Nat \cup {Cosigner, None}, input : Indices]
    BY DEF AnyValue
  <1>4. \A i \in Indices, slot \in {"partial", "tap"} :
          sigs[i][slot] \in {None} \cup [key : Nat \cup {Cosigner, None}, input : Indices]
    BY <1>2, <1>3
  <1>5. call.step \in {"idle", "input", "sign", "delete", "done"}
    BY DEF SignerInv, CallInv, CallType
  <1>6. TypeOK
    BY <1>1, <1>4, <1>5 DEF TypeOK, SignerInv, InputsInv, CallInv
  <1> QED
    BY <1>6, OursIsOwnKey DEF SignerInv, Promises

(* The loop knows at every input what it has signed before it.                *)
THEOREM SignerInvariant == SignerSpec => []SignerInv
  <1>1. SignerInit => SignerInv
    BY SignerInvInit
  <1>2. SignerInv /\ [psbt_sign]_signerVars => SignerInv'
    BY SignerInvStep
  <1> QED
    BY <1>1, <1>2, PTL DEF SignerSpec

(* psbt_sign never leaves its arrays, whatever the inputs and the selection.   *)
THEOREM AlwaysTyped == SignerSpec => []TypeOK
  BY SignerInvariant, SignerInvImplies, PTL

(* Whatever key 0xF0 held before the call, and whatever the secure element      *)
(* fails at, the device signs an input with the key of that input only.         *)
THEOREM AlwaysKeyFitsInput == SignerSpec => []KeyFitsInput
  BY SignerInvariant, SignerInvImplies, PTL

(* An error in any call to the secure element takes back what was signed.       *)
THEOREM AlwaysFailureReturnsNothing == SignerSpec => []FailureReturnsNothing
  BY SignerInvariant, SignerInvImplies, PTL

(* A call that says it succeeded signed just the inputs selected, owned and      *)
(* signable, has counted them, and met no owned input that it cannot sign.       *)
THEOREM AlwaysSuccessIsComplete == SignerSpec => []SuccessIsComplete
  BY SignerInvariant, SignerInvImplies, PTL

(* The slots of inputs out of the selection keep what the host put there.        *)
THEOREM AlwaysUnselectedUntouched == SignerSpec => []UnselectedUntouched
  BY SignerInvariant, SignerInvImplies, PTL

(* Where deriving and deleting work, no call leaves the child key of an input   *)
(* in 0xF0, whether it signed, refused the input or failed to sign it.          *)
THEOREM KeyIsDeleted ==
  ASSUME SeFaults \subseteq {"sign"}
  PROVE  SignerSpec => []ScratchKeyDeleted
  <1> DEFINE KeyInv == call.step \in {"input", "done"} /\ call.anyOwned => scratch = None
  <1>1. SignerInit => KeyInv
    BY DEF SignerInit, Called, NoCall
  <1>2. SignerInv /\ KeyInv /\ [psbt_sign]_signerVars => KeyInv'
    <2> SUFFICES ASSUME SignerInv, KeyInv, [psbt_sign]_signerVars PROVE KeyInv'
      OBVIOUS
    <2>1. call \in CallType
      BY DEF SignerInv, CallInv
    <2>2. SeResults("derive") = {"ok"} /\ SeResults("delete") = {"ok"}
      BY DEF SeResults
    <2>3. CASE SkipInput
      BY <2>1, <2>3 DEF SkipInput, NextInput, CallType
    <2>4. CASE se051_derive_child_key
      <3>1. call' = [call EXCEPT !.step = "sign", !.anyOwned = TRUE]
        BY <2>2, <2>4 DEF se051_derive_child_key
      <3> QED
        BY <2>1, <3>1 DEF CallType
    <2>5. CASE SignInput
      <3>1. call'.step = "delete"
        BY <2>1, <2>5 DEF SignInput, ToDelete, CallType
      <3> QED
        BY <3>1
    <2>6. CASE DeleteKey
      BY <2>2, <2>6 DEF DeleteKey
    <2>7. CASE EndOfLoop
      BY <2>1, <2>7 DEF EndOfLoop, Return, CallType
    <2>8. CASE UNCHANGED signerVars
      BY <2>8 DEF signerVars
    <2> QED
      BY <2>3, <2>4, <2>5, <2>6, <2>7, <2>8 DEF psbt_sign
  <1>3. KeyInv => ScratchKeyDeleted
    BY DEF ScratchKeyDeleted
  <1> QED
    BY <1>1, <1>2, <1>3, SignerInvariant, PTL DEF SignerSpec
=============================================================================
