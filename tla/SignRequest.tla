---------------------------- MODULE SignRequest ----------------------------
(***************************************************************************)
(* What a host that sends a PSBT may rely on (prd.json, US-014), whatever  *)
(* screens the user goes through: a PSBT that is taken up gets exactly one *)
(* reply; SIGNED comes only after the user's approval of that transaction, *)
(* REJECTED only without it; and no reply comes that was not asked for, but *)
(* the error for a PSBT that cannot be read.  The device may put another   *)
(* transaction in the place of the host's in the cases of Substitutes, and *)
(* in no other; then the approval and the reply are for that one.          *)
(***************************************************************************)
EXTENDS Naturals

CONSTANTS
  Psbts,        \* what the host sends
  Readable,     \* those of them that can be read
  Substitutes,  \* <<t, u>>: u may take the place of t under review
  None          \* no PSBT

VARIABLES
  sent,      \* a PSBT on its way to the device
  request,   \* its phase (none, taken up, approved by the user), and of what
  reply      \* the last reply, and a bit that every reply flips

vars == <<sent, request, reply>>

NoRequest == [phase |-> "none", tx |-> None]
Reply(kind) == reply' = [kind |-> kind, bit |-> 1 - reply.bit]
Close(kind) == request' = NoRequest /\ Reply(kind)

Init == sent = None /\ request = NoRequest /\ reply = [kind |-> "none", bit |-> 0]

Send == sent = None /\ sent' \in Psbts /\ UNCHANGED <<request, reply>>
Drop == sent # None /\ sent' = None /\ UNCHANGED <<request, reply>>

TakeUp ==
  /\ request.phase = "none" /\ sent \in Readable
  /\ request' = [phase |-> "taken", tx |-> sent] /\ sent' = None
  /\ UNCHANGED reply
Refuse ==
  /\ request.phase = "none" /\ sent \in Psbts \ Readable
  /\ sent' = None /\ Reply("ERROR")
  /\ UNCHANGED request

Substitute ==
  /\ request.phase = "taken"
  /\ \E s \in Substitutes : request.tx = s[1] /\ request' = [request EXCEPT !.tx = s[2]]
  /\ UNCHANGED <<sent, reply>>
Approve ==
  /\ request.phase = "taken" /\ request' = [request EXCEPT !.phase = "approved"]
  /\ UNCHANGED <<sent, reply>>
Reject == request.phase = "taken" /\ Close("REJECTED") /\ UNCHANGED sent
Answer == request.phase = "approved" /\ (Close("SIGNED") \/ Close("ERROR")) /\ UNCHANGED sent

Next == Send \/ Drop \/ TakeUp \/ Refuse \/ Substitute \/ Approve \/ Reject \/ Answer

(* The user may look at a transaction for ever; an approved one is answered.  *)
Spec == Init /\ [][Next]_vars /\ WF_vars(Answer)
=============================================================================
