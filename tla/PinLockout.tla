----------------------------- MODULE PinLockout -----------------------------
(***************************************************************************)
(* What a PIN with a limited number of attempts promises, whatever screens *)
(* and objects implement it (prd.json, US-005 and US-017): an attempt is   *)
(* paid for before its outcome is known, a reset gives nothing back, the   *)
(* attempts return only to an unlocked wallet or in a wipe, and an attempt *)
(* that fails when none is left ends in a wipe.                            *)
(***************************************************************************)
EXTENDS Naturals

CONSTANT MAX   \* attempts of a new PIN

VARIABLES
  left,    \* attempts that are left
  phase,   \* no PIN, locked by one, unlocked, or being wiped
  paid     \* an attempt was paid for and its outcome is not known yet

vars == <<left, phase, paid>>

Init == left = MAX /\ phase = "none" /\ paid = FALSE

SetPin ==
  /\ phase = "none" /\ ~paid
  /\ phase' = "open"
  /\ UNCHANGED <<left, paid>>

(* Who types a PIN pays, also on the lock screen of a device without a PIN.   *)
Pay ==
  /\ phase \in {"none", "locked"} /\ ~paid
  /\ left' = IF left = 0 THEN 0 ELSE left - 1
  /\ paid' = TRUE
  /\ UNCHANGED phase

Accept ==
  /\ paid /\ phase = "locked"
  /\ phase' = "open" /\ paid' = FALSE
  /\ UNCHANGED left

Reject ==
  /\ paid /\ left > 0
  /\ paid' = FALSE
  /\ UNCHANGED <<left, phase>>

(* The attempts are all paid for and the last one failed; or the owner asks.  *)
StartWipe ==
  /\ (paid /\ left = 0) \/ phase = "open"
  /\ phase' = "wiping" /\ paid' = FALSE
  /\ UNCHANGED left

Restore ==
  /\ phase \in {"open", "wiping"}
  /\ left' = MAX
  /\ UNCHANGED <<phase, paid>>

EndWipe ==
  /\ phase = "wiping"
  /\ phase' = "none"
  /\ UNCHANGED <<left, paid>>

(* Power is lost, or the open wallet locks: a payment is not returned, and a  *)
(* wipe may stop short of the PIN.                                            *)
LoseSession ==
  /\ phase' \in CASE phase = "open"   -> {"locked"}
                  [] phase = "wiping" -> {"locked", "none"}
                  [] OTHER            -> {phase}
  /\ paid' = FALSE
  /\ UNCHANGED left

Next == SetPin \/ Pay \/ Accept \/ Reject \/ StartWipe \/ Restore \/ EndWipe \/ LoseSession

Spec == Init /\ [][Next]_vars
=============================================================================
