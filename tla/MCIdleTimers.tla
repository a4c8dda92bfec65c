---------------------------- MODULE MCIdleTimers ----------------------------
(* Time-outs of IdleTimers in ticks: two or three of the five options of each setting, the   *)
(* shortest, a longer one and never; 30 s is tick 4 and 1 min tick 6.                           *)
EXTENDS IdleTimers

MCDispMs == <<4, 0>>
MCLockMs == <<6, 8, 0>>
=============================================================================
