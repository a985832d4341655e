------------------------------ MODULE Semaphore ------------------------------
(***************************************************************************)
(* What a counting semaphore promises: a permit is taken only when there   *)
(* is one, and every signal adds one.                                      *)
(***************************************************************************)
EXTENDS Naturals

VARIABLE value   \* permits that nobody has taken

Init    == value = 0
Release == value' = value + 1
Acquire == value > 0 /\ value' = value - 1
Next    == Release \/ Acquire

Spec == Init /\ [][Next]_value

=============================================================================
