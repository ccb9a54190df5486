------------------------ MODULE MCDeliveryAccounting ------------------------
(* Finite instances of DeliveryAccounting for TLC. *)
EXTENDS DeliveryAccounting

\* Responses are interchangeable.
MCSymmetry == Permutations(Responses)
=============================================================================
