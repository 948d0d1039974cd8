--------------------------- MODULE MCCallbackOutbox -------------------------
(* Instances of CallbackOutbox for TLC. *)
EXTENDS CallbackOutbox, TLC

Symmetry ==
    Permutations(Runs) \cup Permutations(Senders) \cup Permutations(Emitters)
=============================================================================
