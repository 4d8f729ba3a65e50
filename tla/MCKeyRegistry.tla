--------------------------- MODULE MCKeyRegistry ---------------------------
(* KeyRegistry with the symmetries of its sets. *)
EXTENDS KeyRegistry, TLC

KeySymmetry ==
    Permutations(Calls) \cup Permutations(Devices) \cup Permutations(Keys) \cup
    Permutations(Codes)
=============================================================================
