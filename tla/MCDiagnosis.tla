---------------------------- MODULE MCDiagnosis ----------------------------
(* Relays are alike to the commands, and so are objects and combinations.    *)
EXTENDS Diagnosis, TLC

Alike == Permutations(Addresses) \cup Permutations(Objects) \cup Permutations(Keys)
=============================================================================
