------------------------------ MODULE MCSettings ------------------------------
(***************************************************************************)
(* Settings for TLC: aliases are interchangeable, and so are processes and  *)
(* the names of temporary files.                                            *)
(***************************************************************************)
EXTENDS Settings, TLC

Symmetry == Permutations(Names) \cup Permutations(Processes) \cup Permutations(Slots)

=============================================================================
