------------------------------ MODULE MCPaste ------------------------------
(* An instance of Paste for TLC. *)
EXTENDS Paste, TLC

Symmetry == Permutations(Processes) \cup Permutations(Slots) \cup Permutations(Images)

=============================================================================
