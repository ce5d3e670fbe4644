---------------------------- MODULE MCRemoteDirs ----------------------------
(***************************************************************************)
(* RemoteDirs for TLC: uploaders are interchangeable, checkers are too.       *)
(***************************************************************************)
EXTENDS RemoteDirs, TLC

Symmetry == Permutations(Uploaders) \cup Permutations(Checkers)

=============================================================================
