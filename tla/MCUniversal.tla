---------------------------- MODULE MCUniversal ----------------------------
(***************************************************************************)
(* Universal on an instance TLC can exhaust.  Publishers, fetchers and ids *)
(* are each as good as any other, and no property tells them apart.        *)
(***************************************************************************)
EXTENDS Universal, TLC

Interchangeable ==
  Permutations(Publishers) \cup Permutations(Fetchers) \cup Permutations(Ids)

=============================================================================
