----------------------------- MODULE MCStaging -----------------------------
(* Staging for TLC: sends are interchangeable, and no property tells them    *)
(* apart.                                                                    *)
EXTENDS Staging, TLC

SendSymmetry == Permutations(Senders)

==============================================================================
