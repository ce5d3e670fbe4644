---------------------------- MODULE BatchHandover ----------------------------
(***************************************************************************)
(* What a send promises the agent that reads the pasted paths: it is told  *)
(* of a batch once, when every file of it is in place, and the batch stays *)
(* whole until it expires.  A send that fails is never heard of.           *)
(***************************************************************************)
CONSTANT Senders

VARIABLE batch

Stages == {"unheard", "whole", "expired"}

TypeOK == batch \in [Senders -> Stages]

Init == batch = [s \in Senders |-> "unheard"]

HandOver(s) ==
  /\ batch[s] = "unheard"
  /\ batch' = [batch EXCEPT ![s] = "whole"]

Expire(s) ==
  /\ batch[s] = "whole"
  /\ batch' = [batch EXCEPT ![s] = "expired"]

Next == \E s \in Senders : HandOver(s) \/ Expire(s)

Spec == Init /\ [][Next]_batch

==============================================================================
