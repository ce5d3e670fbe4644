----------------------------- MODULE ObjectStore -----------------------------
(***************************************************************************)
(* What a Clift relay promises about the ciphertexts it holds, whichever   *)
(* of the two implementations is running (crates/clift-relayd or           *)
(* relay/cloudflare).  An object has one life:                             *)
(*                                                                         *)
(*     "unpublished" --> "held" --> "delivered"                            *)
(*                          \-----> "gone"                                 *)
(*                                                                         *)
(* "gone" covers every way of disappearing undelivered: expiry, a          *)
(* withdrawal, a delivery that failed for good, a restart.  Both ends are  *)
(* final: a delivered object is never handed out again and a forgotten one *)
(* never comes back.                                                       *)
(***************************************************************************)
CONSTANT Ids            \* object ids; a fresh one for every publication

VARIABLE status         \* status[id]: where the object under id is in its life

Life == {"unpublished", "held", "delivered", "gone"}

TypeOK == status \in [Ids -> Life]

Held == {id \in Ids : status[id] = "held"}

\* The relay forgets whatever has to go whenever it looks at its objects, so
\* any step may forget some of those it holds.
After(forgotten) ==
  [id \in Ids |-> IF id \in forgotten THEN "gone" ELSE status[id]]

Init == status = [id \in Ids |-> "unpublished"]

Publish(id, forgotten) ==
  /\ status[id] = "unpublished"
  /\ status' = [After(forgotten) EXCEPT ![id] = "held"]

Deliver(id, forgotten) ==
  /\ status[id] = "held"
  /\ status' = [After(forgotten) EXCEPT ![id] = "delivered"]

Forget(forgotten) == status' = After(forgotten)

Next ==
  \/ \E id \in Ids, forgotten \in SUBSET Held : Publish(id, forgotten)
  \/ \E id \in Ids, forgotten \in SUBSET Held : Deliver(id, forgotten)
  \/ \E forgotten \in SUBSET Held : Forget(forgotten)

Spec == Init /\ [][Next]_status

==============================================================================
