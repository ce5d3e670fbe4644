---------------------------- MODULE RelaydHistory ----------------------------
(***************************************************************************)
(* Relayd with a record of what clients asked for, to state what the       *)
(* relay's own documentation says of withdrawals, of failed deliveries and *)
(* of the ceiling on what is held.  The history only watches: every        *)
(* behaviour of Relayd is one of this module.                              *)
(***************************************************************************)
EXTENDS Relayd

VARIABLES
  withdrawn,    \* ids a DELETE has been answered for
  erased        \* ids that were in the process when it restarted

hvars == <<vars, withdrawn, erased>>

HInit == Init /\ withdrawn = {} /\ erased = {}

WithdrawStep(id) == \E w \in Workers, a \in Addresses : Withdraw(w, a, id)

HNext ==
  \/ /\ \E w \in Workers : \/ \E a \in Addresses : TooManyRequests(w, a) \/ AnsweredAtOnce(w, a)
                           \/ Publishing(w)
                           \/ Retrieving(w)
     /\ UNCHANGED <<withdrawn, erased>>
  \/ \E id \in Ids : WithdrawStep(id) /\ withdrawn' = withdrawn \cup {id} /\ UNCHANGED erased
  \/ (Sweep \/ Tick) /\ UNCHANGED <<withdrawn, erased>>
  \/ Restart /\ erased' = {id \in Ids : deadline[id] # None} /\ UNCHANGED withdrawn

HSpec == HInit /\ [][HNext]_hvars

\* store.rs:14-17 and main.rs:29: all objects together never exceed the total
\* ceiling, "Most the relay will hold at once".
TotalCeiling == Total(store) <= MaxTotal

\* server.rs:7 and the contract test of real_relay.rs:352: an object that has
\* been withdrawn cannot be fetched.
WithdrawnStaysWithdrawn == \A id \in withdrawn : store[id] = None

\* store.rs:97-101: "a dropped connection does not consume the object, but a
\* delivered one always does".  So an object that was published, is in time,
\* was neither delivered nor withdrawn nor erased is still there to be fetched.
NotLostUndelivered ==
  \A id \in Ids \ (withdrawn \cup erased) :
    deadline[id] # None /\ delivered[id] = 0 =>
      \/ deadline[id] <= now
      \/ store[id] # None
      \/ \E w \in Workers : InHand(w, id)

==============================================================================
