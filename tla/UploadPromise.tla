---------------------------- MODULE UploadPromise ----------------------------
(***************************************************************************)
(* What an atomic upload over SFTP promises whoever watches the batch      *)
(* directory and whoever asked for it.  The destination appears with the   *)
(* whole file or not at all; "stored" is said of a destination that is     *)
(* there, and after "not stored" it never appears.  Only when the session  *)
(* broke is nothing known, and even then what appears is whole.            *)
(***************************************************************************)
VARIABLES
  said,         \* of the latest upload
  there         \* what is at its destination

Init ==
  /\ said = "nothing"
  /\ there = "absent"

Begin ==
  /\ said \in {"nothing", "stored", "not stored"}
  /\ said' = "under way"
  /\ there' = "absent"

Appear ==
  /\ said \in {"under way", "unknown"}
  /\ there' = "whole"
  /\ UNCHANGED said

Answer ==
  /\ said = "under way"
  /\ \/ said' = "stored" /\ there = "whole"
     \/ said' = "not stored" /\ there = "absent"
     \/ said' = "unknown"
  /\ UNCHANGED there

Next == Begin \/ Appear \/ Answer

Spec == Init /\ [][Next]_<<said, there>>

==============================================================================
