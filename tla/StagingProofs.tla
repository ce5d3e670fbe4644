---------------------------- MODULE StagingProofs -----------------------------
(***************************************************************************)
(* What TLAPS proves of the two modules about what Clift leaves on a host. *)
(*                                                                         *)
(* Of Staging, for any number of sends, cleanups and files, and any        *)
(* retention, deadline and difference of the clocks. The inductive         *)
(* invariant has a part for what a send knows of its own batch (SendOK),   *)
(* one for what a cleanup holds of it (CleanOK), and one for the bargain   *)
(* between the two (Undisturbed): the age of a batch at work is less than  *)
(* the retention, so no cleanup by age ever has it on its list.            *)
(*                                                                         *)
(* Of RemoteDirs, for any number of clients that make the same directories *)
(* at the same time: what a client may have asked and believe of a path    *)
(* (Safe), what a sender knows of its batch on a server that applies modes *)
(* (BatchOK), and what everybody knows on a host that refuses nothing and  *)
(* holds nothing of the user's (ClientOK).                                 *)
(***************************************************************************)
EXTENDS Staging, RemoteDirs, SequenceTheorems, TLAPS

\* The batch directory has not been asked for yet.
Before == {"idle"} \cup Creating

\* The final names of the files the send believes are in place
Placed(s) == {"file"} \X staged[s]

\* What is on the host is what the send has put there and not taken back.
Tidy(s) ==
  ~harmed[s] =>
    /\ pc[s] \in {"opening", "discarding"} => Present(s) \subseteq Placed(s)
    /\ pc[s] \in {"writing", "renaming", "clearing"} =>
         Present(s) \subseteq Placed(s) \cup {<<"part", n[s]>>}
    /\ pc[s] = "failed" => ~dir[s]

SendOK(s) ==
  /\ pc[s] \in Before => ~dir[s] /\ n[s] = 1 /\ staged[s] = {}
  /\ ~dir[s] => Present(s) = {}
  /\ pc[s] \in Uploading => staged[s] = 1..(n[s] - 1)
  /\ pc[s] = "sent" => staged[s] = Index
  /\ \A i \in Index : content[s][<<"file", i>>] # "short"
  /\ pc[s] = "renaming" => content[s][<<"part", n[s]>>] # "short"
  /\ Tidy(s)
  /\ pc[s] \in Asking \cup {"sent"} => since[s] <= now
  /\ pc[s] \in Asking => now - since[s] <= Deadline
  /\ pc[s] \in Uploading \cup {"sent"} /\ dir[s] => since[s] <= touched[s]

CleanOK(c) ==
  /\ cpc[c] = "idle" => emptied[c] = {} /\ todo[c] = {} /\ batch[c] = None
  /\ cpc[c] \in {"dates", "batches"} => cutoff[c] <= now + Ahead
  /\ \A s \in Senders : s \in todo[c] \cup emptied[c] \/ batch[c] = s => pc[s] \notin Before
  /\ ~dry[c] => \A s \in emptied[c] : ~dir[s]

\* The batch is one that a cleanup by age must keep its hands off: it is being
\* sent, or has been handed out not long ago.
Protected(s) ==
  \/ pc[s] \in Uploading
  \/ pc[s] = "sent" /\ now + Ahead < since[s] + Retention

Undisturbed ==
  OnlyByAge =>
    \A s \in Senders : Protected(s) =>
      /\ dir[s]
      /\ Intact(s)
      /\ \A c \in Cleaners : s \notin todo[c] /\ batch[c] # s

IInv ==
  /\ TypeOK
  /\ \A s \in Senders : SendOK(s)
  /\ \A c \in Cleaners : CleanOK(c)
  /\ Undisturbed

------------------------------------------------------------------------------
(* Type correctness *)

\* The names of the current file
LEMMA NameType ==
  ASSUME TypeOK, NEW s \in Senders
  PROVE  /\ n[s] \in Index
         /\ <<"part", n[s]>> \in Names
         /\ <<"file", n[s]>> \in Names
BY DEF TypeOK, SendsType, Names

LEMMA IndexFacts ==
  /\ 1 \in Index
  /\ \A i \in Index : i \in Nat /\ i >= 1 /\ i <= Files
  /\ \A i \in Index : i # Files => i + 1 \in Index
BY StagingAssumption DEF Index

\* What a request leaves on the host, by the kind of change
LEMMA MakeBatchType ==
  ASSUME TypeOK, NEW s \in Senders, MakeBatch(s)
  PROVE  HostType'
BY DEF TypeOK, HostType, MakeBatch

LEMMA PutType ==
  ASSUME TypeOK, NEW s \in Senders, NEW name \in Names,
         NEW what \in {"absent", "short", "whole"}, Put(s, name, what)
  PROVE  HostType'
BY DEF TypeOK, HostType, Put

LEMMA UnlinkType ==
  ASSUME TypeOK, NEW s \in Senders, NEW name \in Names, Unlink(s, name)
  PROVE  HostType'
<1>1. CASE Put(s, name, "absent")
  BY <1>1, PutType
<1>2. CASE UNCHANGED host
  BY <1>2 DEF host, TypeOK, HostType
<1> QED
  BY <1>1, <1>2 DEF Unlink

LEMMA RemoveDirType ==
  ASSUME TypeOK, NEW s \in Senders, RemoveDir(s)
  PROVE  HostType'
<1>1. /\ dir' \in [Senders -> BOOLEAN]
      /\ touched' \in [Senders -> Nat]
  <2>1. CASE Present(s) = {}
    <3>1. dir' = [dir EXCEPT ![s] = FALSE] /\ touched' = [touched EXCEPT ![s] = 0]
      BY <2>1, Zenon DEF RemoveDir
    <3> QED
      BY <3>1 DEF TypeOK, HostType
  <2>2. CASE Present(s) # {}
    BY <2>2 DEF TypeOK, HostType, RemoveDir
  <2> QED
    BY <2>1, <2>2
<1> QED
  BY <1>1 DEF TypeOK, HostType, RemoveDir

LEMMA SameHost == ASSUME TypeOK, UNCHANGED host PROVE HostType'
BY DEF TypeOK, HostType, host

\* Where a request leaves a send
LEMMA GoesToType ==
  ASSUME TypeOK, NEW s \in Senders, NEW place \in {"idle"} \cup Asking \cup Over,
         GoesTo(s, place)
  PROVE  SendsType'
BY DEF TypeOK, SendsType, GoesTo

LEMMA StartsType ==
  ASSUME TypeOK, NEW s \in Senders, NEW place \in {"idle"} \cup Asking \cup Over,
         Starts(s, place) \/ Ends(s, place)
  PROVE  /\ pc' \in [Senders -> {"idle"} \cup Asking \cup Over]
         /\ since' \in [Senders -> Nat]
BY DEF TypeOK, SendsType, Starts, Ends

LEMMA UnansweredType ==
  ASSUME TypeOK, NEW s \in Senders, Unanswered(s)
  PROVE  SendsType'
<1>1. {"discarding", "failed"} \subseteq Asking \cup Over
  BY DEF Asking, Failing, Over
<1>2. /\ pc' \in [Senders -> {"idle"} \cup Asking \cup Over]
      /\ since' \in [Senders -> Nat]
  BY <1>1, StartsType DEF Unanswered
<1> QED
  BY <1>2 DEF Unanswered, TypeOK, SendsType

LEMMA StagedType ==
  ASSUME TypeOK, NEW s \in Senders, Staged(s)
  PROVE  SendsType'
<1>1. {"opening", "sent"} \subseteq Asking \cup Over
  BY DEF Asking, Uploading, Over
<1>2. /\ pc' \in [Senders -> {"idle"} \cup Asking \cup Over]
      /\ since' \in [Senders -> Nat]
  BY <1>1, StartsType DEF Staged
<1>3. n[s] \in Index /\ (n[s] # Files => n[s] + 1 \in Index)
  BY IndexFacts DEF TypeOK, SendsType
<1>4. n' \in [Senders -> Index]
  BY <1>3 DEF Staged, TypeOK, SendsType
<1> QED
  BY <1>2, <1>3, <1>4 DEF Staged, TypeOK, SendsType

\* A send changes the host and itself, and no cleanup.
LEMMA SendingAlone ==
  ASSUME NEW s \in Senders, Sending(s)
  PROVE  now' = now /\ UNCHANGED cleanups
BY DEF Sending, StartSend, OverLimit, CreateBatch, CreateDate, CreateAgain, Open, Write,
       Rename, Clear, Refused, Lost, Killed, DiscardFile, DiscardBatch

LEMMA SendingType ==
  ASSUME TypeOK, NEW s \in Senders, Sending(s)
  PROVE  TypeOK'
<1> DEFINE OK == HostType' /\ SendsType'
           Kept == UNCHANGED <<n, staged, harmed>>
<1>1. {"creating", "dating", "retrying", "opening", "writing", "renaming", "clearing",
       "discarding", "sent", "failed", "dead"} \subseteq Asking \cup Over
  BY DEF Asking, Creating, Uploading, Failing, Over
<1>2. ASSUME NEW place \in Asking \cup Over, Starts(s, place) \/ Ends(s, place), Kept
      PROVE  SendsType'
  BY <1>2, StartsType DEF TypeOK, SendsType
<1>3. ASSUME StartSend(s) \/ OverLimit(s) PROVE OK
  <2>1. UNCHANGED host /\ Kept /\ (Starts(s, "creating") \/ Ends(s, "failed"))
    BY <1>3 DEF StartSend, OverLimit
  <2> QED
    BY <1>1, <1>2, <2>1, SameHost
<1>4. ASSUME Uploads(s) PROVE SendsType'
  BY <1>1, <1>2, <1>4 DEF Uploads
<1>5. ASSUME CreateBatch(s) PROVE OK
  BY <1>1, <1>4, <1>5, MakeBatchType, SameHost, GoesToType, UnansweredType DEF CreateBatch
<1>6. ASSUME CreateDate(s) PROVE OK
  <2>1. HostType'
    BY <1>6 DEF CreateDate, TypeOK, HostType
  <2> QED
    BY <1>1, <1>6, <2>1, GoesToType, UnansweredType DEF CreateDate
<1>7. ASSUME CreateAgain(s) PROVE OK
  <2>1. CASE MakeBatch(s) /\ (Uploads(s) \/ Unanswered(s))
    BY <1>4, <2>1, MakeBatchType, UnansweredType
  <2>2. CASE UNCHANGED host /\ Kept /\ Ends(s, "failed")
    BY <1>1, <1>2, <2>2, SameHost
  <2> QED
    BY <1>7, <2>1, <2>2 DEF CreateAgain
<1>8. ASSUME Open(s) PROVE OK
  BY <1>1, <1>8, NameType, PutType, SameHost, GoesToType, UnansweredType DEF Open
<1>9. ASSUME Write(s) PROVE OK
  <2>1. HostType'
    <3>1. ASSUME NEW what \in {"short", "whole"},
                 content' = [content EXCEPT ![s][<<"part", n[s]>>] = what],
                 UNCHANGED <<date, dir, touched>>
          PROVE  HostType'
      BY <3>1, NameType DEF TypeOK, HostType
    <3> QED
      BY <1>9, <3>1, SameHost DEF Write
  <2>2. \A what \in {"short", "whole"} : Verified(what) \in Asking
    BY DEF Verified, Asking, Uploading, Failing
  <2> QED
    BY <1>9, <2>1, <2>2, GoesToType, UnansweredType DEF Write
<1>10. ASSUME Rename(s) PROVE OK
  <2>1. HostType'
    <3>1. content[s][<<"part", n[s]>>] \in {"absent", "short", "whole"}
      BY NameType DEF TypeOK, HostType
    <3>2. ASSUME content' = [content EXCEPT
                               ![s][<<"file", n[s]>>] = content[s][<<"part", n[s]>>],
                               ![s][<<"part", n[s]>>] = "absent"],
                 touched' = [touched EXCEPT ![s] = now],
                 UNCHANGED <<date, dir>>
          PROVE  HostType'
      BY <3>1, <3>2, NameType DEF TypeOK, HostType
    <3> QED
      BY <1>10, <3>2, SameHost DEF Rename
  <2> QED
    BY <1>1, <1>10, <2>1, GoesToType, StagedType, UnansweredType DEF Rename
<1>11. ASSUME Clear(s) PROVE OK
  <2>1. CASE Unlink(s, <<"part", n[s]>>) /\ Starts(s, "discarding") /\ Kept
    BY <1>1, <1>2, <2>1, NameType, UnlinkType
  <2>2. CASE UNCHANGED host /\ Unanswered(s)
    BY <2>2, SameHost, UnansweredType
  <2> QED
    BY <1>11, <2>1, <2>2 DEF Clear
<1>12. ASSUME Refused(s) \/ Lost(s) PROVE OK
  <2>1. ASSUME Ends(s, "failed"), Kept PROVE SendsType'
    BY <1>1, <1>2, <2>1
  <2>2. ASSUME GoesTo(s, "clearing") \/ Unanswered(s) PROVE SendsType'
    BY <1>1, <2>2, GoesToType, UnansweredType
  <2>3. UNCHANGED host
    BY <1>12 DEF Refused, Lost
  <2> QED
    BY <1>12, <2>1, <2>2, <2>3, SameHost DEF Refused, Lost
<1>13. ASSUME Killed(s) PROVE OK
  <2>1. pc' \in [Senders -> {"idle"} \cup Asking \cup Over] /\ since' \in [Senders -> Nat]
    BY <1>1, <1>13, StartsType DEF Killed
  <2>2. SendsType'
    BY <1>13, <2>1, IndexFacts DEF Killed, TypeOK, SendsType
  <2> QED
    BY <1>13, <2>2, SameHost DEF Killed
<1>14. ASSUME NEW i \in Index, DiscardFile(s, i) PROVE OK
  <2>1. <<"file", i>> \in Names
    BY DEF Names
  <2>2. HostType'
    BY <1>14, <2>1, UnlinkType, SameHost DEF DiscardFile
  <2>3. pc' \in [Senders -> {"idle"} \cup Asking \cup Over] /\ since' \in [Senders -> Nat]
    BY <1>1, <1>14, StartsType DEF DiscardFile
  <2>4. SendsType'
    BY <1>14, <2>3 DEF DiscardFile, TypeOK, SendsType
  <2> QED
    BY <2>2, <2>4
<1>15. ASSUME DiscardBatch(s) PROVE OK
  <2>1. pc' \in [Senders -> {"idle"} \cup Asking \cup Over] /\ since' \in [Senders -> Nat]
    BY <1>1, <1>15, StartsType DEF DiscardBatch
  <2>2. SendsType'
    BY <1>15, <2>1 DEF DiscardBatch, TypeOK, SendsType
  <2> QED
    BY <1>15, <2>2, RemoveDirType, SameHost DEF DiscardBatch
<1>16. OK
  BY <1>3, <1>5, <1>6, <1>7, <1>8, <1>9, <1>10, <1>11, <1>12, <1>13, <1>14, <1>15 DEF Sending
<1> QED
  BY <1>16, SendingAlone DEF TypeOK, CleanupsType, cleanups

\* A cleanup changes the host and itself, and no send.
LEMMA CleaningAlone ==
  ASSUME NEW c \in Cleaners, Cleaning(c)
  PROVE  now' = now /\ UNCHANGED sends
BY DEF Cleaning, Begin, ListInbox, ListDate, NotListed, ListBatch, SkipBatch, RemoveName,
       LeaveBatch, RemoveBatch, Finish, FinishAnyway, CleanerStops

LEMMA RetiresType ==
  ASSUME TypeOK, NEW c \in Cleaners, Retires(c),
         dry' \in [Cleaners -> BOOLEAN], emptied' \in [Cleaners -> SUBSET Senders]
  PROVE  CleanupsType'
<1>1. /\ cpc' \in [Cleaners -> {"idle", "dates", "batches", "choosing", "removing", "ended"}]
      /\ cutoff' \in [Cleaners -> Int]
      /\ listed' \in [Cleaners -> SUBSET Senders]
      /\ todo' \in [Cleaners -> SUBSET Senders]
  BY DEF TypeOK, CleanupsType, Retires
<1>2. /\ batch' \in [Cleaners -> Senders \cup {None}]
      /\ names' \in [Cleaners -> SUBSET Names]
  BY DEF TypeOK, CleanupsType, Retires
<1>3. \A d \in Cleaners : cpc'[d] = "removing" => batch'[d] # None
  BY DEF TypeOK, CleanupsType, Retires
<1> QED
  BY <1>1, <1>2, <1>3 DEF CleanupsType

LEMMA CleaningType ==
  ASSUME TypeOK, NEW c \in Cleaners, Cleaning(c)
  PROVE  TypeOK'
<1> DEFINE OK == HostType' /\ CleanupsType'
<1>1. ASSUME Begin(c) PROVE OK
  <2>1. now + Ahead \in Int
    BY StagingAssumption DEF TypeOK
  <2> QED
    BY <1>1, <2>1, SameHost DEF Begin, TypeOK, CleanupsType
<1>2. ASSUME ListInbox(c) PROVE OK
  BY <1>2, SameHost DEF ListInbox, Move, TypeOK, CleanupsType
<1>3. ASSUME ListDate(c) PROVE OK
  BY <1>3, SameHost DEF ListDate, TypeOK, CleanupsType
<1>4. ASSUME NotListed(c) \/ FinishAnyway(c) PROVE OK
  BY <1>4, SameHost, RetiresType DEF NotListed, FinishAnyway, TypeOK, CleanupsType
<1>5. ASSUME Finish(c) PROVE OK
  <2>1. HostType'
    BY <1>5 DEF Finish, TypeOK, HostType
  <2> QED
    BY <1>5, <2>1, RetiresType DEF Finish, TypeOK, CleanupsType
<1>6. ASSUME CleanerStops(c) PROVE OK
  BY <1>6, SameHost, RetiresType DEF CleanerStops, TypeOK, CleanupsType
<1>7. ASSUME NEW s \in Senders, ListBatch(c, s) PROVE OK
  <2>1. Present(s) \subseteq Names /\ s # None
    BY StagingAssumption DEF Present
  <2> QED
    BY <1>7, <2>1, SameHost DEF ListBatch, Move, TypeOK, CleanupsType
<1>8. ASSUME NEW s \in Senders, SkipBatch(c, s) PROVE OK
  BY <1>8, SameHost DEF SkipBatch, TypeOK, CleanupsType
<1>9. ASSUME NEW name \in Names, RemoveName(c, name) PROVE OK
  <2>1. batch[c] \in Senders
    BY <1>9 DEF RemoveName, TypeOK, CleanupsType
  <2>2. HostType'
    BY <1>9, <2>1, UnlinkType, SameHost DEF RemoveName
  <2> QED
    BY <1>9, <2>2 DEF RemoveName, TypeOK, CleanupsType
<1>10. ASSUME LeaveBatch(c) PROVE OK
  BY <1>10, SameHost DEF LeaveBatch, NextBatch, Move, TypeOK, CleanupsType
<1>11. ASSUME RemoveBatch(c) PROVE OK
  <2>1. batch[c] \in Senders
    BY <1>11 DEF RemoveBatch, TypeOK, CleanupsType
  <2>2. HostType'
    BY <1>11, <2>1, RemoveDirType, SameHost DEF RemoveBatch, Gone
  <2> QED
    BY <1>11, <2>1, <2>2 DEF RemoveBatch, NextBatch, Move, TypeOK, CleanupsType
<1>12. OK
  BY <1>1, <1>2, <1>3, <1>4, <1>5, <1>6, <1>7, <1>8, <1>9, <1>10, <1>11 DEF Cleaning
<1> QED
  BY <1>12, CleaningAlone DEF TypeOK, SendsType, sends

LEMMA TypeInit == Init => TypeOK
BY IndexFacts DEF Init, TypeOK, HostType, SendsType, CleanupsType

\* Whoever takes a step, every variable keeps its type.
LEMMA TypeStep == TypeOK /\ [Next]_vars => TypeOK'
<1> SUFFICES ASSUME TypeOK, [Next]_vars PROVE TypeOK'
  OBVIOUS
<1> USE DEF TypeOK, HostType, SendsType, CleanupsType, host, sends, cleanups
<1>1. CASE Tick
  BY <1>1 DEF Tick
<1>2. CASE UNCHANGED vars
  BY <1>2 DEF vars
<1> QED
  BY <1>1, <1>2, SendingType, CleaningType DEF Next

\* Every reachable state is well typed: n never runs past the last file, and a
\* cleanup that removes names has a batch to remove them from.
THEOREM TypeCorrect == Spec => []TypeOK
<1>1. TypeOK /\ [Next]_vars => TypeOK'
  BY TypeStep
<1> QED
  BY TypeInit, <1>1, PTL DEF Spec

------------------------------------------------------------------------------
(* What one request can change *)

LEMMA PutFacts ==
  ASSUME TypeOK, NEW s \in Senders, NEW name \in Names,
         NEW what \in {"absent", "short", "whole"}, Put(s, name, what)
  PROVE  /\ \A m \in Names : content'[s][m] = IF m = name THEN what ELSE content[s][m]
         /\ touched'[s] = now
         /\ dir' = dir
         /\ \A t \in Senders \ {s} : content'[t] = content[t] /\ touched'[t] = touched[t]
BY DEF Put, TypeOK, HostType

LEMMA UnlinkFacts ==
  ASSUME TypeOK, NEW s \in Senders, NEW name \in Names, Unlink(s, name)
  PROVE  /\ \A m \in Names : content'[s][m] = IF m = name THEN "absent" ELSE content[s][m]
         /\ touched'[s] \in {now, touched[s]}
         /\ dir' = dir
         /\ \A t \in Senders \ {s} : content'[t] = content[t] /\ touched'[t] = touched[t]
<1>1. CASE name \in Present(s)
  BY <1>1, PutFacts DEF Unlink
<1>2. CASE name \notin Present(s)
  <2>1. content[s][name] = "absent" /\ UNCHANGED host
    BY <1>2 DEF Unlink, Present
  <2> QED
    BY <2>1 DEF host
<1> QED
  BY <1>1, <1>2

LEMMA RemoveDirFacts ==
  ASSUME TypeOK, NEW s \in Senders, RemoveDir(s)
  PROVE  /\ content' = content
         /\ Present(s) = {} => ~dir'[s]
         /\ Present(s) # {} => dir'[s] = dir[s] /\ touched'[s] = touched[s]
         /\ dir'[s] => dir[s] /\ touched'[s] = touched[s]
         /\ \A t \in Senders \ {s} : dir'[t] = dir[t] /\ touched'[t] = touched[t]
<1>1. CASE Present(s) = {}
  <2>1. dir' = [dir EXCEPT ![s] = FALSE] /\ touched' = [touched EXCEPT ![s] = 0]
    BY <1>1, Zenon DEF RemoveDir
  <2> QED
    BY <1>1, <2>1 DEF TypeOK, HostType, RemoveDir
<1>2. CASE Present(s) # {}
  BY <1>2 DEF RemoveDir
<1> QED
  BY <1>1, <1>2

\* The batch of t, and all that t knows, is as it was.
Untouched(t) ==
  /\ dir'[t] = dir[t] /\ touched'[t] = touched[t] /\ content'[t] = content[t]
  /\ pc'[t] = pc[t] /\ n'[t] = n[t] /\ staged'[t] = staged[t]
  /\ since'[t] = since[t] /\ harmed'[t] = harmed[t]

LEMMA MovesFacts ==
  ASSUME TypeOK, NEW s \in Senders
  PROVE  /\ \A place : Starts(s, place) =>
              /\ pc'[s] = place /\ since'[s] = now
              /\ \A t \in Senders \ {s} : pc'[t] = pc[t] /\ since'[t] = since[t]
         /\ \A place : Ends(s, place) =>
              /\ pc'[s] = place
              /\ \A t \in Senders \ {s} : pc'[t] = pc[t] /\ since'[t] = since[t]
         /\ \A place : GoesTo(s, place) =>
              /\ pc'[s] = place
              /\ \A t \in Senders \ {s} : pc'[t] = pc[t]
              /\ n' = n /\ staged' = staged /\ since' = since /\ harmed' = harmed
         /\ Unanswered(s) =>
              /\ pc'[s] = IF pc[s] \in Creating THEN "failed" ELSE "discarding"
              /\ pc'[s] = "discarding" => since'[s] = now
              /\ harmed'[s]
              /\ \A t \in Senders \ {s} :
                   pc'[t] = pc[t] /\ since'[t] = since[t] /\ harmed'[t] = harmed[t]
              /\ n' = n /\ staged' = staged
<1> USE DEF TypeOK, SendsType
<1>1. ASSUME NEW place, Starts(s, place)
      PROVE  /\ pc'[s] = place /\ since'[s] = now
             /\ \A t \in Senders \ {s} : pc'[t] = pc[t] /\ since'[t] = since[t]
  BY <1>1 DEF Starts
<1>2. ASSUME NEW place, Ends(s, place)
      PROVE  /\ pc'[s] = place
             /\ \A t \in Senders \ {s} : pc'[t] = pc[t] /\ since'[t] = since[t]
  BY <1>2 DEF Ends
<1>3. ASSUME NEW place, GoesTo(s, place)
      PROVE  /\ pc'[s] = place
             /\ \A t \in Senders \ {s} : pc'[t] = pc[t]
             /\ n' = n /\ staged' = staged /\ since' = since /\ harmed' = harmed
  BY <1>3 DEF GoesTo
<1>4. ASSUME Unanswered(s)
      PROVE  /\ pc'[s] = IF pc[s] \in Creating THEN "failed" ELSE "discarding"
             /\ pc'[s] = "discarding" => since'[s] = now
             /\ harmed'[s]
             /\ \A t \in Senders \ {s} :
                  pc'[t] = pc[t] /\ since'[t] = since[t] /\ harmed'[t] = harmed[t]
             /\ n' = n /\ staged' = staged
  <2>1. \A t \in Senders \ {s} : harmed'[t] = harmed[t]
    BY <1>4 DEF Unanswered
  <2>2. harmed'[s] /\ n' = n /\ staged' = staged
    BY <1>4 DEF Unanswered
  <2>3. CASE pc[s] \in Creating
    BY <1>2, <1>4, <2>1, <2>2, <2>3 DEF Unanswered
  <2>4. CASE pc[s] \notin Creating
    BY <1>1, <1>4, <2>1, <2>2, <2>4 DEF Unanswered
  <2> QED
    BY <2>3, <2>4
<1> QED
  BY <1>1, <1>2, <1>3, <1>4

\* The rename's answer: on to the next file, or done.
LEMMA StagedFacts ==
  ASSUME TypeOK, NEW s \in Senders, Staged(s)
  PROVE  /\ staged'[s] = staged[s] \cup {n[s]}
         /\ n[s] = Files => pc'[s] = "sent" /\ n'[s] = n[s]
         /\ n[s] # Files => pc'[s] = "opening" /\ n'[s] = n[s] + 1
         /\ since'[s] = now /\ harmed' = harmed
         /\ \A t \in Senders \ {s} : /\ pc'[t] = pc[t] /\ since'[t] = since[t]
                                     /\ n'[t] = n[t] /\ staged'[t] = staged[t]
<1>1. pc'[s] \in {"sent", "opening"} => since'[s] = now
  BY MovesFacts DEF Staged
<1> QED
  BY <1>1, MovesFacts DEF Staged, TypeOK, SendsType

\* A send touches no batch but its own, and a send that is over does nothing.
LEMMA SendingFrame ==
  ASSUME TypeOK, NEW s \in Senders, Sending(s)
  PROVE  /\ pc[s] \notin Over
         /\ \A t \in Senders \ {s} : Untouched(t)
<1> USE DEF Untouched
<1> DEFINE Frame == \A t \in Senders \ {s} : Untouched(t)
           Host == \A t \in Senders \ {s} :
                     dir'[t] = dir[t] /\ touched'[t] = touched[t] /\ content'[t] = content[t]
           Self == \A t \in Senders \ {s} :
                     /\ pc'[t] = pc[t] /\ n'[t] = n[t] /\ staged'[t] = staged[t]
                     /\ since'[t] = since[t] /\ harmed'[t] = harmed[t]
<1>1. pc[s] \notin Over
  BY DEF Sending, StartSend, OverLimit, CreateBatch, CreateDate, CreateAgain, Open, Write,
         Rename, Clear, Refused, Lost, Killed, DiscardFile, DiscardBatch, Over, Asking,
         Creating, Uploading, Failing
<1>2. ASSUME UNCHANGED host PROVE Host
  BY <1>2 DEF host
<1>3. ASSUME MakeBatch(s) PROVE Host
  BY <1>3 DEF MakeBatch, TypeOK, HostType
<1>4. ASSUME NEW place, GoesTo(s, place) \/ Unanswered(s) PROVE Self
  BY <1>4, MovesFacts
<1>5. ASSUME NEW place, Starts(s, place) \/ Ends(s, place), UNCHANGED <<n, staged, harmed>>
      PROVE  Self
  BY <1>5, MovesFacts
<1>6. ASSUME StartSend(s) \/ OverLimit(s) PROVE Frame
  BY <1>2, <1>5, <1>6 DEF StartSend, OverLimit
<1>7. ASSUME CreateBatch(s) \/ CreateDate(s) \/ CreateAgain(s) PROVE Frame
  <2>1. Host
    BY <1>2, <1>3, <1>7 DEF CreateBatch, CreateDate, CreateAgain
  <2>2. Self
    BY <1>4, <1>5, <1>7 DEF CreateBatch, CreateDate, CreateAgain, Uploads
  <2> QED
    BY <2>1, <2>2
<1>8. ASSUME Open(s) PROVE Frame
  <2>1. Host
    BY <1>2, <1>8, PutFacts, NameType DEF Open
  <2> QED
    BY <1>4, <1>8, <2>1 DEF Open
<1>9. ASSUME Write(s) PROVE Frame
  <2>1. Host
    BY <1>2, <1>9 DEF Write, TypeOK, HostType
  <2> QED
    BY <1>4, <1>9, <2>1 DEF Write
<1>10. ASSUME Rename(s) PROVE Frame
  <2>1. Host
    BY <1>2, <1>10 DEF Rename, TypeOK, HostType
  <2>2. ASSUME Staged(s) PROVE Self
    BY <2>2, StagedFacts
  <2> QED
    BY <1>4, <1>10, <2>1, <2>2 DEF Rename
<1>11. ASSUME Clear(s) PROVE Frame
  <2>1. Host
    BY <1>2, <1>11, UnlinkFacts, NameType DEF Clear
  <2> QED
    BY <1>4, <1>5, <1>11, <2>1 DEF Clear
<1>12. ASSUME Refused(s) \/ Lost(s) PROVE Frame
  BY <1>2, <1>4, <1>5, <1>12 DEF Refused, Lost
<1>13. ASSUME Killed(s) PROVE Frame
  <2>1. \A t \in Senders \ {s} : pc'[t] = pc[t] /\ since'[t] = since[t]
    BY <1>13, MovesFacts DEF Killed
  <2> QED
    BY <1>2, <1>13, <2>1 DEF Killed, TypeOK, SendsType
<1>14. ASSUME NEW i \in Index, DiscardFile(s, i) PROVE Frame
  <2>1. <<"file", i>> \in Names
    BY DEF Names
  <2>2. Host
    BY <1>2, <1>14, <2>1, UnlinkFacts DEF DiscardFile
  <2>3. \A t \in Senders \ {s} : pc'[t] = pc[t] /\ since'[t] = since[t]
    BY <1>14, MovesFacts DEF DiscardFile
  <2> QED
    BY <1>14, <2>2, <2>3 DEF DiscardFile, TypeOK, SendsType
<1>15. ASSUME DiscardBatch(s) PROVE Frame
  <2>1. Host
    BY <1>2, <1>15, RemoveDirFacts DEF DiscardBatch
  <2>2. \A t \in Senders \ {s} : pc'[t] = pc[t] /\ since'[t] = since[t]
    BY <1>15, MovesFacts DEF DiscardBatch
  <2> QED
    BY <1>15, <2>1, <2>2 DEF DiscardBatch, TypeOK, SendsType
<1> QED
  BY <1>1, <1>6, <1>7, <1>8, <1>9, <1>10, <1>11, <1>12, <1>13, <1>14, <1>15 DEF Sending

\* What holds of an untouched batch keeps holding.
LEMMA UntouchedOK ==
  ASSUME NEW t \in Senders, SendOK(t), Untouched(t), now' = now
  PROVE  SendOK(t)'
BY DEF SendOK, Untouched, Tidy, Present, Placed

------------------------------------------------------------------------------
(* A send's own batch *)

\* Every request of a send, however it is answered, leaves the send knowing
\* what it has on the host, or knowing that it does not.
LEMMA SendKeeps ==
  ASSUME TypeOK, TypeOK', NEW s \in Senders, SendOK(s), Sending(s)
  PROVE  SendOK(s)'
<1> USE DEF SendOK, Asking, Creating, Uploading, Failing, Before
<1>0. /\ now' = now /\ now \in Nat
      /\ n[s] \in Index /\ n[s] \in Nat /\ n[s] >= 1 /\ n[s] <= Files
      /\ <<"part", n[s]>> \in Names /\ <<"file", n[s]>> \in Names
      /\ since[s] \in Nat /\ touched[s] \in Nat /\ staged[s] \subseteq Index
      /\ Deadline \in Nat
  BY SendingAlone, NameType, IndexFacts, StagingAssumption DEF TypeOK, SendsType, HostType
<1>1. ASSUME StartSend(s) \/ OverLimit(s) PROVE SendOK(s)'
  <2>1. /\ UNCHANGED <<n, staged, harmed>> /\ UNCHANGED host
        /\ pc'[s] \in {"creating", "failed"}
        /\ pc'[s] = "creating" => since'[s] = now
    BY <1>1, MovesFacts DEF StartSend, OverLimit
  <2>2. pc[s] = "idle"
    BY <1>1 DEF StartSend, OverLimit
  <2> QED
    BY <1>0, <2>1, <2>2 DEF host, Tidy, Present, Placed
<1>2. ASSUME MakeBatch(s), Uploads(s) \/ Unanswered(s), pc[s] \in Creating PROVE SendOK(s)'
  <2>1. dir'[s] /\ touched'[s] = now /\ content' = content
    BY <1>2 DEF MakeBatch, TypeOK, HostType
  <2>2. n' = n /\ staged' = staged
    BY <1>2, MovesFacts DEF Uploads
  <2>3. \/ pc'[s] = "opening" /\ since'[s] = now
        \/ pc'[s] = "failed" /\ harmed'[s]
    BY <1>2, MovesFacts DEF Uploads
  <2>4. Present(s) = {} /\ n[s] = 1 /\ staged[s] = {}
    BY <1>2
  <2> QED
    BY <1>0, <2>1, <2>2, <2>3, <2>4 DEF Tidy, Present, Placed
<1>3. ASSUME CreateBatch(s) PROVE SendOK(s)'
  <2>1. ASSUME UNCHANGED host, GoesTo(s, "dating") PROVE SendOK(s)'
    BY <1>0, <1>3, <2>1, MovesFacts DEF CreateBatch, host, Tidy, Present, Placed
  <2> QED
    BY <1>2, <1>3, <2>1 DEF CreateBatch
<1>4. ASSUME CreateDate(s) PROVE SendOK(s)'
  <2>1. UNCHANGED <<dir, touched, content>> /\ pc[s] = "dating"
    BY <1>4 DEF CreateDate
  <2>2. ASSUME GoesTo(s, "retrying") PROVE SendOK(s)'
    BY <1>0, <2>1, <2>2, MovesFacts DEF Tidy, Present, Placed
  <2>3. ASSUME Unanswered(s) PROVE SendOK(s)'
    BY <1>0, <2>1, <2>3, MovesFacts DEF Tidy, Present, Placed
  <2> QED
    BY <1>4, <2>2, <2>3 DEF CreateDate
<1>5. ASSUME CreateAgain(s) PROVE SendOK(s)'
  <2>1. ASSUME UNCHANGED <<host, n, staged, harmed>>, Ends(s, "failed") PROVE SendOK(s)'
    BY <1>0, <1>5, <2>1, MovesFacts DEF CreateAgain, host, Tidy, Present, Placed
  <2> QED
    BY <1>2, <1>5, <2>1 DEF CreateAgain
\* A request that goes unanswered after the batch was made, whatever it did to
\* the host: the promises that are left are few.
<1>6. ASSUME Unanswered(s), pc[s] \notin Before,
             ~dir'[s] => Present(s)' = {},
             \A i \in Index : content'[s][<<"file", i>>] # "short"
      PROVE  SendOK(s)'
  <2>1. pc'[s] = "discarding" /\ since'[s] = now /\ harmed'[s]
    BY <1>6, MovesFacts
  <2> QED
    BY <1>0, <1>6, <2>1 DEF Tidy
<1>7. ASSUME Open(s) PROVE SendOK(s)'
  <2>1. CASE ~dir[s]
    <3>1. UNCHANGED host /\ GoesTo(s, "clearing")
      BY <1>7, <2>1 DEF Open
    <3> QED
      BY <1>0, <1>7, <3>1, MovesFacts DEF Open, host, Tidy, Present, Placed
  <2>2. CASE dir[s]
    <3>1. /\ \A m \in Names : content'[s][m] = IF m = <<"part", n[s]>> THEN "short"
                                               ELSE content[s][m]
          /\ touched'[s] = now
          /\ dir'[s]
      BY <1>0, <1>7, <2>2, PutFacts DEF Open
    <3>2. \A i \in Index : <<"file", i>> \in Names /\ <<"file", i>> # <<"part", n[s]>>
      BY DEF Names
    <3>3. \A i \in Index : content'[s][<<"file", i>>] # "short"
      BY <3>1, <3>2
    <3>4. Present(s)' \subseteq Present(s) \cup {<<"part", n[s]>>}
      BY <3>1 DEF Present
    <3>5. ASSUME GoesTo(s, "writing") PROVE SendOK(s)'
      BY <1>0, <1>7, <3>1, <3>3, <3>4, <3>5, MovesFacts DEF Open, Tidy, Placed
    <3> QED
      BY <1>6, <1>7, <2>2, <3>1, <3>3, <3>5 DEF Open
  <2> QED
    BY <2>1, <2>2
<1>8. ASSUME Write(s) PROVE SendOK(s)'
  <2>1. PICK what \in {"short", "whole"} :
          /\ IF <<"part", n[s]>> \in Present(s)
               THEN /\ content' = [content EXCEPT ![s][<<"part", n[s]>>] = what]
                    /\ UNCHANGED <<date, dir, touched>>
               ELSE UNCHANGED host
          /\ GoesTo(s, Verified(what)) \/ Unanswered(s)
    BY <1>8 DEF Write
  <2>2. /\ dir' = dir /\ touched' = touched
        /\ \A m \in Names \ {<<"part", n[s]>>} : content'[s][m] = content[s][m]
        /\ content'[s][<<"part", n[s]>>] \in {what, "absent"}
        /\ Present(s)' = Present(s)
    <3>1. CASE <<"part", n[s]>> \in Present(s)
      <4>1. content' = [content EXCEPT ![s][<<"part", n[s]>>] = what] /\ UNCHANGED <<dir, touched>>
        BY <2>1, <3>1
      <4>2. \A m \in Names : content'[s][m] = IF m = <<"part", n[s]>> THEN what ELSE content[s][m]
        BY <1>0, <4>1 DEF TypeOK, HostType
      <4>3. Present(s)' = Present(s)
        BY <3>1, <4>2 DEF Present
      <4> QED
        BY <1>0, <4>1, <4>2, <4>3
    <3>2. CASE <<"part", n[s]>> \notin Present(s)
      BY <1>0, <2>1, <3>2 DEF Present, host
    <3> QED
      BY <3>1, <3>2
  <2>3. \A i \in Index : <<"file", i>> \in Names /\ <<"file", i>> # <<"part", n[s]>>
    BY DEF Names
  <2>4. \A i \in Index : content'[s][<<"file", i>>] # "short"
    BY <2>2, <2>3
  <2>5. ASSUME GoesTo(s, Verified(what)) PROVE SendOK(s)'
    <3>1. /\ pc'[s] = IF what = "whole" THEN "renaming" ELSE "clearing"
          /\ n' = n /\ staged' = staged /\ since' = since /\ harmed' = harmed
      BY <2>5, MovesFacts DEF Verified
    <3> QED
      BY <1>0, <1>8, <2>2, <2>4, <3>1 DEF Write, Tidy, Placed
  <2> QED
    BY <1>6, <1>8, <2>1, <2>2, <2>4, <2>5 DEF Write
<1>9. ASSUME Rename(s) PROVE SendOK(s)'
  <2>1. CASE <<"part", n[s]>> \notin Present(s)
    <3>1. UNCHANGED host /\ GoesTo(s, "clearing")
      BY <1>9, <2>1 DEF Rename
    <3> QED
      BY <1>0, <1>9, <3>1, MovesFacts DEF Rename, host, Tidy, Present, Placed
  <2>2. CASE <<"part", n[s]>> \in Present(s)
    <3>1. /\ content' = [content EXCEPT ![s][<<"file", n[s]>>] = content[s][<<"part", n[s]>>],
                                        ![s][<<"part", n[s]>>] = "absent"]
          /\ touched' = [touched EXCEPT ![s] = now]
          /\ UNCHANGED <<date, dir>>
          /\ Staged(s) \/ Unanswered(s)
      BY <1>9, <2>2 DEF Rename
    <3>2. <<"file", n[s]>> # <<"part", n[s]>>
      OBVIOUS
    <3>3. /\ content'[s][<<"file", n[s]>>] = content[s][<<"part", n[s]>>]
          /\ content'[s][<<"part", n[s]>>] = "absent"
          /\ \A m \in Names \ {<<"file", n[s]>>, <<"part", n[s]>>} :
               content'[s][m] = content[s][m]
          /\ touched'[s] = now
          /\ dir'[s] = dir[s] /\ dir[s]
      BY <1>0, <2>2, <3>1, <3>2 DEF TypeOK, HostType
    <3>4. \A i \in Index : <<"file", i>> \in Names /\ <<"file", i>> # <<"part", n[s]>>
      BY DEF Names
    <3>5. \A i \in Index : content'[s][<<"file", i>>] # "short"
      BY <1>0, <1>9, <3>3, <3>4 DEF Rename
    <3>6. Present(s)' \subseteq (Present(s) \cup {<<"file", n[s]>>}) \ {<<"part", n[s]>>}
      BY <3>3 DEF Present
    <3>7. ASSUME Staged(s) PROVE SendOK(s)'
      <4>1. /\ staged'[s] = staged[s] \cup {n[s]}
            /\ n[s] = Files => pc'[s] = "sent" /\ n'[s] = n[s]
            /\ n[s] # Files => pc'[s] = "opening" /\ n'[s] = n[s] + 1
            /\ since'[s] = now /\ harmed' = harmed
        BY <3>7, StagedFacts
      <4>2. staged[s] = 1..(n[s] - 1)
        BY <1>9 DEF Rename
      <4>3. n[s] = Files => staged'[s] = Index
        BY <1>0, <4>1, <4>2, StagingAssumption DEF Index
      <4>4. n[s] # Files => staged'[s] = 1..(n'[s] - 1)
        BY <1>0, <4>1, <4>2
      <4>5. ~harmed[s] => Present(s)' \subseteq Placed(s)'
        <5>1. ~harmed[s] => Present(s) \subseteq Placed(s) \cup {<<"part", n[s]>>}
          BY <1>9 DEF Rename, Tidy
        <5>2. Placed(s) \cup {<<"file", n[s]>>} \subseteq Placed(s)'
          BY <4>1 DEF Placed
        <5> QED
          BY <3>6, <5>1, <5>2
      <4> QED
        BY <1>0, <3>3, <3>5, <4>1, <4>3, <4>4, <4>5 DEF Tidy
    <3> QED
      BY <1>6, <1>9, <3>1, <3>3, <3>5, <3>7 DEF Rename
  <2> QED
    BY <2>1, <2>2
<1>10. ASSUME Clear(s) PROVE SendOK(s)'
  <2>1. ASSUME UNCHANGED host, Unanswered(s) PROVE SendOK(s)'
    BY <1>6, <1>10, <2>1 DEF Clear, host, Present
  <2>2. ASSUME Unlink(s, <<"part", n[s]>>), Starts(s, "discarding"), UNCHANGED <<n, staged, harmed>>
        PROVE  SendOK(s)'
    <3>1. /\ \A m \in Names : content'[s][m] = IF m = <<"part", n[s]>> THEN "absent"
                                               ELSE content[s][m]
          /\ dir' = dir
      BY <1>0, <2>2, UnlinkFacts
    <3>2. Present(s)' = Present(s) \ {<<"part", n[s]>>}
      BY <3>1 DEF Present
    <3>3. \A i \in Index : <<"file", i>> \in Names
      BY DEF Names
    <3>4. \A i \in Index : content'[s][<<"file", i>>] # "short"
      BY <3>1, <3>3
    <3>5. pc'[s] = "discarding" /\ since'[s] = now /\ pc[s] = "clearing"
      BY <1>10, <2>2, MovesFacts DEF Clear
    <3> QED
      BY <1>0, <2>2, <3>1, <3>2, <3>4, <3>5 DEF Tidy, Placed
  <2> QED
    BY <1>10, <2>1, <2>2 DEF Clear
<1>11. ASSUME Refused(s) \/ Lost(s) PROVE SendOK(s)'
  <2>1. UNCHANGED host /\ pc[s] \in Creating \cup Uploading \cup {"clearing"}
    BY <1>11 DEF Refused, Lost
  <2>2. ASSUME Ends(s, "failed"), pc[s] \in Creating, UNCHANGED <<n, staged, harmed>>
        PROVE  SendOK(s)'
    BY <1>0, <2>1, <2>2, MovesFacts DEF host, Tidy, Present, Placed
  <2>3. ASSUME GoesTo(s, "clearing"), pc[s] \in Uploading PROVE SendOK(s)'
    BY <1>0, <2>1, <2>3, MovesFacts DEF host, Tidy, Present, Placed
  <2>4. ASSUME Unanswered(s), pc[s] \in Creating PROVE SendOK(s)'
    BY <1>0, <2>1, <2>4, MovesFacts DEF host, Tidy, Present, Placed
  <2>5. ASSUME Unanswered(s), pc[s] \notin Before PROVE SendOK(s)'
    BY <1>6, <2>1, <2>5 DEF host, Present
  <2> QED
    BY <1>11, <2>2, <2>3, <2>4, <2>5 DEF Refused, Lost
<1>12. ASSUME Killed(s) PROVE SendOK(s)'
  <2>1. UNCHANGED host /\ pc'[s] = "dead"
    BY <1>12, MovesFacts DEF Killed
  <2> QED
    BY <1>0, <2>1 DEF host, Tidy, Present, Placed
<1>13. ASSUME NEW i \in Index, DiscardFile(s, i) PROVE SendOK(s)'
  <2>1. /\ pc[s] = "discarding" /\ pc'[s] = "discarding" /\ since'[s] = now
        /\ staged'[s] = staged[s] \ {i}
        /\ harmed'[s] \/ (Unlink(s, <<"file", i>>) /\ harmed' = harmed)
        /\ UNCHANGED host \/ Unlink(s, <<"file", i>>)
    <3>1. pc[s] = "discarding" /\ pc'[s] = "discarding" /\ since'[s] = now
      BY <1>13, MovesFacts DEF DiscardFile
    <3>2. staged'[s] = staged[s] \ {i}
      BY <1>13 DEF DiscardFile, TypeOK, SendsType
    <3>3. \/ Unlink(s, <<"file", i>>) /\ harmed' = harmed
          \/ UNCHANGED host /\ harmed' = [harmed EXCEPT ![s] = TRUE]
      BY <1>13 DEF DiscardFile
    <3>4. harmed' = [harmed EXCEPT ![s] = TRUE] => harmed'[s]
      BY DEF TypeOK, SendsType
    <3> QED
      BY <3>1, <3>2, <3>3, <3>4, Zenon
  <2>2. \A j \in Index : <<"file", j>> \in Names
    BY DEF Names
  <2>3. /\ dir' = dir
        /\ \A j \in Index : content'[s][<<"file", j>>] # "short"
        /\ Present(s)' \subseteq Present(s)
        /\ Unlink(s, <<"file", i>>) => <<"file", i>> \notin Present(s)'
    <3>1. CASE UNCHANGED host
      BY <2>2, <3>1, UnlinkFacts DEF host, Present
    <3>2. ASSUME Unlink(s, <<"file", i>>)
          PROVE  /\ dir' = dir
                 /\ \A m \in Names : content'[s][m] = IF m = <<"file", i>> THEN "absent"
                                                      ELSE content[s][m]
      BY <2>2, <3>2, UnlinkFacts
    <3>3. CASE Unlink(s, <<"file", i>>)
      BY <2>2, <3>2, <3>3 DEF Present
    <3> QED
      BY <2>1, <3>1, <3>3
  <2> QED
    BY <1>0, <2>1, <2>3 DEF Tidy, Placed
<1>14. ASSUME DiscardBatch(s) PROVE SendOK(s)'
  <2>1. pc[s] = "discarding" /\ staged[s] = {} /\ pc'[s] = "failed"
    BY <1>14, MovesFacts DEF DiscardBatch
  <2>2. content' = content /\ (RemoveDir(s) \/ UNCHANGED host)
    BY <1>14, RemoveDirFacts DEF DiscardBatch, host
  <2>3. ~dir'[s] => Present(s)' = {}
    BY <2>2, RemoveDirFacts DEF host, Present
  <2>4. ~harmed'[s] => RemoveDir(s) /\ ~harmed[s]
    BY <1>14 DEF DiscardBatch, TypeOK, SendsType
  <2>5. ~harmed'[s] => ~dir'[s]
    BY <2>1, <2>4, RemoveDirFacts DEF Tidy, Placed
  <2> QED
    BY <2>1, <2>2, <2>3, <2>5 DEF Tidy
<1> QED
  BY <1>1, <1>3, <1>4, <1>5, <1>7, <1>8, <1>9, <1>10, <1>11, <1>12, <1>13, <1>14 DEF Sending

------------------------------------------------------------------------------
(* What a cleanup can change *)

\* Less of the batch of t is there than before, if anything has changed.
Lessened(t) ==
  /\ \A m \in Names : content'[t][m] \in {content[t][m], "absent"}
  /\ dir'[t] => dir[t] /\ touched'[t] \in {touched[t], now}
  /\ dir[t] /\ ~dir'[t] => Present(t) = {}

\* What another cleanup knows is as it was.
Undistracted(d) ==
  /\ cpc'[d] = cpc[d] /\ dry'[d] = dry[d] /\ cutoff'[d] = cutoff[d]
  /\ todo'[d] = todo[d] /\ emptied'[d] = emptied[d] /\ batch'[d] = batch[d]

\* A cleanup only takes away, and only from the batch it has in hand.
LEMMA CleaningTakes ==
  ASSUME TypeOK, NEW c \in Cleaners, Cleaning(c), NEW t \in Senders
  PROVE  /\ Lessened(t)
         /\ batch[c] # t => dir'[t] = dir[t] /\ content'[t] = content[t]
<1> DEFINE Goal == /\ Lessened(t)
                   /\ batch[c] # t => dir'[t] = dir[t] /\ content'[t] = content[t]
<1>0. touched[t] \in Nat /\ now \in Nat
  BY DEF TypeOK, HostType
<1>1. ASSUME UNCHANGED <<dir, touched, content>> PROVE Goal
  BY <1>0, <1>1 DEF Lessened
<1>2. ASSUME NEW name \in Names, RemoveName(c, name) PROVE Goal
  <2>1. batch[c] \in Senders
    BY <1>2 DEF RemoveName, TypeOK, CleanupsType
  <2>2. CASE UNCHANGED host
    BY <1>1, <2>2 DEF host
  <2>3. CASE Unlink(batch[c], name)
    BY <1>0, <2>1, <2>3, UnlinkFacts DEF Lessened
  <2> QED
    BY <1>2, <2>2, <2>3 DEF RemoveName
<1>3. ASSUME RemoveBatch(c) PROVE Goal
  <2>1. batch[c] \in Senders
    BY <1>3 DEF RemoveBatch, TypeOK, CleanupsType
  <2>2. CASE UNCHANGED host
    BY <1>1, <2>2 DEF host
  <2>3. CASE RemoveDir(batch[c])
    BY <1>0, <2>1, <2>3, RemoveDirFacts DEF Lessened
  <2> QED
    BY <1>3, <2>2, <2>3 DEF RemoveBatch, Gone
<1> QED
  BY <1>1, <1>2, <1>3 DEF Cleaning, Begin, ListInbox, ListDate, NotListed, ListBatch,
     SkipBatch, LeaveBatch, Finish, FinishAnyway, CleanerStops, host

LEMMA CleaningLeavesOthers ==
  ASSUME TypeOK, NEW c \in Cleaners, Cleaning(c), NEW d \in Cleaners \ {c}
  PROVE  Undistracted(d)
BY DEF TypeOK, CleanupsType, Undistracted, Cleaning, Begin, ListInbox, ListDate, NotListed,
   ListBatch, SkipBatch, RemoveName, LeaveBatch, RemoveBatch, Finish, FinishAnyway,
   CleanerStops, Retires, Move, NextBatch

\* A batch of which less is left is no less what its send believes it to be.
LEMMA LessenedOK ==
  ASSUME TypeOK, TypeOK', NEW t \in Senders, SendOK(t), Lessened(t), UNCHANGED sends, now' = now
  PROVE  SendOK(t)'
<1> USE DEF SendOK, sends
<1>1. \A i \in Index : <<"file", i>> \in Names
  BY DEF Names
<1>2. <<"part", n[t]>> \in Names
  BY NameType
<1>3. Present(t)' \subseteq Present(t)
  BY DEF Lessened, Present
<1>4. ~dir'[t] => Present(t)' = {}
  BY <1>3 DEF Lessened
<1>5. ~dir[t] => ~dir'[t]
  BY DEF Lessened
<1>6. Tidy(t)'
  BY <1>3, <1>5 DEF Tidy, Placed
<1>7. pc[t] \in Asking \cup {"sent"} => since[t] <= now
  OBVIOUS
<1>8. pc[t] \in Uploading \cup {"sent"} /\ dir'[t] => since[t] <= touched'[t]
  BY <1>7 DEF Lessened, Asking
<1> QED
  BY <1>1, <1>2, <1>4, <1>5, <1>6, <1>8 DEF Lessened

------------------------------------------------------------------------------
(* What a cleanup holds of the batches *)

\* A send that has made its directory does not make it again.
LEMMA SendingOnward ==
  ASSUME TypeOK, NEW s \in Senders, Sending(s), pc[s] \notin Before
  PROVE  /\ pc'[s] \notin Before
         /\ dir'[s] => dir[s]
<1> USE DEF Before, Creating
<1> DEFINE Goal == pc'[s] \notin Before /\ (dir'[s] => dir[s])
<1>1. ASSUME Open(s) PROVE Goal
  BY <1>1, NameType, PutFacts, MovesFacts DEF Open, host
<1>2. ASSUME Write(s) PROVE Goal
  BY <1>2, MovesFacts DEF Write, Verified, host
<1>3. ASSUME Rename(s) PROVE Goal
  BY <1>3, MovesFacts, StagedFacts DEF Rename, host
<1>4. ASSUME Clear(s) PROVE Goal
  <2>1. pc'[s] = "discarding"
    BY <1>4, MovesFacts DEF Clear
  <2>2. dir' = dir
    BY <1>4, NameType, UnlinkFacts DEF Clear, host
  <2> QED
    BY <2>1, <2>2
<1>5. ASSUME Refused(s) \/ Lost(s) PROVE Goal
  <2>1. GoesTo(s, "clearing") \/ Unanswered(s)
    BY <1>5 DEF Refused, Lost
  <2>2. pc'[s] \in {"clearing", "discarding"}
    BY <2>1, MovesFacts
  <2> QED
    BY <1>5, <2>2 DEF Refused, Lost, host
<1>6. ASSUME Killed(s) PROVE Goal
  <2>1. Ends(s, "dead") /\ UNCHANGED host
    BY <1>6 DEF Killed
  <2> QED
    BY <2>1, MovesFacts DEF host
<1>7. ASSUME NEW i \in Index, DiscardFile(s, i) PROVE Goal
  <2>1. <<"file", i>> \in Names
    BY DEF Names
  <2> QED
    BY <1>7, <2>1, UnlinkFacts, MovesFacts DEF DiscardFile, host
<1>8. ASSUME DiscardBatch(s) PROVE Goal
  BY <1>8, RemoveDirFacts, MovesFacts DEF DiscardBatch, host
<1> QED
  BY <1>1, <1>2, <1>3, <1>4, <1>5, <1>6, <1>7, <1>8
  DEF Sending, StartSend, OverLimit, CreateBatch, CreateDate, CreateAgain

LEMMA CleanKeptBySending ==
  ASSUME TypeOK, NEW s \in Senders, Sending(s), NEW c \in Cleaners, CleanOK(c)
  PROVE  CleanOK(c)'
<1>1. now' = now /\ UNCHANGED cleanups
  BY SendingAlone
<1>2. \A t \in Senders : pc[t] \notin Before => pc'[t] \notin Before /\ (dir'[t] => dir[t])
  BY SendingFrame, SendingOnward DEF Untouched
<1>3. emptied[c] \subseteq Senders
  BY DEF TypeOK, CleanupsType
<1> QED
  BY <1>1, <1>2, <1>3 DEF CleanOK, cleanups

LEMMA CleanKeptByCleaning ==
  ASSUME TypeOK, TypeOK', NEW c \in Cleaners, Cleaning(c),
         \A s \in Senders : SendOK(s), NEW d \in Cleaners, CleanOK(d)
  PROVE  CleanOK(d)'
<1> USE DEF CleanOK
<1>1. now' = now /\ now \in Nat /\ pc' = pc /\ Ahead \in Int /\ emptied[d] \subseteq Senders
  BY CleaningAlone, StagingAssumption DEF sends, TypeOK, CleanupsType
<1>2. \A s \in Senders : dir'[s] => dir[s]
  BY CleaningTakes DEF Lessened
<1>3. CASE d # c
  BY <1>1, <1>2, <1>3, CleaningLeavesOthers DEF Undistracted
<1>4. CASE d = c
  <2> USE <1>4 DEF TypeOK, CleanupsType
  <2>1. CASE Begin(c)
    BY <1>1, <1>2, <2>1 DEF Begin
  <2>2. CASE ListInbox(c)
    BY <1>1, <1>2, <2>2 DEF ListInbox, Move
  <2>3. CASE ListDate(c)
    <3>1. /\ cpc'[c] = "choosing" /\ dry' = dry /\ emptied' = emptied /\ batch' = batch
          /\ \A s \in todo'[c] : dir[s]
      BY <2>3 DEF ListDate
    <3>2. todo'[c] \subseteq Senders
      OBVIOUS
    <3>3. \A s \in todo'[c] : pc[s] \notin Before
      BY <3>1, <3>2 DEF SendOK
    <3> QED
      BY <1>1, <1>2, <3>1, <3>3
  <2>4. CASE NotListed(c) \/ Finish(c) \/ FinishAnyway(c)
    <3>1. /\ cpc'[c] = "ended" /\ dry' = dry /\ emptied' = emptied
          /\ todo'[c] = {} /\ batch'[c] = None
      BY ZenonT(30), <2>4 DEF NotListed, Finish, FinishAnyway, Retires
    <3> QED
      BY <1>1, <1>2, <3>1, StagingAssumption
  <2>5. CASE CleanerStops(c)
    <3>1. /\ cpc'[c] = "ended" /\ emptied'[c] = {} /\ todo'[c] = {} /\ batch'[c] = None
      BY <2>5 DEF CleanerStops, Retires
    <3> QED
      BY <1>1, <3>1, StagingAssumption
  <2>6. ASSUME NEW s \in Senders, ListBatch(c, s) PROVE CleanOK(c)'
    BY <1>1, <1>2, <2>6 DEF ListBatch, Move
  <2>7. ASSUME NEW s \in Senders, SkipBatch(c, s) PROVE CleanOK(c)'
    BY <1>1, <1>2, <2>7 DEF SkipBatch
  <2>8. ASSUME NEW name \in Names, RemoveName(c, name) PROVE CleanOK(c)'
    BY <1>1, <1>2, <2>8 DEF RemoveName
  <2>9. CASE LeaveBatch(c)
    <3>1. /\ cpc'[c] = "choosing" /\ dry' = dry /\ emptied' = emptied /\ todo' = todo
          /\ batch'[c] = None
      BY <2>9 DEF LeaveBatch, NextBatch, Move
    <3> QED
      BY <1>1, <1>2, <3>1, StagingAssumption
  <2>10. CASE RemoveBatch(c)
    <3>1. batch[c] \in Senders /\ (~dry[c] => ~dir'[batch[c]])
      BY <2>10, RemoveDirFacts DEF RemoveBatch, Gone
    <3>2. /\ cpc'[c] = "choosing" /\ dry' = dry /\ todo' = todo /\ batch'[c] = None
          /\ emptied'[c] = emptied[c] \cup {batch[c]}
      BY <2>10 DEF RemoveBatch, NextBatch, Move
    <3> QED
      BY <1>1, <1>2, <3>1, <3>2, StagingAssumption
  <2> QED
    BY <2>1, <2>2, <2>3, <2>4, <2>5, <2>6, <2>7, <2>8, <2>9, <2>10 DEF Cleaning
<1> QED
  BY <1>3, <1>4

------------------------------------------------------------------------------
(* The bargain between sends and cleanups by age *)

\* Protected batches that a send makes, or goes on with, are whole and on
\* nobody's list.
LEMMA UndisturbedBySending ==
  ASSUME TypeOK, TypeOK', NEW s \in Senders, Sending(s),
         \A t \in Senders : SendOK(t), \A t \in Senders : SendOK(t)',
         \A c \in Cleaners : CleanOK(c), Undisturbed
  PROVE  Undisturbed'
<1> DEFINE Unlisted(t) == \A c \in Cleaners : t \notin todo[c] /\ batch[c] # t
<1>0. now' = now /\ UNCHANGED cleanups
  BY SendingAlone
<1>1. OnlyByAge' => OnlyByAge
  BY <1>0 DEF OnlyByAge, cleanups
<1> SUFFICES ASSUME OnlyByAge', NEW t \in Senders, Protected(t)'
             PROVE  /\ dir'[t]
                    /\ Intact(t)'
                    /\ \A c \in Cleaners : t \notin todo'[c] /\ batch'[c] # t
  BY DEF Undisturbed
<1>2. ASSUME Protected(t) PROVE dir[t] /\ Intact(t) /\ Unlisted(t)
  BY <1>1, <1>2 DEF Undisturbed
<1>3. Unlisted(t) => \A c \in Cleaners : t \notin todo'[c] /\ batch'[c] # t
  BY <1>0 DEF cleanups
<1>4. CASE t # s
  BY <1>0, <1>2, <1>3, <1>4, SendingFrame DEF Untouched, Protected, Intact
<1>5. CASE t = s
  <2>1. pc'[s] \in Uploading \cup {"sent"}
    BY <1>5 DEF Protected
  <2>2. ASSUME MakeBatch(s), Uploads(s) \/ Unanswered(s), pc[s] \in Creating
        PROVE  dir'[t] /\ Intact(t)' /\ Unlisted(t)
    <3>1. staged'[s] = {} /\ dir'[s]
      <4>1. staged[s] = {}
        BY <2>2 DEF SendOK, Before
      <4>2. staged' = staged
        BY <2>2 DEF Uploads, Unanswered
      <4>3. dir'[s]
        BY <2>2 DEF MakeBatch, TypeOK, HostType
      <4> QED
        BY <4>1, <4>2, <4>3
    <3>2. Unlisted(s)
      BY <2>2 DEF CleanOK, Before
    <3> QED
      BY <1>5, <3>1, <3>2 DEF Intact
  <2>3. ASSUME CreateBatch(s) \/ CreateAgain(s) PROVE dir'[t] /\ Intact(t)' /\ Unlisted(t)
    BY <2>1, <2>2, <2>3, MovesFacts DEF CreateBatch, CreateAgain, Creating, Uploading
  <2>4. ASSUME pc[s] \in Uploading, pc'[s] \notin {"clearing", "discarding", "dead"},
               dir' = dir, staged' = staged,
               \A i \in Index : content'[s][<<"file", i>>] = content[s][<<"file", i>>]
        PROVE  dir'[t] /\ Intact(t)' /\ Unlisted(t)
    BY <1>2, <1>5, <2>4 DEF Protected, Intact, TypeOK, SendsType
  <2>5. \A i \in Index : <<"file", i>> \in Names
    BY DEF Names
  <2>6. ASSUME Open(s) PROVE dir'[t] /\ Intact(t)' /\ Unlisted(t)
    <3>1. GoesTo(s, "writing")
      BY <2>1, <2>6, MovesFacts DEF Open, Uploading, Creating
    <3> QED
      <4>1. pc'[s] = "writing" /\ staged' = staged /\ pc[s] \in Uploading
        BY <2>6, <3>1, MovesFacts DEF Open, Uploading
      <4>2. Put(s, <<"part", n[s]>>, "short")
        BY <2>6, <4>1, MovesFacts DEF Open
      <4>3. /\ dir' = dir
            /\ \A i \in Index : content'[s][<<"file", i>>] = content[s][<<"file", i>>]
        <5>1. dir' = dir /\ \A m \in Names : m # <<"part", n[s]>> => content'[s][m] = content[s][m]
          <6>1. PICK name \in Names : name = <<"part", n[s]>>
            BY NameType
          <6>2. Put(s, name, "short")
            BY <4>2, <6>1
          <6>3. dir' = dir /\ \A m \in Names : content'[s][m] = IF m = name THEN "short"
                                                                ELSE content[s][m]
            BY <6>2, PutFacts
          <6> QED
            BY <6>1, <6>3
        <5>2. \A i \in Index : <<"file", i>> # <<"part", n[s]>>
          OBVIOUS
        <5> QED
          BY <2>5, <5>1, <5>2
      <4> QED
        BY <2>4, <4>1, <4>3
  <2>7. ASSUME Write(s) PROVE dir'[t] /\ Intact(t)' /\ Unlisted(t)
    <3>1. staged' = staged /\ pc[s] \in Uploading
      BY <2>7, MovesFacts DEF Write, Uploading
    <3>2. dir' = dir /\ \A i \in Index : content'[s][<<"file", i>>] = content[s][<<"file", i>>]
      BY <2>5, <2>7, NameType DEF Write, host, TypeOK, HostType
    <3> QED
      BY <2>1, <2>4, <3>1, <3>2 DEF Uploading
  <2>8. ASSUME Rename(s) PROVE dir'[t] /\ Intact(t)' /\ Unlisted(t)
    <3>1. /\ <<"part", n[s]>> \in Present(s) /\ Staged(s)
          /\ content' = [content EXCEPT ![s][<<"file", n[s]>>] = content[s][<<"part", n[s]>>],
                                        ![s][<<"part", n[s]>>] = "absent"]
          /\ dir' = dir
      BY <2>1, <2>8, MovesFacts DEF Rename, Uploading, Creating
    <3>2. dir[s] /\ Intact(s) /\ Unlisted(s) /\ pc[s] = "renaming"
      BY <1>2, <1>5, <2>8 DEF Rename, Protected, Uploading
    <3>3. content[s][<<"part", n[s]>>] = "whole"
      BY <3>1, <3>2, NameType DEF SendOK, Present, TypeOK, HostType
    <3>4. \A i \in Index : content'[s][<<"file", i>>] =
                             IF i = n[s] THEN "whole" ELSE content[s][<<"file", i>>]
      BY <2>5, <3>1, <3>3, NameType DEF TypeOK, HostType
    <3>5. staged'[s] = staged[s] \cup {n[s]} /\ staged[s] \subseteq Index
      BY <3>1, StagedFacts DEF TypeOK, SendsType
    <3> QED
      BY <1>5, <3>1, <3>2, <3>4, <3>5, NameType DEF Intact
  <2>9. Open(s) \/ Write(s) \/ Rename(s) \/ CreateBatch(s) \/ CreateAgain(s)
    <3>1. ASSUME StartSend(s) \/ OverLimit(s) \/ Clear(s) \/ Refused(s) \/ Lost(s) \/ Killed(s)
                 \/ CreateDate(s) \/ DiscardBatch(s) \/ \E i \in Index : DiscardFile(s, i)
          PROVE  pc'[s] \in {"creating", "failed", "clearing", "discarding", "retrying", "dead"}
      BY ZenonT(30), <3>1, MovesFacts DEF StartSend, OverLimit, Clear, Refused, Lost, Killed, CreateDate,
         DiscardBatch, DiscardFile
    <3> QED
      BY <2>1, <3>1 DEF Sending, Uploading
  <2> QED
    BY <1>3, <2>3, <2>6, <2>7, <2>8, <2>9
<1> QED
  BY <1>4, <1>5

\* A listing never finds a protected batch old enough: what was last done to
\* it is not longer ago than an operation takes, or the paste.
LEMMA ListedByAge ==
  ASSUME TypeOK, NEW c \in Cleaners, ListDate(c), CleanOK(c), OnlyByAge,
         NEW t \in Senders, SendOK(t), Protected(t)
  PROVE  t \notin todo'[c]
<1>1. c \notin Purges /\ cutoff[c] <= now + Ahead
  BY DEF ListDate, OnlyByAge, CleanOK
<1>2. Deadline + Ahead < Retention
  BY DEF OnlyByAge
<1>3. /\ now \in Nat /\ since[t] \in Nat /\ touched[t] \in Nat /\ cutoff[c] \in Int
      /\ Deadline \in Nat /\ Ahead \in Int /\ Retention \in Nat
  BY StagingAssumption DEF TypeOK, HostType, SendsType, CleanupsType
<1>4. dir[t] => since[t] <= touched[t]
  BY DEF Protected, SendOK
<1>5. \/ now - since[t] <= Deadline
      \/ now + Ahead < since[t] + Retention
  BY DEF Protected, SendOK, Asking
<1>6. dir[t] => ~(cutoff[c] - touched[t] >= Retention)
  BY <1>1, <1>2, <1>3, <1>4, <1>5
<1>7. dir[t] => ~Expired(c, touched[t])
  BY <1>1, <1>6 DEF Expired
<1>8. t \in todo'[c] => dir[t] /\ Expired(c, touched[t])
  BY DEF ListDate, TypeOK, CleanupsType
<1> QED
  BY <1>7, <1>8

\* Nothing a cleanup by age does reaches a protected batch.
LEMMA UndisturbedByCleaning ==
  ASSUME TypeOK, TypeOK', NEW c \in Cleaners, Cleaning(c),
         \A t \in Senders : SendOK(t), \A d \in Cleaners : CleanOK(d), Undisturbed
  PROVE  Undisturbed'
<1>0. now' = now /\ UNCHANGED sends
  BY CleaningAlone
<1>1. OnlyByAge' => OnlyByAge
  <2>1. cpc[c] = "idle" => cpc'[c] # "idle"
    BY DEF Cleaning, Begin, ListInbox, ListDate, NotListed, ListBatch, SkipBatch, RemoveName,
       LeaveBatch, RemoveBatch, Finish, FinishAnyway, CleanerStops, TypeOK, CleanupsType
  <2>2. cpc[c] # "idle" => cpc'[c] # "idle"
    BY DEF Cleaning, Begin, ListInbox, ListDate, NotListed, ListBatch, SkipBatch, RemoveName,
       LeaveBatch, RemoveBatch, Finish, FinishAnyway, CleanerStops, Retires, Move, NextBatch,
       TypeOK, CleanupsType
  <2>3. \A d \in Cleaners \ {c} : cpc'[d] = cpc[d]
    BY CleaningLeavesOthers DEF Undistracted
  <2> QED
    BY <2>1, <2>2, <2>3 DEF OnlyByAge, Cleaners
<1> SUFFICES ASSUME OnlyByAge', NEW t \in Senders, Protected(t)'
             PROVE  /\ dir'[t]
                    /\ Intact(t)'
                    /\ \A d \in Cleaners : t \notin todo'[d] /\ batch'[d] # t
  BY DEF Undisturbed
<1>2. Protected(t) /\ staged'[t] = staged[t]
  BY <1>0 DEF Protected, sends
<1>3. /\ dir[t] /\ Intact(t)
      /\ \A d \in Cleaners : t \notin todo[d] /\ batch[d] # t
  BY <1>1, <1>2 DEF Undisturbed
<1>4. dir'[t] = dir[t] /\ content'[t] = content[t]
  BY <1>3, CleaningTakes
<1>5. \A d \in Cleaners \ {c} : t \notin todo'[d] /\ batch'[d] # t
  BY <1>3, CleaningLeavesOthers DEF Undistracted
<1>6. t \notin todo'[c]
  <2>1. CASE ListDate(c)
    BY <1>1, <1>2, <2>1, ListedByAge
  <2>2. CASE ~ListDate(c)
    <3>1. todo'[c] \subseteq todo[c]
      <4> USE DEF TypeOK, CleanupsType
      <4>1. CASE Begin(c) \/ ListInbox(c)
        BY <4>1 DEF Begin, ListInbox, Move
      <4>2. CASE NotListed(c) \/ Finish(c) \/ FinishAnyway(c) \/ CleanerStops(c)
        BY ZenonT(30), <4>2 DEF NotListed, Finish, FinishAnyway, CleanerStops, Retires
      <4>3. ASSUME NEW s \in Senders, ListBatch(c, s) \/ SkipBatch(c, s)
            PROVE  todo'[c] \subseteq todo[c]
        BY <4>3 DEF ListBatch, SkipBatch, Move
      <4>4. ASSUME NEW name \in Names, RemoveName(c, name) PROVE todo'[c] \subseteq todo[c]
        BY <4>4 DEF RemoveName
      <4>5. CASE LeaveBatch(c) \/ RemoveBatch(c)
        BY <4>5 DEF LeaveBatch, RemoveBatch, NextBatch, Move
      <4> QED
        BY <2>2, <4>1, <4>2, <4>3, <4>4, <4>5 DEF Cleaning
    <3> QED
      BY <1>3, <3>1
  <2> QED
    BY <2>1, <2>2
<1>7. batch'[c] # t
  <2>1. batch'[c] \in todo[c] \cup {batch[c], None}
    BY ZenonT(60) DEF Cleaning, Begin, ListInbox, ListDate, NotListed, ListBatch, SkipBatch, RemoveName,
       LeaveBatch, RemoveBatch, Finish, FinishAnyway, CleanerStops, Retires, Move, NextBatch,
       TypeOK, CleanupsType
  <2> QED
    BY <1>3, <2>1, StagingAssumption
<1> QED
  BY <1>3, <1>4, <1>2, <1>5, <1>6, <1>7 DEF Intact

------------------------------------------------------------------------------
(* The inductive invariant *)

LEMMA IInvInit == Init => IInv
<1> SUFFICES ASSUME Init PROVE IInv
  OBVIOUS
<1>1. TypeOK
  BY TypeInit
<1>2. \A s \in Senders : Present(s) = {}
  BY DEF Init, Present
<1>3. \A i \in Index : <<"file", i>> \in Names /\ <<"part", i>> \in Names
  BY DEF Names
<1>4. \A s \in Senders : SendOK(s)
  BY <1>2, <1>3 DEF Init, SendOK, Tidy, Asking, Creating, Uploading, Failing
<1>5. \A c \in Cleaners : CleanOK(c)
  BY StagingAssumption DEF Init, CleanOK
<1>6. Undisturbed
  BY DEF Init, Undisturbed, Protected, Uploading
<1> QED
  BY <1>1, <1>4, <1>5, <1>6 DEF IInv

\* Time passes for a send only while its operation is in time.
LEMMA IInvTick == IInv /\ Tick => IInv'
<1> SUFFICES ASSUME IInv, Tick PROVE IInv'
  OBVIOUS
<1>1. TypeOK /\ TypeOK'
  BY TypeStep DEF IInv, Next
<1>2. /\ now' = now + 1 /\ UNCHANGED <<host, sends, cleanups>>
      /\ now \in Nat /\ Ahead \in Int /\ Deadline \in Nat /\ Retention \in Nat
      /\ \A s \in Senders : since[s] \in Nat /\ (pc[s] \in Asking => now - since[s] < Deadline)
  BY <1>1, StagingAssumption DEF Tick, InTime, TypeOK, SendsType
<1>3. \A s \in Senders : SendOK(s)'
  <2> TAKE s \in Senders
  <2>1. SendOK(s) /\ Present(s)' = Present(s)
    BY <1>2 DEF IInv, host, Present
  <2>2. pc[s] \in Asking \cup {"sent"} => since[s] <= now'
    BY <1>2, <2>1 DEF SendOK
  <2>3. pc[s] \in Asking => now' - since[s] <= Deadline
    BY <1>2
  <2> QED
    BY <1>2, <2>1, <2>2, <2>3 DEF SendOK, Tidy, Placed, host, sends
<1>4. \A c \in Cleaners : CleanOK(c)'
  <2> TAKE c \in Cleaners
  <2>1. CleanOK(c) /\ cutoff[c] \in Int
    BY <1>1 DEF IInv, TypeOK, CleanupsType
  <2>2. cpc[c] \in {"dates", "batches"} => cutoff[c] <= now' + Ahead
    BY <1>2, <2>1 DEF CleanOK
  <2> QED
    BY <1>2, <2>1, <2>2 DEF CleanOK, host, sends, cleanups
<1>5. Undisturbed'
  <2>1. \A s \in Senders : Protected(s)' => Protected(s)
    BY <1>2 DEF Protected, sends
  <2> QED
    BY <1>2, <2>1 DEF IInv, Undisturbed, OnlyByAge, Intact, host, sends, cleanups
<1> QED
  BY <1>1, <1>3, <1>4, <1>5 DEF IInv

LEMMA IInvStep == IInv /\ [Next]_vars => IInv'
<1> SUFFICES ASSUME IInv, [Next]_vars PROVE IInv'
  OBVIOUS
<1>0. TypeOK /\ TypeOK'
  BY TypeStep DEF IInv
<1>1. ASSUME NEW s \in Senders, Sending(s) PROVE IInv'
  <2>1. \A t \in Senders : SendOK(t)'
    BY <1>0, <1>1, SendKeeps, SendingFrame, SendingAlone, UntouchedOK DEF IInv
  <2>2. \A c \in Cleaners : CleanOK(c)'
    BY <1>0, <1>1, CleanKeptBySending DEF IInv
  <2>3. Undisturbed'
    BY <1>0, <1>1, <2>1, UndisturbedBySending DEF IInv
  <2> QED
    BY <1>0, <2>1, <2>2, <2>3 DEF IInv
<1>2. ASSUME NEW c \in Cleaners, Cleaning(c) PROVE IInv'
  <2>1. \A t \in Senders : SendOK(t)'
    BY <1>0, <1>2, CleaningTakes, CleaningAlone, LessenedOK DEF IInv
  <2>2. \A d \in Cleaners : CleanOK(d)'
    BY <1>0, <1>2, CleanKeptByCleaning DEF IInv
  <2>3. Undisturbed'
    BY <1>0, <1>2, UndisturbedByCleaning DEF IInv
  <2> QED
    BY <1>0, <2>1, <2>2, <2>3 DEF IInv
<1>3. CASE Tick
  BY <1>3, IInvTick
<1>4. CASE UNCHANGED vars
  <2>1. now' = now /\ UNCHANGED <<host, sends, cleanups>>
    BY <1>4 DEF vars
  <2>2. \A s \in Senders : SendOK(s)'
    BY <2>1, UntouchedOK DEF IInv, Untouched, host, sends
  <2>3. \A c \in Cleaners : CleanOK(c)'
    BY <2>1 DEF IInv, CleanOK, host, sends, cleanups
  <2>4. Undisturbed'
    BY <2>1 DEF IInv, Undisturbed, OnlyByAge, Protected, Intact, host, sends, cleanups
  <2> QED
    BY <1>0, <2>2, <2>3, <2>4 DEF IInv
<1> QED
  BY <1>1, <1>2, <1>3, <1>4 DEF Next

\* The invariant on which everything below rests
THEOREM Inductive == Spec => []IInv
<1>1. IInv /\ [Next]_vars => IInv'
  BY IInvStep
<1> QED
  BY IInvInit, <1>1, PTL DEF Spec

------------------------------------------------------------------------------
(* What follows of it *)

\* upload_atomic: no final name ever stands for half a file, for any number of
\* files and whatever ends a transfer.
THEOREM NeverHalfHolds == Spec => []NeverHalf
<1>1. IInv => NeverHalf
  BY DEF IInv, SendOK, NeverHalf
<1> QED
  BY <1>1, Inductive, PTL

\* A cleanup by age never reaches into a batch that is being sent.
THEOREM ActiveUndisturbedHolds == Spec => []ActiveUndisturbed
<1>1. IInv => ActiveUndisturbed
  BY DEF IInv, Undisturbed, Protected, ActiveUndisturbed
<1> QED
  BY <1>1, Inductive, PTL

\* Paths handed out stay good for the retention, less what the clocks differ.
THEOREM KeptForRetentionHolds == Spec => []KeptForRetention
<1>1. IInv => KeptForRetention
  BY DEF IInv, Undisturbed, Protected, SendOK, KeptForRetention
<1> QED
  BY <1>1, Inductive, PTL

\* A send that fails on a session that answers leaves nothing behind.
THEOREM FailedLeavesNothingHolds == Spec => []FailedLeavesNothing
<1>1. IInv => FailedLeavesNothing
  BY DEF IInv, SendOK, Tidy, FailedLeavesNothing
<1> QED
  BY <1>1, Inductive, PTL

\* What a cleanup reports as removed is gone, and stays so.
THEOREM ReportedGoneHolds == Spec => []ReportedGone
<1>1. IInv => ReportedGone
  BY DEF IInv, TypeOK, CleanupsType, CleanOK, SendOK, ReportedGone
<1> QED
  BY <1>1, Inductive, PTL

------------------------------------------------------------------------------
(* The refinement of BatchHandover *)

\* The one way to be sent is the answer to a rename.
LEMMA SentByRename ==
  ASSUME TypeOK, NEW s \in Senders, Sending(s), pc'[s] = "sent"
  PROVE  pc[s] = "renaming" /\ Staged(s)
<1>1. ~Unanswered(s) /\ ~Uploads(s)
  BY MovesFacts DEF Uploads
<1>2. \A place \in {"creating", "dating", "retrying", "writing", "renaming", "clearing",
                    "discarding", "failed", "dead"} :
        ~GoesTo(s, place) /\ ~Starts(s, place) /\ ~Ends(s, place)
  BY MovesFacts
<1>3. ~StartSend(s) /\ ~OverLimit(s) /\ ~CreateBatch(s) /\ ~CreateDate(s) /\ ~CreateAgain(s)
  BY <1>1, <1>2 DEF StartSend, OverLimit, CreateBatch, CreateDate, CreateAgain
<1>4. ~Open(s) /\ ~Write(s) /\ ~Clear(s) /\ ~Refused(s) /\ ~Lost(s) /\ ~Killed(s)
  BY <1>1, <1>2 DEF Open, Write, Verified, Clear, Refused, Lost, Killed
<1>5. ~DiscardBatch(s) /\ \A i \in Index : ~DiscardFile(s, i)
  BY <1>2 DEF DiscardBatch, DiscardFile
<1> QED
  BY <1>1, <1>2, <1>3, <1>4, <1>5 DEF Sending, Rename

\* With a purge about, or a retention that an operation can outlast, a batch may
\* be handed out with files missing; without, it never is.
THEOREM RefinesBatchHandover ==
  ASSUME Purges = {}, Deadline + Ahead < Retention
  PROVE  Spec => ImplementsHandover
<1>0. OnlyByAge
  BY DEF OnlyByAge
<1>1. Init => Handover!Init
  BY DEF Init, Handover!Init, Handed
\* The batch of a send that is over can only get worse.
<1>2. ASSUME NEW t \in Senders, pc[t] = "sent", UNCHANGED sends, Lessened(t), IInv
      PROVE  Handed(t)' = Handed(t) \/ (Handed(t) = "whole" /\ Handed(t)' = "expired")
  <2>1. pc'[t] = pc[t] /\ staged'[t] = staged[t] /\ staged[t] \subseteq Index
    BY <1>2 DEF sends, IInv, TypeOK, SendsType
  <2>2. \A i \in Index : <<"file", i>> \in Names
    BY DEF Names
  <2>3. Intact(t)' => Intact(t)
    BY <1>2, <2>1, <2>2 DEF Lessened, Intact
  <2> QED
    BY <1>2, <2>1, <2>3 DEF Handed
\* A send is heard of in the step that answers its last rename.
<1>3. ASSUME IInv, IInv', NEW s \in Senders, Sending(s)
      PROVE  Handover!Next \/ \A t \in Senders : Handed(t)' = Handed(t)
  <2>1. \A t \in Senders \ {s} : Handed(t)' = Handed(t)
    BY <1>3, SendingFrame DEF IInv, Untouched, Handed, Intact
  <2>2. Handed(s) = "unheard"
    BY <1>3, SendingFrame DEF IInv, Handed, Over
  <2>3. CASE pc'[s] # "sent"
    BY <2>1, <2>2, <2>3 DEF Handed
  <2>4. CASE pc'[s] = "sent"
    <3>1. staged'[s] = Index
      BY <1>3, <2>4 DEF IInv, SendOK
    <3>2. Intact(s)'
      <4>1. pc[s] = "renaming" /\ Staged(s)
        BY <1>3, <2>4, SentByRename DEF IInv
      <4>2. since'[s] = now /\ now' = now /\ now \in Nat /\ Ahead \in Int
        BY <1>3, <4>1, StagedFacts, SendingAlone, StagingAssumption DEF IInv, TypeOK
      <4>3. now' + Ahead < since'[s] + Retention
        BY <4>2, StagingAssumption
      <4>4. OnlyByAge'
        BY DEF OnlyByAge
      <4> QED
        BY <1>3, <2>4, <4>3, <4>4 DEF IInv, Undisturbed, Protected
    <3>3. Handed(s)' = "whole"
      BY <2>4, <3>1, <3>2 DEF Handed
    <3>4. Handover!HandOver(s)
      BY <2>1, <2>2, <3>3 DEF Handover!HandOver
    <3> QED
      BY <3>4 DEF Handover!Next
  <2> QED
    BY <2>3, <2>4
\* A cleanup takes from one batch at a time.
<1>4. ASSUME IInv, NEW c \in Cleaners, Cleaning(c)
      PROVE  Handover!Next \/ \A t \in Senders : Handed(t)' = Handed(t)
  <2>1. UNCHANGED sends /\ TypeOK
    BY <1>4, CleaningAlone DEF IInv
  <2>2. \A t \in Senders : Lessened(t) /\ (batch[c] # t => content'[t] = content[t])
    BY <1>4, <2>1, CleaningTakes
  <2>3. \A t \in Senders : batch[c] # t => Handed(t)' = Handed(t)
    BY <2>1, <2>2 DEF Handed, Intact, sends
  <2>4. CASE \A t \in Senders : Handed(t)' = Handed(t)
    BY <2>4
  <2>5. CASE \E t \in Senders : Handed(t)' # Handed(t)
    <3>1. PICK t \in Senders : Handed(t)' # Handed(t)
      BY <2>5
    <3>2. \A u \in Senders \ {t} : Handed(u)' = Handed(u)
      BY <2>3, <3>1
    <3>3. pc[t] = "sent"
      BY <2>1, <3>1 DEF Handed, sends
    <3>4. Handed(t) = "whole" /\ Handed(t)' = "expired"
      BY <1>2, <1>4, <2>1, <2>2, <3>1, <3>3
    <3>5. Handover!Expire(t)
      BY <3>2, <3>4 DEF Handover!Expire
    <3> QED
      BY <3>5 DEF Handover!Next
  <2> QED
    BY <2>4, <2>5
<1>5. ASSUME IInv, Tick \/ UNCHANGED vars PROVE \A t \in Senders : Handed(t)' = Handed(t)
  BY <1>5 DEF Tick, vars, host, sends, Handed, Intact
<1>6. IInv /\ IInv' /\ [Next]_vars => [Handover!Next]_[s \in Senders |-> Handed(s)]
  BY <1>3, <1>4, <1>5 DEF Next
<1> QED
  BY <1>1, <1>6, Inductive, PTL DEF Spec, ImplementsHandover, Handover!Spec

-----------------------------------------------------------------------------
(* The directories on the host                                               *)

Ops == {"mkdir", "lstat", "chmod", "rmdir"}
MadeAnswers == {"none", "ok", "missing", "denied", "failure"}
Settling == {"settle", "chmod", "again"}
Happy == {"done", "passed", "unwell"} \cup Checking

\* The paths a client asks about: no other sender's batch.
Mine(c) == {"inbox", "date"} \cup (Uploaders \cap {c})
Requests(c) == [op : Ops, path : Mine(c)]
Heard == [made : MadeAnswers, saw : Nodes \cup {Absent}]

Server ==
  tree \in [Paths -> Nodes \cup {Absent}] /\ heard \in [Clients -> [Paths -> Heard]]
DirShape ==
  /\ Server
  /\ phase \in [Clients -> ClientPlaces] /\ at \in [Clients -> Nat]
  /\ DOMAIN second = Clients
  /\ DOMAIN nested = Clients /\ \A c \in Clients : nested[c] \in Seq(Mine(c))
  /\ DOMAIN asks = Clients /\ \A c \in Clients : asks[c] \in Seq(Requests(c))
  /\ \A c \in Clients : phase[c] \in Settling => at[c] \in 1..Len(Want(c))

\* What a client wants: the inbox, and a sender its batch after it.
LEMMA WantIs ==
  ASSUME NEW c \in Clients
  PROVE  /\ c \in Uploaders => Len(Want(c)) = 2 /\ Want(c)[1] = "inbox" /\ Want(c)[2] = c
         /\ c \notin Uploaders => Len(Want(c)) = 1 /\ Want(c)[1] = "inbox"
         /\ \A i \in 1..Len(Want(c)) : Want(c)[i] \in Mine(c) \ {"date"}
         /\ DOMAIN Want(c) = 1..Len(Want(c)) /\ Len(Want(c)) \in {1, 2}
         /\ 1 \in 1..Len(Want(c)) /\ 1..Len(Want(c)) \subseteq {1, 2}
<1>1. CASE c \in Uploaders
  <2>1. Want(c) = <<"inbox", c>>
    BY <1>1 DEF Want
  <2>2. "inbox" \in Mine(c) \ {"date"} /\ c \in Mine(c) \ {"date"}
    BY <1>1, RemoteDirsAssumption DEF Mine
  <2> QED
    BY <1>1, <2>1, <2>2
<1>2. CASE c \notin Uploaders
  BY <1>2 DEF Want, Mine
<1> QED
  BY <1>1, <1>2

\* A client settles one of its own paths.
LEMMA PathIs ==
  ASSUME DirShape, NEW c \in Clients, phase[c] \in Settling
  PROVE  Path(c) \in Mine(c) /\ Path(c) \in Paths
<1>1. Mine(c) \subseteq Paths
  BY DEF Mine, Paths
<1>2. CASE nested[c] = <<>>
  BY <1>1, <1>2, WantIs DEF DirShape, Path
<1>3. CASE nested[c] # <<>>
  BY <1>1, <1>3 DEF DirShape, Path
<1> QED
  BY <1>2, <1>3

\* An answer is written down, and nothing else.
LEMMA HearsIs ==
  ASSUME DirShape, NEW c \in Clients, NEW p \in Paths,
         NEW field \in {"made", "saw"}, NEW answer, Hears(c, p, field, answer),
         field = "made" => answer \in MadeAnswers, field = "saw" => answer \in Nodes \cup {Absent}
  PROVE  /\ heard' \in [Clients -> [Paths -> Heard]]
         /\ \A d \in Clients \ {c} : heard'[d] = heard[d]
         /\ \A q \in Paths \ {p} : heard'[c][q] = heard[c][q]
         /\ heard'[c][p].made = IF field = "made" THEN answer ELSE heard[c][p].made
         /\ heard'[c][p].saw = IF field = "saw" THEN answer ELSE heard[c][p].saw
<1> DEFINE e == IF field = "made" THEN [heard[c][p] EXCEPT !.made = answer]
                ELSE [heard[c][p] EXCEPT !.saw = answer]
<1>1. heard[c][p] \in Heard /\ heard[c] \in [Paths -> Heard]
  BY DEF DirShape, Server
<1>2. /\ e \in Heard
      /\ e.made = IF field = "made" THEN answer ELSE heard[c][p].made
      /\ e.saw = IF field = "saw" THEN answer ELSE heard[c][p].saw
  BY <1>1 DEF Heard
<1>3. heard' = [heard EXCEPT ![c] = [heard[c] EXCEPT ![p] = e]]
  BY DEF Hears
<1> HIDE DEF e
<1> QED
  BY <1>1, <1>2, <1>3 DEF DirShape, Server

LEMMA TailIs ==
  ASSUME NEW S, NEW s \in Seq(S), s # <<>>
  PROVE  /\ Tail(s) \in Seq(S) /\ Len(Tail(s)) = Len(s) - 1 /\ Head(s) = s[1] /\ s[1] \in S
         /\ \A i \in 1..Len(Tail(s)) : Tail(s)[i] = s[i + 1]
  OBVIOUS

LEMMA RequestIs ==
  ASSUME NEW c \in Clients, NEW op \in Ops, NEW p \in Mine(c)
  PROVE  Request(op, p) \in Requests(c) /\ Request(op, p).op = op /\ Request(op, p).path = p
BY DEF Request, Requests

\* What a client has asked for concerns its own paths.
LEMMA AskIs ==
  ASSUME DirShape, NEW c \in Clients, NEW i \in 1..Len(asks[c])
  PROVE  asks[c][i].op \in Ops /\ asks[c][i].path \in Mine(c) /\ asks[c][i].path \in Paths
<1>1. asks[c] \in Seq(Requests(c))
  BY DEF DirShape
<1>2. asks[c][i] \in Requests(c)
  BY <1>1
<1> QED
  BY <1>2 DEF Requests, Mine, Paths

LEMMA PairIs ==
  ASSUME NEW c \in Clients, NEW p \in Mine(c)
  PROVE  Pair(p) \in Seq(Requests(c)) /\ Len(Pair(p)) = 2
         /\ Pair(p)[1] = Request("mkdir", p) /\ Pair(p)[2] = Request("lstat", p)
<1>1. Request("mkdir", p) \in Requests(c) /\ Request("lstat", p) \in Requests(c)
  BY RequestIs DEF Ops
<1> QED
  BY <1>1 DEF Pair

-----------------------------------------------------------------------------
(* What a step may do to a path                                              *)

Foreign(node) == node # Absent /\ node.owner = "user"

\* Nothing becomes the user's, what is the user's stays, and what fits stays.
Spared(p) ==
  /\ Foreign(tree'[p]) => Foreign(tree[p])
  /\ Foreign(tree[p]) => tree'[p] = tree[p]
Stays(p) == Fits(tree[p]) => Fits(tree'[p])

LEMMA NodesAre ==
  ASSUME NEW mode \in {"private", "loose"}
  PROVE  /\ Node("dir", mode, "clift") \in Nodes /\ ~Foreign(Node("dir", mode, "clift"))
         /\ IsDir(Node("dir", mode, "clift")) /\ Node("dir", mode, "clift") # Absent
         /\ Node("dir", mode, "clift").mode = mode
BY AbsentAssumption DEF Node, Nodes, Foreign, IsDir

\* What a mkdir does: it makes a directory of Clift's where nothing is, or nothing.
LEMMA MkdirIs ==
  ASSUME DirShape, NEW c \in Clients, NEW p \in Mine(c), Mkdir(c, p)
  PROVE  /\ Server'
         /\ \A q \in Paths : Spared(q) /\ Stays(q) /\ (q # p => tree'[q] = tree[q])
         /\ \A d \in Clients \ {c} : heard'[d] = heard[d]
         /\ \A q \in Paths \ {p} : heard'[c][q] = heard[c][q]
         /\ heard'[c][p].made = MkdirAnswer(p) /\ heard'[c][p].saw = heard[c][p].saw
         /\ MkdirAnswer(p) = "ok" => tree[p] = Absent /\ ~Foreign(tree'[p])
<1>1. p \in Paths /\ MkdirAnswer(p) \in MadeAnswers
  BY DEF Mine, Paths, MkdirAnswer, MadeAnswers
<1>2. MkdirAnswer(p) = "ok" => tree[p] = Absent
  BY DEF MkdirAnswer
<1>3. Hears(c, p, "made", MkdirAnswer(p))
  BY DEF Mkdir
<1>4. /\ tree' \in [Paths -> Nodes \cup {Absent}] /\ \A q \in Paths : q # p => tree'[q] = tree[q]
      /\ \/ tree'[p] = tree[p]
         \/ /\ MkdirAnswer(p) = "ok"
            /\ \E mode \in {"private", "loose"} : tree'[p] = Node("dir", mode, "clift")
  BY <1>1, NodesAre DEF Mkdir, DirShape, Server
<1>5. MkdirAnswer(p) = "ok" => ~Foreign(tree'[p])
  BY <1>2, <1>4, NodesAre DEF Foreign
<1>6. \A q \in Paths : Spared(q) /\ Stays(q)
  BY <1>2, <1>4, <1>5 DEF Spared, Stays, Fits, IsDir, Foreign
<1> QED
  BY <1>1, <1>2, <1>3, <1>4, <1>5, <1>6, HearsIs DEF Server

\* What an lstat does.
LEMMA LstatIs ==
  ASSUME DirShape, NEW c \in Clients, NEW p \in Mine(c), Lstat(c, p)
  PROVE  /\ Server' /\ tree' = tree
         /\ \A q \in Paths : Spared(q) /\ Stays(q)
         /\ \A d \in Clients \ {c} : heard'[d] = heard[d]
         /\ \A q \in Paths \ {p} : heard'[c][q] = heard[c][q]
         /\ heard'[c][p].made = heard[c][p].made /\ heard'[c][p].saw = tree[p]
<1>1. p \in Paths /\ tree[p] \in Nodes \cup {Absent} /\ Hears(c, p, "saw", tree[p]) /\ tree' = tree
  BY DEF Mine, Paths, DirShape, Server, Lstat
<1> QED
  BY <1>1, HearsIs DEF Spared, Stays, Server, DirShape

\* What a setstat does to what is not the user's.
LEMMA SetModeIs ==
  ASSUME DirShape, NEW c \in Clients, NEW p \in Mine(c), SetMode(c, p), ~Foreign(tree[p])
  PROVE  /\ Server' /\ ~Foreign(tree'[p])
         /\ \A q \in Paths : Spared(q) /\ Stays(q) /\ (q # p => tree'[q] = tree[q])
         /\ \A d \in Clients \ {c} : heard'[d] = heard[d]
         /\ \A q \in Paths \ {p} : heard'[c][q] = heard[c][q]
         /\ heard'[c][p].made \in {"ok", "missing", "denied"}
         /\ heard'[c][p].saw = heard[c][p].saw
<1>1. PICK answer \in {"ok", "missing", "denied"} : Hears(c, p, "made", answer)
  BY DEF SetMode
<1>2. p \in Paths /\ answer \in MadeAnswers
  BY DEF Mine, Paths, MadeAnswers
<1>3. CASE chmods /\ tree[p] # Absent
  <2>1. tree[p] \in Nodes /\ tree[p].owner # "user"
    BY <1>2, <1>3 DEF DirShape, Server, Foreign
  <2> DEFINE k == [tree[p] EXCEPT !.mode = "private"]
  <2>2. k \in Nodes /\ k.owner = tree[p].owner /\ k.kind = tree[p].kind /\ k.mode = "private"
    BY <2>1 DEF Nodes
  <2>3. tree' = [tree EXCEPT ![p] = k]
    BY <1>3 DEF SetMode
  <2> HIDE DEF k
  <2>4. tree' \in [Paths -> Nodes \cup {Absent}] /\ tree'[p] = k
        /\ \A q \in Paths : q # p => tree'[q] = tree[q]
    BY <1>2, <2>2, <2>3 DEF DirShape, Server
  <2>5. k # Absent /\ ~Foreign(k) /\ Fits(k) = IsDir(tree[p])
    BY <2>1, <2>2, AbsentAssumption DEF Foreign, Fits, IsDir
  <2>6. \A q \in Paths : Spared(q) /\ Stays(q)
    BY <1>3, <2>1, <2>4, <2>5 DEF Spared, Stays, Foreign, Fits
  <2> QED
    BY <1>1, <1>2, <2>4, <2>5, <2>6, HearsIs DEF Server
<1>4. CASE ~(chmods /\ tree[p] # Absent)
  <2>1. tree' = tree
    BY <1>4 DEF SetMode
  <2> QED
    BY <1>1, <1>2, <2>1, HearsIs DEF Spared, Stays, Server, DirShape
<1> QED
  BY <1>3, <1>4

\* What an rmdir, or the cleaner, does to what is not the user's.
LEMMA RmdirIs ==
  ASSUME DirShape, NEW p \in Paths, ~Foreign(tree[p]), tree' = WithoutDir(p), UNCHANGED heard
  PROVE  /\ Server' /\ \A q \in Paths : Spared(q) /\ (q # p => Stays(q) /\ tree'[q] = tree[q])
         /\ tree'[p] \in {tree[p], Absent}
BY DEF DirShape, Server, WithoutDir, Spared, Stays, Foreign

-----------------------------------------------------------------------------
(* A client, as far as success and the user's directory go                   *)

Blank(c) == heard[c] = [p \in Paths |-> Unheard]
RequestOK(c, i) ==
  /\ asks[c][i].op = "chmod" => ~Foreign(tree[asks[c][i].path])
  /\ asks[c][i].op = "rmdir" => asks[c] = <<Request("rmdir", c)>> /\ c \in Uploaders /\ Blank(c)

Settled(c, i) == Fits(tree[Want(c)[i]])
Safe(c) ==
  /\ \A i \in 1..Len(asks[c]) : RequestOK(c, i)
  /\ \A p \in Paths : heard[c][p].made = "ok" => ~Foreign(tree[p])
  /\ \A p \in Mine(c) \ {"date"} : Fits(heard[c][p].saw) => Fits(tree[p])
  /\ \A i \in 1..Len(Want(c)) :
       phase[c] \in Happy \/ (phase[c] \in Settling /\ i < at[c]) => Settled(c, i)
  /\ phase[c] \in Happy \cup {"idle"} => asks[c] = <<>>
  /\ phase[c] = "idle" => at[c] = 1 /\ Blank(c) /\ nested[c] = <<>>
  /\ phase[c] \in Settling /\ nested[c] # <<>> => nested[c][Len(nested[c])] = Want(c)[at[c]]

OnlyInbox == \A p \in Paths \ {"inbox"} : ~Foreign(tree[p])
DirInv == DirShape /\ OnlyInbox /\ \A c \in Clients : Safe(c)

LEMMA InboxSpared ==
  ASSUME OnlyInbox, \A p \in Paths : Spared(p)
  PROVE  OnlyInbox'
BY DEF OnlyInbox, Spared

\* A step of others leaves a client as it is.
LEMMA OthersSafe ==
  ASSUME DirShape, NEW d \in Clients, Safe(d),
         UNCHANGED <<heard[d], asks[d], phase[d], at[d], nested[d]>>,
         \A p \in Paths : Spared(p), \A p \in Mine(d) \ {"date"} : Stays(p)
  PROVE  Safe(d)'
<1>1. \A i \in 1..Len(asks[d]) : asks[d][i].path \in Paths
  BY AskIs
<1>2. \A i \in 1..Len(Want(d)) : Settled(d, i) => Settled(d, i)'
  BY WantIs DEF Settled, Stays
<1>3. Blank(d)' = Blank(d)
  BY DEF Blank
<1>4. \A i \in 1..Len(asks[d]) : RequestOK(d, i)'
  BY <1>1, <1>3 DEF Safe, RequestOK, Spared
<1>5. \A p \in Paths : heard'[d][p].made = "ok" => ~Foreign(tree'[p])
  BY DEF Safe, Spared
<1>6. \A p \in Mine(d) \ {"date"} : Fits(heard'[d][p].saw) => Fits(tree'[p])
  BY DEF Safe, Stays
<1> QED
  BY <1>2, <1>3, <1>4, <1>5, <1>6 DEF Safe

\* What Serve leaves of the queue.
LEMMA ServedQueue ==
  ASSUME DirShape, NEW c \in Clients, Serve(c)
  PROVE  /\ asks' = [asks EXCEPT ![c] = Tail(asks[c])] /\ Len(asks[c]) > 0
         /\ asks'[c] \in Seq(Requests(c)) /\ Len(asks'[c]) = Len(asks[c]) - 1
         /\ \A i \in 1..Len(asks'[c]) : asks'[c][i] = asks[c][i + 1] /\ i + 1 \in 1..Len(asks[c])
         /\ Head(asks[c]) = asks[c][1] /\ 1 \in 1..Len(asks[c])
         /\ UNCHANGED <<honours, chmods, writable, tried, phase, at, nested, second, cleaned>>
<1>1. asks[c] \in Seq(Requests(c)) /\ asks[c] # <<>> /\ DOMAIN asks = Clients
  BY DEF DirShape, Serve
<1>2. asks' = [asks EXCEPT ![c] = Tail(asks[c])]
  BY DEF Serve
<1>3. asks'[c] = Tail(asks[c])
  BY <1>1, <1>2
<1>4. Len(asks[c]) \in Nat /\ Len(asks[c]) > 0
  BY <1>1
<1> QED
  BY <1>1, <1>2, <1>3, <1>4, TailIs DEF Serve, server, calls

LEMMA ServeShape ==
  ASSUME DirShape, NEW c \in Clients, Serve(c), Server'
  PROVE  DirShape'
<1>1. asks' = [asks EXCEPT ![c] = Tail(asks[c])] /\ asks'[c] \in Seq(Requests(c))
      /\ UNCHANGED <<phase, at, nested, second>>
  BY ServedQueue
<1> QED
  BY <1>1 DEF DirShape

\* The request at the head is executed.
Does(c, op, p) == asks[c][1].op = op /\ asks[c][1].path = p

LEMMA ServeCases ==
  ASSUME DirShape, NEW c \in Clients, Serve(c)
  PROVE  \E p \in Mine(c) :
           \/ Does(c, "mkdir", p) /\ Mkdir(c, p)
           \/ Does(c, "lstat", p) /\ Lstat(c, p)
           \/ Does(c, "chmod", p) /\ SetMode(c, p)
           \/ Does(c, "rmdir", p) /\ tree' = WithoutDir(p) /\ UNCHANGED heard
<1>1. asks[c][1].path \in Mine(c) /\ Head(asks[c]) = asks[c][1]
  BY ServedQueue, AskIs
<1> QED
  BY <1>1 DEF Serve, Does

\* The server executes a request.
LEMMA ServeSafe ==
  ASSUME DirInv, NEW c \in Clients, Serve(c)
  PROVE  DirInv'
<1>1. PICK p \in Mine(c) :
           \/ Does(c, "mkdir", p) /\ Mkdir(c, p)
           \/ Does(c, "lstat", p) /\ Lstat(c, p)
           \/ Does(c, "chmod", p) /\ SetMode(c, p)
           \/ Does(c, "rmdir", p) /\ tree' = WithoutDir(p) /\ UNCHANGED heard
  BY ServeCases DEF DirInv
<1>2. DirShape /\ Safe(c) /\ OnlyInbox /\ p \in Paths
  BY DEF DirInv, Mine, Paths
<1>q. /\ \A i \in 1..Len(asks'[c]) : asks'[c][i] = asks[c][i + 1] /\ i + 1 \in 1..Len(asks[c])
      /\ 1 \in 1..Len(asks[c]) /\ UNCHANGED <<phase, at, nested>>
      /\ \A d \in Clients \ {c} : asks'[d] = asks[d]
  BY <1>2, ServedQueue DEF DirShape
<1>w. \A i \in 1..Len(Want(c)) : Want(c)[i] \in Mine(c) \ {"date"} /\ Want(c)[i] \in Paths
      /\ (i < at[c] /\ phase[c] \in Settling => Want(c)[i] \notin Uploaders)
  <2>1. ASSUME NEW i \in 1..Len(Want(c))
        PROVE  Want(c)[i] \in Mine(c) \ {"date"} /\ Want(c)[i] \in Paths
    BY WantIs DEF Mine, Paths
  <2>2. ASSUME NEW i \in 1..Len(Want(c)), i < at[c], phase[c] \in Settling
        PROVE  Want(c)[i] \notin Uploaders
    <3>1. at[c] \in 1..2 /\ i \in 1..2
      <4>1. at[c] \in 1..Len(Want(c)) /\ (Len(Want(c)) = 1 \/ Len(Want(c)) = 2)
        BY <1>2, <2>2, WantIs DEF DirShape
      <4>2. 1..Len(Want(c)) \subseteq 1..2
        BY WantIs
      <4> QED
        BY <2>2, <4>1, <4>2
    <3>2. i = 1
      BY <2>2, <3>1
    <3> QED
      BY <3>2, WantIs, RemoteDirsAssumption
  <2> QED
    BY <2>1, <2>2
<1>h. phase[c] \notin Happy \cup {"idle"}
  <2>1. Len(<<>>) = 0
    OBVIOUS
  <2> QED
    BY <1>2, <1>q, <2>1 DEF Safe
<1> DEFINE Rmdir == Does(c, "rmdir", p)
<1>3. ASSUME Server', \A q \in Paths : Spared(q),
             \A q \in Paths \ {"date"} : Stays(q) \/ (Rmdir /\ q = p),
             \A d \in Clients \ {c} : heard'[d] = heard[d],
             \A q \in Paths : heard'[c][q].made = "ok" => ~Foreign(tree'[q]),
             \A q \in Mine(c) \ {"date"} : Fits(heard'[c][q].saw) => Fits(tree'[q]),
             Rmdir => p = c /\ c \in Uploaders /\ asks[c] = <<Request("rmdir", c)>>
      PROVE  DirInv'
  <2>1. DirShape'
    BY <1>2, <1>3, ServeShape
  <2>2. OnlyInbox'
    BY <1>2, <1>3, InboxSpared
  <2>3. ASSUME NEW d \in Clients \ {c} PROVE Safe(d)'
    <3>1. \A q \in Mine(d) \ {"date"} : Stays(q)
      BY <1>3, <2>3, RemoteDirsAssumption DEF Mine, Paths
    <3> QED
      BY <1>2, <1>3, <1>q, <2>3, <3>1, OthersSafe DEF DirInv
  <2>4. \A i \in 1..Len(asks'[c]) : RequestOK(c, i)'
    <3>1. SUFFICES ASSUME NEW i \in 1..Len(asks'[c]) PROVE RequestOK(c, i)'
      OBVIOUS
    <3>2. asks'[c][i] = asks[c][i + 1] /\ i + 1 \in 1..Len(asks[c])
          /\ asks[c][i + 1].path \in Paths /\ RequestOK(c, i + 1)
      BY <1>2, <1>q, <3>1, AskIs DEF Safe
    <3>3. asks[c][i + 1].op # "rmdir"
      <4>1. Len(<<Request("rmdir", c)>>) = 1 /\ i + 1 > 1
        BY <3>1
      <4> QED
        BY <3>2, <4>1 DEF RequestOK
    <3> QED
      BY <1>3, <3>2, <3>3 DEF RequestOK, Spared
  <2>5. \A i \in 1..Len(Want(c)) : phase[c] \in Settling /\ i < at[c] => Settled(c, i)'
    BY <1>2, <1>3, <1>w DEF Safe, Settled, Stays
  <2>6. Safe(c)'
    BY <1>2, <1>3, <1>h, <1>q, <2>4, <2>5 DEF Safe
  <2> QED
    BY <2>1, <2>2, <2>3, <2>6 DEF DirInv
<1>4. \A q \in Paths : heard[c][q].made = "ok" => ~Foreign(tree[q])
  BY <1>2 DEF Safe
<1>5. \A q \in Mine(c) \ {"date"} : q \in Paths /\ (Fits(heard[c][q].saw) => Fits(tree[q]))
  BY <1>2 DEF Safe, Mine, Paths
<1>6. CASE Does(c, "mkdir", p) /\ Mkdir(c, p)
  <2>1. ~Rmdir
    BY <1>6 DEF Does
  <2>2. \A q \in Paths : Spared(q) /\ Stays(q)
    BY <1>2, <1>6, MkdirIs
  <2>3. \A q \in Paths : heard'[c][q].made = "ok" => ~Foreign(tree'[q])
    BY <1>2, <1>4, <1>6, <2>2, MkdirIs DEF Spared
  <2>4. \A q \in Paths : heard'[c][q].saw = heard[c][q].saw
    BY <1>2, <1>6, MkdirIs
  <2> QED
    BY <1>2, <1>3, <1>5, <1>6, <2>1, <2>2, <2>3, <2>4, MkdirIs DEF Stays
<1>7. CASE Does(c, "lstat", p) /\ Lstat(c, p)
  <2>1. ~Rmdir
    BY <1>7 DEF Does
  <2>2. \A q \in Paths : Spared(q) /\ Stays(q)
    BY <1>2, <1>7, LstatIs
  <2>3. \A q \in Paths : heard'[c][q].made = "ok" => ~Foreign(tree'[q])
    BY <1>2, <1>4, <1>7, LstatIs
  <2>4. \A q \in Mine(c) \ {"date"} : Fits(heard'[c][q].saw) => Fits(tree'[q])
    BY <1>2, <1>5, <1>7, LstatIs
  <2> QED
    BY <1>2, <1>3, <1>7, <2>1, <2>2, <2>3, <2>4, LstatIs
<1>8. CASE Does(c, "chmod", p) /\ SetMode(c, p)
  <2>1. ~Rmdir /\ ~Foreign(tree[p])
    BY <1>2, <1>8, <1>q DEF Does, Safe, RequestOK
  <2>2. \A q \in Paths : Spared(q) /\ Stays(q)
    BY <1>2, <1>8, <2>1, SetModeIs
  <2>3. \A q \in Paths : heard'[c][q].made = "ok" => ~Foreign(tree'[q])
    BY <1>2, <1>4, <1>8, <2>1, <2>2, SetModeIs DEF Spared
  <2>4. \A q \in Paths : heard'[c][q].saw = heard[c][q].saw
    BY <1>2, <1>8, <2>1, SetModeIs
  <2> QED
    BY <1>2, <1>3, <1>5, <1>8, <2>1, <2>2, <2>3, <2>4, SetModeIs DEF Stays
<1>9. CASE Does(c, "rmdir", p) /\ tree' = WithoutDir(p) /\ UNCHANGED heard
  <2>1. asks[c] = <<Request("rmdir", c)>> /\ c \in Uploaders /\ Blank(c)
    BY <1>2, <1>9, <1>q DEF Does, Safe, RequestOK
  <2>2. p = c
    BY <1>9, <2>1 DEF Does, Request
  <2>3. ~Foreign(tree[p]) /\ p # "inbox"
    BY <1>2, <2>1, <2>2, RemoteDirsAssumption DEF OnlyInbox, Paths
  <2>4. \A q \in Paths : Spared(q) /\ (q # p => Stays(q))
    BY <1>2, <1>9, <2>3, RmdirIs
  <2>5. \A q \in Paths : heard'[c][q].made # "ok" /\ ~Fits(heard'[c][q].saw)
    BY <1>9, <2>1 DEF Blank, Unheard, Fits, IsDir
  <2>6. Server'
    BY <1>2, <1>9, <2>3, RmdirIs
  <2>7. \A q \in Mine(c) : q \in Paths
    BY DEF Mine, Paths
  <2> QED
    BY <1>3, <1>9, <2>1, <2>2, <2>4, <2>5, <2>6, <2>7
<1> QED
  BY <1>1, <1>6, <1>7, <1>8, <1>9

\* A step of the client itself, which touches only its own record.
Own(c) ==
  /\ UNCHANGED <<tree, honours, chmods, writable>>
  /\ \A d \in Clients \ {c} :
       UNCHANGED <<heard[d], asks[d], phase[d], at[d], nested[d], second[d]>>

\* What a client does on its own is no matter of the others.
LEMMA OwnSafe ==
  ASSUME DirInv, NEW c \in Clients, Own(c), DirShape', Safe(c)'
  PROVE  DirInv'
<1>1. \A p \in Paths : Spared(p) /\ Stays(p)
  BY DEF Own, Spared, Stays
<1>2. \A d \in Clients \ {c} : Safe(d)'
  <2>1. ASSUME NEW d \in Clients \ {c} PROVE Safe(d)'
    <3>1. \A p \in Mine(d) \ {"date"} : Stays(p)
      BY <1>1 DEF Mine, Paths
    <3>2. DirShape /\ Safe(d)
      BY DEF DirInv
    <3> QED
      BY <1>1, <3>1, <3>2, OthersSafe DEF Own
  <2> QED
    BY <2>1
<1> QED
  BY <1>1, <1>2, InboxSpared DEF DirInv

\* What the steps of a client have in common: it goes on with new requests.
LEMMA ProceedsIs ==
  ASSUME DirShape, NEW c \in Clients, NEW place \in ClientPlaces, NEW requests \in Seq(Requests(c)),
         Proceeds(c, place, requests)
  PROVE  /\ phase' \in [Clients -> ClientPlaces] /\ phase'[c] = place
         /\ DOMAIN asks' = Clients /\ asks'[c] = requests
         /\ \A d \in Clients : asks'[d] \in Seq(Requests(d))
         /\ \A d \in Clients \ {c} : UNCHANGED <<phase[d], asks[d]>>
BY DEF DirShape, Proceeds

LEMMA NoRequests == ASSUME NEW c PROVE <<>> \in Seq(Requests(c)) /\ Len(<<>>) = 0
  OBVIOUS

LEMMA BeginSafe ==
  ASSUME DirInv, NEW c \in Clients, BeginClient(c)
  PROVE  DirInv'
<1> DEFINE requests == IF c \in Uploaders THEN Pair("inbox") \o Pair(c) ELSE Pair("inbox")
<1>1. DirShape /\ Safe(c) /\ phase[c] = "idle" /\ at[c] = 1 /\ Blank(c)
  BY DEF DirInv, Safe, BeginClient
<1>2. requests \in Seq(Requests(c))
      /\ \A i \in 1..Len(requests) : requests[i].op \in {"mkdir", "lstat"}
  <2>1. "inbox" \in Mine(c) /\ (c \in Uploaders => c \in Mine(c))
    BY DEF Mine
  <2>2. ASSUME NEW p \in Mine(c)
        PROVE  Pair(p) \in Seq(Requests(c)) /\ Len(Pair(p)) = 2
               /\ \A i \in 1..2 : Pair(p)[i].op \in {"mkdir", "lstat"}
    BY PairIs, RequestIs DEF Ops
  <2> QED
    BY <2>1, <2>2
<1> HIDE DEF requests
<1>3. /\ Proceeds(c, "settle", requests)
      /\ UNCHANGED <<tree, honours, chmods, writable, at, nested, second, heard>>
  BY DEF BeginClient, server, requests
<1>4. "settle" \in ClientPlaces /\ "settle" \in Settling /\ "settle" \notin Happy \cup {"idle"}
  BY DEF ClientPlaces, Settling, Happy, Checking
<1>5. DirShape' /\ Own(c) /\ phase'[c] = "settle" /\ asks'[c] = requests
  <2>1. /\ phase' \in [Clients -> ClientPlaces] /\ phase'[c] = "settle"
        /\ DOMAIN asks' = Clients /\ asks'[c] = requests
        /\ \A d \in Clients : asks'[d] \in Seq(Requests(d))
        /\ \A d \in Clients \ {c} : UNCHANGED <<phase[d], asks[d]>>
    BY <1>1, <1>2, <1>3, <1>4, ProceedsIs
  <2>2. at[c] \in 1..Len(Want(c))
    BY <1>1, WantIs
  <2> QED
    BY <1>1, <1>3, <2>1, <2>2 DEF DirShape, Own, Server
<1>6. Safe(c)'
  <2>1. \A i \in 1..Len(Want(c)) : ~(i < at[c])
    BY <1>1
  <2> QED
    BY <1>1, <1>2, <1>3, <1>4, <1>5, <2>1 DEF Safe, RequestOK, Settled
<1> QED
  BY <1>5, <1>6, OwnSafe

\* A step of the client that asks nothing improper and forgets at most.
LEMMA OwnRecord ==
  ASSUME DirInv, NEW c \in Clients, Own(c), DirShape',
         \A p \in Paths : heard'[c][p] = heard[c][p] \/ heard'[c][p] = Unheard,
         \A i \in 1..Len(asks'[c]) : RequestOK(c, i)',
         phase'[c] # "idle", phase'[c] \in Happy => asks'[c] = <<>>,
         \A i \in 1..Len(Want(c)) :
           phase'[c] \in Happy \/ (phase'[c] \in Settling /\ i < at'[c]) => Settled(c, i),
         phase'[c] \in Settling /\ nested'[c] # <<>> =>
           nested'[c][Len(nested'[c])] = Want(c)[at'[c]]
  PROVE  DirInv'
<1>1. Safe(c) /\ tree' = tree
  BY DEF DirInv, Own
<1>2. Unheard.made # "ok" /\ ~Fits(Unheard.saw)
  BY DEF Unheard, Fits, IsDir
<1>3. \A p \in Paths : heard'[c][p].made = "ok" => ~Foreign(tree'[p])
  BY <1>1, <1>2 DEF Safe
<1>4. \A p \in Mine(c) \ {"date"} : Fits(heard'[c][p].saw) => Fits(tree'[p])
  BY <1>1, <1>2 DEF Safe, Mine, Paths
<1>5. \A i \in 1..Len(Want(c)) : Settled(c, i)' = Settled(c, i)
  BY <1>1 DEF Settled
<1>6. Safe(c)'
  BY <1>3, <1>4, <1>5 DEF Safe
<1> QED
  BY <1>6, OwnSafe

\* A client that gives up asks at most for its own batch to be removed.
LEMMA FailsSafe ==
  ASSUME DirInv, NEW c \in Clients, phase[c] \in Settling, Fails(c), UNCHANGED <<server, tree>>
  PROVE  DirInv'
<1> DEFINE requests == IF Created(c) = {} THEN <<>> ELSE <<Request("rmdir", c)>>
<1>1. DirShape /\ Safe(c)
  BY DEF DirInv
<1>2. /\ requests \in Seq(Requests(c))
      /\ requests # <<>> => c \in Uploaders /\ requests = <<Request("rmdir", c)>>
  <2>1. CASE Created(c) # {}
    <3>1. PICK i \in (at[c] + 1)..Len(Want(c)) : TRUE
      BY <2>1 DEF Created
    <3>2. c \in Uploaders
      <4>1. at[c] \in 1..Len(Want(c))
        BY <1>1 DEF DirShape
      <4>2. Len(Want(c)) # 1
        <5>1. SUFFICES ASSUME Len(Want(c)) = 1 PROVE FALSE
          OBVIOUS
        <5>2. at[c] \in 1..1 /\ i \in (at[c] + 1)..1
          BY <3>1, <4>1, <5>1
        <5> QED
          BY <5>2
      <4> QED
        BY <4>2, WantIs
    <3>3. Request("rmdir", c) \in Requests(c)
      BY <3>2, RequestIs DEF Ops, Mine
    <3> QED
      BY <2>1, <3>2, <3>3
  <2>2. CASE Created(c) = {}
    BY <2>2
  <2> QED
    BY <2>1, <2>2
<1>3. "undo" \in ClientPlaces /\ "undo" \notin Happy \cup Settling \cup {"idle"}
  BY DEF ClientPlaces, Settling, Happy, Checking
<1>4. Proceeds(c, "undo", requests)
  BY DEF Fails
<1> HIDE DEF requests
<1>5. /\ phase' \in [Clients -> ClientPlaces] /\ phase'[c] = "undo"
      /\ DOMAIN asks' = Clients /\ asks'[c] = requests
      /\ \A d \in Clients : asks'[d] \in Seq(Requests(d))
      /\ \A d \in Clients \ {c} : UNCHANGED <<phase[d], asks[d]>>
  BY <1>1, <1>2, <1>3, <1>4, ProceedsIs
<1>6. Unheard \in Heard
  BY DEF Unheard, Heard, MadeAnswers
<1>7. heard' = [heard EXCEPT ![c] = [p \in Paths |-> Unheard]] /\ at' = at
      /\ nested' = [nested EXCEPT ![c] = <<>>] /\ second' = [second EXCEPT ![c] = FALSE]
  BY DEF Fails, Forgets
<1>8. Own(c) /\ Blank(c)' /\ \A p \in Paths : heard'[c][p] = Unheard
  BY <1>1, <1>5, <1>7 DEF Own, Blank, DirShape, Server, server
<1>9. DirShape'
  <2>1. Server' /\ DOMAIN second' = Clients /\ DOMAIN nested' = Clients
    BY <1>1, <1>6, <1>7 DEF DirShape, Server
  <2>2. \A d \in Clients : nested'[d] \in Seq(Mine(d))
    BY <1>1, <1>7 DEF DirShape
  <2> QED
    BY <1>1, <1>3, <1>5, <1>7, <2>1, <2>2 DEF DirShape
<1>10. \A i \in 1..Len(asks'[c]) : RequestOK(c, i)'
  <2>1. SUFFICES ASSUME NEW i \in 1..Len(asks'[c]) PROVE RequestOK(c, i)'
    OBVIOUS
  <2>2. requests = <<Request("rmdir", c)>> /\ c \in Uploaders /\ asks'[c][i] = Request("rmdir", c)
    BY <1>2, <1>5, <2>1
  <2> QED
    BY <1>5, <1>8, <2>2 DEF RequestOK, Request
<1> QED
  BY <1>3, <1>5, <1>8, <1>9, <1>10, OwnRecord

\* A path is settled only when what was seen there fits.
LEMMA SettledSafe ==
  ASSUME DirInv, NEW c \in Clients, phase[c] \in Settling, Fits(Saw(c)), SettledOn(c),
         heard' = [heard EXCEPT ![c][Path(c)] = Unheard], UNCHANGED <<server, tree>>
  PROVE  DirInv'
<1>1. DirShape /\ Safe(c) /\ Path(c) \in Mine(c) /\ Path(c) \in Paths
      /\ at[c] \in 1..Len(Want(c)) /\ Len(Want(c)) \in Nat /\ nested[c] \in Seq(Mine(c))
  BY PathIs, WantIs DEF DirInv, DirShape
<1>2. /\ heard' \in [Clients -> [Paths -> Heard]]
      /\ \A p \in Paths : heard'[c][p] = heard[c][p] \/ heard'[c][p] = Unheard
      /\ \A d \in Clients \ {c} : heard'[d] = heard[d]
  <2>1. Unheard \in Heard
    BY DEF Unheard, Heard, MadeAnswers
  <2> QED
    BY <1>1, <2>1 DEF DirShape, Server
<1>3. CASE Len(nested[c]) > 1
  <2>1. nested[c][2] \in Mine(c) /\ Pair(nested[c][2]) \in Seq(Requests(c))
    BY <1>1, <1>3, PairIs
  <2>2. "settle" \in ClientPlaces /\ "settle" \in Settling /\ "settle" \notin Happy \cup {"idle"}
    BY DEF ClientPlaces, Settling, Happy, Checking
  <2>3. /\ Proceeds(c, "settle", Pair(nested[c][2])) /\ at' = at
        /\ nested' = [nested EXCEPT ![c] = Tail(nested[c])]
        /\ second' = [second EXCEPT ![c] = TRUE]
    BY <1>3 DEF SettledOn
  <2>4. /\ phase' \in [Clients -> ClientPlaces] /\ phase'[c] = "settle"
        /\ DOMAIN asks' = Clients /\ asks'[c] = Pair(nested[c][2])
        /\ \A d \in Clients : asks'[d] \in Seq(Requests(d))
        /\ \A d \in Clients \ {c} : UNCHANGED <<phase[d], asks[d]>>
    BY <1>1, <2>1, <2>2, <2>3, ProceedsIs
  <2>5. /\ Tail(nested[c]) \in Seq(Mine(c))
        /\ Tail(nested[c])[Len(Tail(nested[c]))] = nested[c][Len(nested[c])]
    BY <1>1, <1>3
  <2>6. nested'[c] = Tail(nested[c]) /\ \A d \in Clients \ {c} : nested'[d] = nested[d]
    BY <1>1, <2>3 DEF DirShape
  <2>7. DirShape' /\ Own(c)
    <3>1. Own(c)
      BY <1>2, <2>3, <2>4, <2>6 DEF Own, server
    <3>2. DOMAIN nested' = Clients /\ \A d \in Clients : nested'[d] \in Seq(Mine(d))
      BY <1>1, <2>3, <2>5, <2>6 DEF DirShape
    <3>3. \A d \in Clients : phase'[d] \in Settling => at'[d] \in 1..Len(Want(d))
      BY <1>1, <2>3, <2>4 DEF DirShape
    <3> QED
      BY <1>1, <1>2, <2>3, <2>4, <3>1, <3>2, <3>3 DEF DirShape, Server, server
  <2>8. \A i \in 1..Len(asks'[c]) : RequestOK(c, i)'
    BY <2>1, <2>4, PairIs, RequestIs DEF RequestOK, Ops
  <2>9. nested'[c][Len(nested'[c])] = Want(c)[at'[c]]
    BY <1>1, <1>3, <2>3, <2>5, <2>6 DEF Safe
  <2> QED
    BY <1>1, <1>2, <2>2, <2>3, <2>4, <2>7, <2>8, <2>9, OwnRecord DEF Safe
<1>4. CASE ~(Len(nested[c]) > 1)
  <2> DEFINE place == IF at[c] < Len(Want(c)) THEN "settle"
                      ELSE IF c \in Checkers THEN "upload" ELSE "done"
  <2>1. place \in ClientPlaces /\ place # "idle" /\ (place \in Settling => at[c] < Len(Want(c)))
    BY DEF ClientPlaces, Settling, Checking
  <2> HIDE DEF place
  <2>2. /\ Proceeds(c, place, <<>>) /\ at' = [at EXCEPT ![c] = at[c] + 1]
        /\ nested' = [nested EXCEPT ![c] = <<>>]
        /\ second' = [second EXCEPT ![c] = FALSE]
    BY <1>4 DEF SettledOn, place
  <2>3. /\ phase' \in [Clients -> ClientPlaces] /\ phase'[c] = place
        /\ DOMAIN asks' = Clients /\ asks'[c] = <<>>
        /\ \A d \in Clients : asks'[d] \in Seq(Requests(d))
        /\ \A d \in Clients \ {c} : UNCHANGED <<phase[d], asks[d]>>
    BY <1>1, <2>1, <2>2, NoRequests, ProceedsIs
  <2>4. DirShape' /\ Own(c) /\ at'[c] = at[c] + 1 /\ nested'[c] = <<>>
    <3>1. at[c] + 1 \in Nat /\ (place \in Settling => at[c] + 1 \in 1..Len(Want(c)))
      BY <1>1, <2>1
    <3>2. at' \in [Clients -> Nat] /\ at'[c] = at[c] + 1
          /\ \A d \in Clients \ {c} : at'[d] = at[d]
      BY <1>1, <2>2, <3>1 DEF DirShape
    <3> QED
      BY <1>1, <1>2, <2>2, <2>3, <3>1, <3>2 DEF DirShape, Server, Own, server
  <2>5. Path(c) = Want(c)[at[c]]
    <3>1. \/ nested[c] = <<>>
          \/ nested[c] # <<>> /\ Len(nested[c]) = 1 /\ Head(nested[c]) = nested[c][1]
      <4>1. Len(nested[c]) \in Nat /\ (nested[c] # <<>> => Len(nested[c]) # 0)
        BY <1>1, EmptySeq
      <4>2. nested[c] # <<>> => Len(nested[c]) = 1
        <5> DEFINE k == Len(nested[c])
        <5>1. k \in Nat /\ ~(k > 1) /\ (nested[c] # <<>> => k # 0)
          BY <1>4, <4>1
        <5> HIDE DEF k
        <5>2. nested[c] # <<>> => k = 1
          BY <5>1
        <5> QED
          BY <5>2 DEF k
      <4> QED
        BY <1>1, <4>2
    <3> QED
      BY <1>1, <3>1 DEF Path, Safe
  <2>6. Settled(c, at[c])
    <3>1. Path(c) \in Mine(c) \ {"date"}
      BY <1>1, <2>5, WantIs
    <3> QED
      BY <1>1, <2>5, <3>1 DEF Safe, Saw, Settled
  <2>7. \A i \in 1..Len(Want(c)) : i < at[c] + 1 => Settled(c, i)
    BY <1>1, <2>6 DEF Safe
  <2>8. \A i \in 1..Len(Want(c)) : place \in Happy \/ i < at'[c] => Settled(c, i)
    <3>1. place \in Happy => ~(at[c] < Len(Want(c)))
      BY DEF place, Happy, Checking
    <3> QED
      BY <1>1, <2>4, <2>7, <3>1
  <2>9. \A i \in 1..Len(asks'[c]) : RequestOK(c, i)'
    BY <2>3, NoRequests
  <2>10. \A p \in Paths : heard'[c][p] = heard[c][p] \/ heard'[c][p] = Unheard
    BY <1>2
  <2>11. \A i \in 1..Len(Want(c)) :
          phase'[c] \in Happy \/ (phase'[c] \in Settling /\ i < at'[c]) => Settled(c, i)
    BY <2>3, <2>8
  <2> QED
    BY <2>1, <2>3, <2>4, <2>9, <2>10, <2>11, OwnRecord
<1> QED
  BY <1>3, <1>4

LEMMA ReportedIs ==
  ASSUME DirInv, NEW c \in Clients, phase[c] \in Settling
  PROVE  /\ Path(c) \in Mine(c) /\ Path(c) \in Paths
         /\ Ours(c) => ~Foreign(tree[Path(c)])
BY PathIs DEF DirInv, Ours, Reported, Safe

\* A step that sends some more requests about the path, or about its parent.
LEMMA AsksMore ==
  ASSUME DirInv, NEW c \in Clients, phase[c] \in Settling,
         NEW place \in Settling, NEW requests \in Seq(Requests(c)), Proceeds(c, place, requests),
         \A i \in 1..Len(requests) :
           /\ requests[i].op # "rmdir"
           /\ requests[i].op = "chmod" => ~Foreign(tree[requests[i].path]),
         NEW chain \in Seq(Mine(c)), nested'[c] = chain, DOMAIN nested' = Clients,
         \A d \in Clients \ {c} : nested'[d] = nested[d],
         chain # <<>> => chain[Len(chain)] = Want(c)[at[c]],
         UNCHANGED <<server, tree, at, second, heard>>
  PROVE  DirInv'
<1>1. DirShape /\ Safe(c)
  BY DEF DirInv
<1>2. place \in ClientPlaces /\ place \notin Happy \cup {"idle"}
  BY DEF ClientPlaces, Settling, Happy, Checking
<1>3. /\ phase' \in [Clients -> ClientPlaces] /\ phase'[c] = place
      /\ DOMAIN asks' = Clients /\ asks'[c] = requests
      /\ \A d \in Clients : asks'[d] \in Seq(Requests(d))
      /\ \A d \in Clients \ {c} : UNCHANGED <<phase[d], asks[d]>>
  BY <1>1, <1>2, ProceedsIs
<1>5. Own(c)
  BY <1>3 DEF Own, server
<1>6. DirShape'
  BY <1>1, <1>3 DEF DirShape, Server
<1>7. \A i \in 1..Len(asks'[c]) : RequestOK(c, i)'
  BY <1>3 DEF RequestOK
<1>8. \A i \in 1..Len(Want(c)) : i < at'[c] => Settled(c, i)
  BY <1>1 DEF Safe
<1> QED
  BY <1>2, <1>3, <1>5, <1>6, <1>7, <1>8, OwnRecord

LEMMA MakeParentSafe ==
  ASSUME DirInv, NEW c \in Clients, MakeParent(c)
  PROVE  DirInv'
<1> DEFINE next == IF nested[c] = <<>> THEN Path(c) ELSE Parent(Path(c))
<1>1. DirShape /\ Safe(c) /\ phase[c] = "settle" /\ "settle" \in Settling
      /\ nested[c] \in Seq(Mine(c)) /\ DOMAIN nested = Clients
  BY DEF DirInv, DirShape, MakeParent, AllAnswered, Settling
<1>2. next \in Mine(c)
  BY <1>1, PathIs DEF Parent, Mine
<1>3. /\ Pair(next) \in Seq(Requests(c))
      /\ \A i \in 1..Len(Pair(next)) : Pair(next)[i].op \in {"mkdir", "lstat"}
  BY <1>2, PairIs, RequestIs DEF Ops
<1>4. /\ <<next>> \o nested[c] \in Seq(Mine(c))
      /\ (<<next>> \o nested[c])[Len(<<next>> \o nested[c])] = Want(c)[at[c]]
  <2>1. <<next>> \in Seq(Mine(c)) /\ Len(<<next>>) = 1 /\ <<next>>[1] = next
    BY <1>2
  <2>2. /\ <<next>> \o nested[c] \in Seq(Mine(c)) /\ Len(<<next>> \o nested[c]) = 1 + Len(nested[c])
        /\ \A i \in 1..(1 + Len(nested[c])) :
             (<<next>> \o nested[c])[i] = IF i =< 1 THEN next ELSE nested[c][i - 1]
    BY <1>1, <2>1, ConcatProperties
  <2>3. CASE nested[c] = <<>>
    BY <2>2, <2>3 DEF Path
  <2>4. CASE nested[c] # <<>>
    <3>1. Len(nested[c]) \in Nat \ {0}
      BY <1>1, <2>4, EmptySeq
    <3> QED
      BY <1>1, <2>2, <2>4, <3>1 DEF Safe
  <2> QED
    BY <2>2, <2>3, <2>4
<1>5. /\ nested' = [nested EXCEPT ![c] = <<next>> \o nested[c]]
      /\ Proceeds(c, "settle", Pair(next)) /\ UNCHANGED <<server, tree, at, second, heard>>
  BY DEF MakeParent
<1> HIDE DEF next
<1> DEFINE longer == <<next>> \o nested[c]
<1>6. longer \in Seq(Mine(c)) /\ longer[Len(longer)] = Want(c)[at[c]]
      /\ nested'[c] = longer /\ DOMAIN nested' = Clients
      /\ \A d \in Clients \ {c} : nested'[d] = nested[d]
  BY <1>1, <1>4, <1>5
<1> HIDE DEF longer
<1>7. \A i \in 1..Len(Pair(next)) : Pair(next)[i].op # "rmdir" /\ Pair(next)[i].op # "chmod"
  BY <1>3
<1> QED
  BY <1>1, <1>3, <1>5, <1>6, <1>7, AsksMore

LEMMA AsksSafe ==
  ASSUME DirInv, NEW c \in Clients, Tighten(c) \/ LookAgain(c)
  PROVE  DirInv'
<1>1. DirShape /\ Safe(c) /\ phase[c] = "settle" /\ {"settle", "chmod", "again"} \subseteq Settling
      /\ nested[c] \in Seq(Mine(c)) /\ DOMAIN nested = Clients
      /\ UNCHANGED <<server, tree, at, nested, second, heard>>
  BY DEF DirInv, DirShape, Tighten, LookAgain, AllAnswered, Settling
<1>2. nested[c] # <<>> => nested[c][Len(nested[c])] = Want(c)[at[c]]
  BY <1>1 DEF Safe
<1>3. Path(c) \in Mine(c) /\ (Ours(c) => ~Foreign(tree[Path(c)]))
  BY <1>1, ReportedIs
<1> DEFINE chmod == Request("chmod", Path(c))
           lstat == Request("lstat", Path(c))
<1>4. /\ chmod \in Requests(c) /\ chmod.op = "chmod" /\ chmod.path = Path(c)
      /\ lstat \in Requests(c) /\ lstat.op = "lstat"
  BY <1>3, RequestIs DEF Ops
<1>5. CASE Tighten(c)
  <2>1. Proceeds(c, "chmod", <<chmod, lstat>>) /\ Ours(c)
    BY <1>5 DEF Tighten
  <2> HIDE DEF chmod, lstat
  <2> DEFINE requests == <<chmod, lstat>>
  <2>2. requests \in Seq(Requests(c)) /\ \A i \in 1..Len(requests) :
           /\ requests[i].op # "rmdir"
           /\ requests[i].op = "chmod" => ~Foreign(tree[requests[i].path])
    BY <1>3, <1>4, <2>1
  <2> HIDE DEF requests
  <2>3. Proceeds(c, "chmod", requests)
    BY <2>1 DEF requests
  <2> QED
    BY <1>1, <1>2, <2>2, <2>3, AsksMore
<1>6. CASE LookAgain(c)
  <2>1. Proceeds(c, "again", <<lstat>>)
    BY <1>6 DEF LookAgain
  <2> HIDE DEF chmod, lstat
  <2> DEFINE requests == <<lstat>>
  <2>2. requests \in Seq(Requests(c)) /\ \A i \in 1..Len(requests) :
           /\ requests[i].op # "rmdir"
           /\ requests[i].op = "chmod" => ~Foreign(tree[requests[i].path])
    BY <1>4, <2>1
  <2> HIDE DEF requests
  <2>3. Proceeds(c, "again", requests)
    BY <2>1 DEF requests
  <2> QED
    BY <1>1, <1>2, <2>2, <2>3, AsksMore
<1> QED
  BY <1>5, <1>6

LEMMA SettlesSafe ==
  ASSUME DirInv, NEW c \in Clients,
         StillMissing(c) \/ SettleNow(c) \/ SettleFails(c) \/ SettleLate(c)
  PROVE  DirInv'
<1>1. phase[c] \in Settling /\ UNCHANGED <<server, tree>>
  BY DEF StillMissing, SettleNow, SettleFails, SettleLate, AllAnswered, Settling
<1>2. CASE Fails(c)
  BY <1>1, <1>2, FailsSafe
<1>3. CASE Fits(Saw(c)) /\ SettledOn(c) /\ heard' = [heard EXCEPT ![c][Path(c)] = Unheard]
  BY <1>1, <1>3, SettledSafe
<1> QED
  BY <1>2, <1>3 DEF StillMissing, SettleNow, SettleFails, SettleLate

\* A step after which the client asks nothing and settles nothing any more.
LEMMA DoneSafe ==
  ASSUME DirInv, NEW c \in Clients, NEW place \in ClientPlaces \ (Settling \cup {"idle"}),
         Proceeds(c, place, <<>>), place \in Happy => phase[c] \in Happy,
         UNCHANGED <<server, tree, at, nested, second, heard>>
  PROVE  DirInv'
<1>1. DirShape /\ Safe(c)
  BY DEF DirInv
<1>2. /\ phase' \in [Clients -> ClientPlaces] /\ phase'[c] = place
      /\ DOMAIN asks' = Clients /\ asks'[c] = <<>>
      /\ \A d \in Clients : asks'[d] \in Seq(Requests(d))
      /\ \A d \in Clients \ {c} : UNCHANGED <<phase[d], asks[d]>>
  BY <1>1, NoRequests, ProceedsIs
<1>3. Own(c)
  BY <1>2 DEF Own, server
<1>4. DirShape'
  BY <1>1, <1>2 DEF DirShape, Server
<1>5. \A i \in 1..Len(Want(c)) : place \in Happy => Settled(c, i)
  BY <1>1 DEF Safe
<1> QED
  BY <1>2, <1>3, <1>4, <1>5, NoRequests, OwnRecord

LEMMA LaterSafe ==
  ASSUME DirInv, NEW c \in Clients,
         Undone(c) \/ Upload(c) \/ Stat(c) \/ Remove(c) \/ LookLast(c)
  PROVE  DirInv'
<1>1. \A place \in {"failed", "stat", "unwell", "remove", "gone", "passed"} :
        place \in ClientPlaces \ (Settling \cup {"idle"})
  BY DEF ClientPlaces, Settling, Checking
<1>2. {"upload", "stat", "remove", "gone"} \subseteq Happy /\ "failed" \notin Happy
  BY DEF Happy, Checking
<1>3. CASE Undone(c)
  BY <1>1, <1>2, <1>3, DoneSafe DEF Undone
<1>4. ASSUME NEW place, NEW next \in {"stat", "unwell", "remove", "gone", "passed"},
             place \in Checking, Checks(c, place, next)
      PROVE  DirInv'
  BY <1>1, <1>2, <1>4, DoneSafe DEF Checks, AllAnswered, Checking
<1>5. CASE Upload(c)
  BY <1>4, <1>5 DEF Upload, Checking
<1>6. CASE Stat(c)
  BY <1>4, <1>6 DEF Stat, Checking
<1>7. CASE Remove(c)
  BY <1>4, <1>7 DEF Remove, Checking
<1>8. CASE LookLast(c)
  BY <1>4, <1>8 DEF LookLast, Checking
<1> QED
  BY <1>3, <1>5, <1>6, <1>7, <1>8

LEMMA DieSafe ==
  ASSUME DirInv, NEW c \in Clients, Die(c)
  PROVE  DirInv'
<1>1. DirShape /\ Safe(c) /\ phase[c] # "idle" /\ asks[c] \in Seq(Requests(c))
  BY DEF DirInv, DirShape, Die
<1>2. PICK k \in 0..Len(asks[c]) : Proceeds(c, "dead", SubSeq(asks[c], 1, k))
  BY DEF Die
<1> DEFINE sent == SubSeq(asks[c], 1, k)
<1>3. /\ sent \in Seq(Requests(c)) /\ Len(sent) = k
      /\ \A i \in 1..k : sent[i] = asks[c][i] /\ i \in 1..Len(asks[c])
  BY <1>1, <1>2
<1>4. \A i \in 1..k : sent[i].op = "rmdir" => sent = <<Request("rmdir", c)>> /\ c \in Uploaders
  <2>1. SUFFICES ASSUME NEW i \in 1..k, sent[i].op = "rmdir"
                 PROVE  sent = <<Request("rmdir", c)>> /\ c \in Uploaders
    OBVIOUS
  <2>2. asks[c] = <<Request("rmdir", c)>> /\ c \in Uploaders
    BY <1>1, <1>3, <2>1 DEF Safe, RequestOK
  <2>3. k = 1 /\ Len(asks[c]) = 1
    <3>1. Len(asks[c]) = 1
      BY <2>2
    <3> QED
      BY <1>2, <2>1, <3>1
  <2> QED
    BY <1>1, <1>3, <2>2, <2>3, SeqEqual
<1> HIDE DEF sent
<1>5. "dead" \in ClientPlaces /\ "dead" \notin Happy \cup Settling \cup {"idle"}
  BY DEF ClientPlaces, Settling, Happy, Checking
<1>6. /\ phase' \in [Clients -> ClientPlaces] /\ phase'[c] = "dead"
      /\ DOMAIN asks' = Clients /\ asks'[c] = sent
      /\ \A d \in Clients : asks'[d] \in Seq(Requests(d))
      /\ \A d \in Clients \ {c} : UNCHANGED <<phase[d], asks[d]>>
  BY <1>1, <1>2, <1>3, <1>5, ProceedsIs DEF sent
<1>7. heard' = [heard EXCEPT ![c] = [p \in Paths |-> Unheard]] /\ at' = at
      /\ nested' = [nested EXCEPT ![c] = <<>>] /\ second' = [second EXCEPT ![c] = FALSE]
      /\ UNCHANGED <<server, tree>>
  BY DEF Die, Forgets
<1>8. Own(c) /\ Blank(c)' /\ \A p \in Paths : heard'[c][p] = Unheard
  BY <1>1, <1>6, <1>7 DEF Own, Blank, DirShape, Server, server
<1>9. DirShape'
  <2>1. Unheard \in Heard
    BY DEF Unheard, Heard, MadeAnswers
  <2> QED
    BY <1>1, <1>5, <1>6, <1>7, <2>1 DEF DirShape, Server
<1>10. \A i \in 1..Len(asks'[c]) : RequestOK(c, i)'
  <2>1. SUFFICES ASSUME NEW i \in 1..k PROVE RequestOK(c, i)'
    BY <1>3, <1>6
  <2>2. sent[i].op = "chmod" => ~Foreign(tree[sent[i].path])
    BY <1>1, <1>3 DEF Safe, RequestOK
  <2> QED
    BY <1>4, <1>6, <1>7, <1>8, <2>2 DEF RequestOK
<1> QED
  BY <1>5, <1>6, <1>8, <1>9, <1>10, OwnRecord

LEMMA CleanSafe ==
  ASSUME DirInv, Clean
  PROVE  DirInv'
<1>1. DirShape /\ OnlyInbox /\ "date" \in Paths /\ ~Foreign(tree["date"])
      /\ tree' = WithoutDir("date") /\ UNCHANGED <<server, calls, asks, heard>>
  BY DEF DirInv, OnlyInbox, Paths, Clean
<1>2. Server' /\ \A q \in Paths : Spared(q) /\ (q # "date" => Stays(q))
  BY <1>1, RmdirIs
<1>3. DirShape'
  BY <1>1, <1>2 DEF DirShape, calls
<1>4. ASSUME NEW d \in Clients PROVE Safe(d)'
  <2>1. \A p \in Mine(d) \ {"date"} : Stays(p)
    BY <1>2 DEF Mine, Paths
  <2> QED
    BY <1>1, <1>2, <2>1, OthersSafe DEF DirInv, calls
<1> QED
  BY <1>1, <1>2, <1>3, <1>4, InboxSpared DEF DirInv

LEMMA DirInvNext ==
  ASSUME DirInv, [DirsNext]_dirVars
  PROVE  DirInv'
<1>1. CASE UNCHANGED dirVars
  <2>1. \A p \in Paths : Spared(p) /\ Stays(p)
    BY <1>1 DEF dirVars, Spared, Stays
  <2>2. DirShape'
    BY <1>1 DEF DirInv, dirVars, calls, DirShape, Server
  <2>3. ASSUME NEW d \in Clients PROVE Safe(d)'
    <3>1. \A p \in Mine(d) \ {"date"} : Stays(p)
      BY <2>1 DEF Mine, Paths
    <3> QED
      BY <1>1, <2>1, <3>1, OthersSafe DEF DirInv, dirVars, calls
  <2> QED
    BY <2>1, <2>2, <2>3, InboxSpared DEF DirInv
<1>2. CASE Clean
  BY <1>2, CleanSafe
<1>3. ASSUME NEW c \in Clients, BeginClient(c) \/ Serve(c) \/ Step(c) \/ Die(c)
      PROVE  DirInv'
  BY <1>3, BeginSafe, ServeSafe, MakeParentSafe, AsksSafe, SettlesSafe, LaterSafe, DieSafe DEF Step
<1> QED
  BY <1>1, <1>2, <1>3 DEF DirsNext

LEMMA DirInvInit == ASSUME DirsInit PROVE DirInv
<1>1. DirShape
  <2>1. tree \in [Paths -> Nodes \cup {Absent}]
    <3>1. Theirs \subseteq Nodes /\ Node("dir", "private", "clift") \in Nodes
      BY DEF Theirs, Nodes, Node
    <3> QED
      BY <3>1 DEF DirsInit
  <2>2. Unheard \in Heard
    BY DEF Unheard, Heard, MadeAnswers
  <2> QED
    BY <2>1, <2>2 DEF DirsInit, DirShape, Server, ClientPlaces, Settling
<1>2. OnlyInbox
  <2>1. ~Foreign(Node("dir", "private", "clift")) /\ ~Foreign(Absent)
    BY NodesAre DEF Foreign
  <2> QED
    BY <2>1 DEF DirsInit, OnlyInbox
<1>3. ASSUME NEW c \in Clients PROVE Safe(c)
  <2>1. phase[c] = "idle" /\ asks[c] = <<>> /\ at[c] = 1 /\ Blank(c) /\ nested[c] = <<>>
        /\ \A p \in Paths : heard[c][p] = Unheard
    BY DEF DirsInit, Blank
  <2>2. "idle" \notin Happy \cup Settling
    BY DEF Happy, Settling, Checking
  <2>3. Unheard.made # "ok" /\ ~Fits(Unheard.saw)
    BY DEF Unheard, Fits, IsDir
  <2>4. Mine(c) \subseteq Paths
    BY DEF Mine, Paths
  <2> QED
    BY <2>1, <2>2, <2>3, <2>4, NoRequests DEF Safe
<1> QED
  BY <1>1, <1>2, <1>3 DEF DirInv

\* A client that reports success leaves an inbox and a batch that are private
\* directories, whatever the server makes of modes and whoever else is at it
\* (fsops.rs, settle).
THEOREM PrivateHolds == DirsSpec => []PrivateWhenDone
<1>1. DirInv => PrivateWhenDone
  BY WantIs DEF DirInv, Safe, Settled, Fits, IsDir, Happy, PrivateWhenDone
<1> QED
  BY <1>1, DirInvInit, DirInvNext, PTL DEF DirsSpec

-----------------------------------------------------------------------------
(* What is the user's                                                        *)

\* A client's step is one the server executes, or concerns the client alone.
LEMMA StepOwn ==
  ASSUME DirShape, NEW c \in Clients, BeginClient(c) \/ Step(c) \/ Die(c)
  PROVE  Own(c) /\ cleaned' = cleaned
<1> USE DEF DirShape, Server, Own, server, Proceeds
<1>1. CASE BeginClient(c)
  BY <1>1 DEF BeginClient
<1>2. CASE Die(c)
  BY <1>2 DEF Die, Forgets
<1>3. CASE MakeParent(c)
  BY <1>3 DEF MakeParent
<1>4. ASSUME Fails(c), UNCHANGED <<server, tree, cleaned>> PROVE Own(c) /\ cleaned' = cleaned
  BY <1>4 DEF Fails, Forgets
<1>5. ASSUME SettledOn(c), heard' = [heard EXCEPT ![c][Path(c)] = Unheard],
             UNCHANGED <<server, tree, cleaned>>
      PROVE  Own(c) /\ cleaned' = cleaned
  BY <1>5 DEF SettledOn
<1>6. CASE StillMissing(c) \/ SettleNow(c) \/ SettleFails(c) \/ SettleLate(c)
  BY <1>4, <1>5, <1>6 DEF StillMissing, SettleNow, SettleFails, SettleLate
<1>7. CASE Tighten(c) \/ LookAgain(c) \/ Undone(c)
  BY <1>7 DEF Tighten, LookAgain, Undone
<1>8. CASE Upload(c) \/ Stat(c) \/ Remove(c) \/ LookLast(c)
  BY <1>8 DEF Upload, Stat, Remove, LookLast, Checks
<1> QED
  BY <1>1, <1>2, <1>3, <1>6, <1>7, <1>8 DEF Step

\* What the server does to the directories for a client.
LEMMA ServeTree ==
  ASSUME DirInv, NEW c \in Clients, Serve(c)
  PROVE  /\ \A q \in Paths : Spared(q) /\ (q \notin Mine(c) => tree'[q] = tree[q])
         /\ \A d \in Clients \ {c} : heard'[d] = heard[d]
<1>1. PICK p \in Mine(c) :
           \/ Does(c, "mkdir", p) /\ Mkdir(c, p)
           \/ Does(c, "lstat", p) /\ Lstat(c, p)
           \/ Does(c, "chmod", p) /\ SetMode(c, p)
           \/ Does(c, "rmdir", p) /\ tree' = WithoutDir(p) /\ UNCHANGED heard
  BY ServeCases DEF DirInv
<1>2. DirShape /\ Safe(c) /\ OnlyInbox /\ p \in Paths /\ 1 \in 1..Len(asks[c])
  BY ServedQueue DEF DirInv, Mine, Paths
<1>3. CASE Mkdir(c, p)
  BY <1>2, <1>3, MkdirIs
<1>4. CASE Lstat(c, p)
  BY <1>2, <1>4, LstatIs
<1>5. CASE Does(c, "chmod", p) /\ SetMode(c, p)
  <2>1. ~Foreign(tree[p])
    BY <1>2, <1>5 DEF Does, Safe, RequestOK
  <2> QED
    BY <1>2, <1>5, <2>1, SetModeIs
<1>6. CASE Does(c, "rmdir", p) /\ tree' = WithoutDir(p) /\ UNCHANGED heard
  <2>1. p = c /\ c \in Uploaders
    BY <1>2, <1>6 DEF Does, Safe, RequestOK, Request
  <2>2. ~Foreign(tree[p])
    BY <1>2, <2>1, RemoteDirsAssumption DEF OnlyInbox
  <2> QED
    BY <1>2, <1>6, <2>2, RmdirIs
<1> QED
  BY <1>1, <1>3, <1>4, <1>5, <1>6

LEMMA NextSpared ==
  ASSUME DirInv, [DirsNext]_dirVars
  PROVE  \A p \in Paths : Spared(p)
<1>1. CASE tree' = tree
  BY <1>1 DEF Spared
<1>2. CASE Clean
  <2>1. "date" \in Paths /\ ~Foreign(tree["date"]) /\ tree' = WithoutDir("date") /\ UNCHANGED heard
    BY <1>2 DEF DirInv, OnlyInbox, Paths, Clean
  <2> QED
    BY <2>1, RmdirIs DEF DirInv
<1>3. ASSUME NEW c \in Clients, Serve(c) PROVE \A p \in Paths : Spared(p)
  BY <1>3, ServeTree
<1> QED
  BY <1>1, <1>2, <1>3, StepOwn DEF DirsNext, dirVars, DirInv, Own

\* What the user had is checked and never corrected or removed (fsops.rs,
\* ensure_dir), however the requests of several clients interleave.
THEOREM UntouchedHolds == DirsSpec => UsersUntouched
<1>1. DirInv /\ [DirsNext]_dirVars =>
        [\A p \in Paths : tree[p] # Absent /\ tree[p].owner = "user" => tree'[p] = tree[p]]_dirVars
  BY NextSpared DEF Spared, Foreign
<1> QED
  BY <1>1, DirInvInit, DirInvNext, PTL DEF DirsSpec, UsersUntouched

-----------------------------------------------------------------------------
(* Queues of requests                                                        *)

Has(queue, op, p) == \E i \in 1..Len(queue) : queue[i].op = op /\ queue[i].path = p

\* Every mkdir is followed by a look at what is there, and is sent once.
Paired(queue) ==
  \A i \in 1..Len(queue) : queue[i].op = "mkdir" =>
    /\ i + 1 \in 1..Len(queue)
    /\ queue[i + 1].op = "lstat" /\ queue[i + 1].path = queue[i].path
Once(queue) ==
  \A i, j \in 1..Len(queue) :
    queue[i].op = "mkdir" /\ queue[j].op = "mkdir" /\ queue[i].path = queue[j].path => i = j

\* What is left of a queue when its first request is executed.
LEMMA TailQueue ==
  ASSUME NEW S, NEW q \in Seq(S), q # <<>>
  PROVE  /\ Paired(q) => Paired(Tail(q))
         /\ Once(q) => Once(Tail(q))
         /\ \A op, p : Has(Tail(q), op, p) => Has(q, op, p)
         /\ \A op, p : Has(q, op, p) => Has(Tail(q), op, p) \/ (q[1].op = op /\ q[1].path = p)
         /\ q[1].op = "mkdir" /\ Paired(q) => Has(Tail(q), "lstat", q[1].path)
         /\ q[1].op = "mkdir" /\ Once(q) => ~Has(Tail(q), "mkdir", q[1].path)
<1> DEFINE k == Len(q)
           t == Tail(q)
<1>1. k \in Nat /\ k > 0 /\ Len(t) = k - 1 /\ 1 \in 1..k
      /\ \A i \in 1..(k - 1) : t[i] = q[i + 1] /\ i + 1 \in 1..k
  BY TailIs
<1>2. \A i \in 1..k : i = 1 \/ (i - 1 \in 1..(k - 1) /\ t[i - 1] = q[i])
  BY <1>1
<1>3. Len(q) = k /\ Len(t) = k - 1
  BY <1>1
<1>4. Paired(q) => Paired(t)
  <2>1. SUFFICES ASSUME Paired(q), NEW i \in 1..(k - 1), t[i].op = "mkdir"
                 PROVE  i + 1 \in 1..(k - 1) /\ t[i + 1].op = "lstat" /\ t[i + 1].path = t[i].path
    BY <1>3 DEF Paired
  <2>2. q[i + 1].op = "mkdir" /\ i + 1 \in 1..k /\ t[i] = q[i + 1]
    BY <1>1, <2>1
  <2>3. (i + 1) + 1 \in 1..k /\ q[(i + 1) + 1].op = "lstat" /\ q[(i + 1) + 1].path = q[i + 1].path
    BY <2>1, <2>2 DEF Paired
  <2>4. i + 1 \in 1..(k - 1) /\ t[i + 1] = q[(i + 1) + 1]
    BY <1>1, <2>1, <2>3
  <2> QED
    BY <2>2, <2>3, <2>4
<1>5. Once(q) => Once(t)
  <2>1. SUFFICES ASSUME Once(q), NEW i \in 1..(k - 1), NEW j \in 1..(k - 1),
                        t[i].op = "mkdir", t[j].op = "mkdir", t[i].path = t[j].path
                 PROVE  i = j
    BY <1>3 DEF Once
  <2>2. i + 1 = j + 1
    BY <1>1, <2>1 DEF Once
  <2> QED
    BY <2>2
<1>6. ASSUME NEW op, NEW p, Has(t, op, p) PROVE Has(q, op, p)
  BY <1>1, <1>3, <1>6 DEF Has
<1>7. ASSUME NEW op, NEW p, Has(q, op, p) PROVE Has(t, op, p) \/ (q[1].op = op /\ q[1].path = p)
  <2>1. PICK i \in 1..k : q[i].op = op /\ q[i].path = p
    BY <1>7 DEF Has
  <2> QED
    BY <1>2, <1>3, <2>1 DEF Has
<1>8. q[1].op = "mkdir" /\ Paired(q) => Has(t, "lstat", q[1].path)
  <2>1. SUFFICES ASSUME q[1].op = "mkdir", Paired(q) PROVE Has(t, "lstat", q[1].path)
    OBVIOUS
  <2>2. 1 + 1 \in 1..k /\ q[1 + 1].op = "lstat" /\ q[1 + 1].path = q[1].path
    BY <1>1, <2>1 DEF Paired
  <2>3. 1 \in 1..(k - 1) /\ t[1] = q[1 + 1]
    BY <1>1, <2>2
  <2> QED
    BY <1>3, <2>2, <2>3 DEF Has
<1>9. q[1].op = "mkdir" /\ Once(q) => ~Has(t, "mkdir", q[1].path)
  <2>1. SUFFICES ASSUME q[1].op = "mkdir", Once(q), NEW i \in 1..(k - 1),
                        t[i].op = "mkdir", t[i].path = q[1].path
                 PROVE  FALSE
    BY <1>3 DEF Has
  <2>2. 1 = i + 1
    BY <1>1, <2>1 DEF Once
  <2> QED
    BY <2>1, <2>2
<1> QED
  BY <1>4, <1>5, <1>6, <1>7, <1>8, <1>9

LEMMA OpsOf ==
  ASSUME NEW q, NEW S, \A op, p : Has(q, op, p) => op \in S
  PROVE  \A i \in 1..Len(q) : q[i].op \in S
<1>1. \A i \in 1..Len(q) : Has(q, q[i].op, q[i].path)
  BY DEF Has
<1> QED
  BY <1>1

LEMMA NoQueue == Paired(<<>>) /\ Once(<<>>) /\ \A op, p : ~Has(<<>>, op, p)
BY DEF Paired, Once, Has

\* The queue a client sends for one path, and for two.
LEMMA PairQueue ==
  ASSUME NEW p
  PROVE  /\ Paired(Pair(p)) /\ Once(Pair(p)) /\ Len(Pair(p)) = 2
         /\ \A op, q : Has(Pair(p), op, q) <=> op \in {"mkdir", "lstat"} /\ q = p
<1>1. Len(Pair(p)) = 2 /\ Pair(p)[1].op = "mkdir" /\ Pair(p)[2].op = "lstat"
      /\ Pair(p)[1].path = p /\ Pair(p)[2].path = p /\ 1..2 = {1, 2}
  BY DEF Pair, Request
<1> QED
  BY <1>1 DEF Paired, Once, Has

LEMMA PairsQueue ==
  ASSUME NEW p, NEW q, p # q
  PROVE  /\ Paired(Pair(p) \o Pair(q)) /\ Once(Pair(p) \o Pair(q))
         /\ \A op, r : Has(Pair(p) \o Pair(q), op, r) <=> op \in {"mkdir", "lstat"} /\ r \in {p, q}
<1> DEFINE both == Pair(p) \o Pair(q)
<1>1. /\ Len(both) = 4 /\ 1..4 = {1, 2, 3, 4}
      /\ both[1] = Request("mkdir", p) /\ both[2] = Request("lstat", p)
      /\ both[3] = Request("mkdir", q) /\ both[4] = Request("lstat", q)
  BY DEF Pair
<1> HIDE DEF both
<1>2. \A op, r : Request(op, r).op = op /\ Request(op, r).path = r
  BY DEF Request
<1>3. Paired(both)
  BY <1>1, <1>2 DEF Paired
<1>4. Once(both)
  BY <1>1, <1>2 DEF Once
<1>5. ASSUME NEW op, NEW r PROVE Has(both, op, r) <=> op \in {"mkdir", "lstat"} /\ r \in {p, q}
  BY <1>1, <1>2 DEF Has
<1> QED
  BY <1>3, <1>4, <1>5 DEF both

-----------------------------------------------------------------------------
(* The batch of a sender                                                     *)

\* The sender is at its batch, and knows of it that it made it.
AtBatch(s) == phase[s] = "settle" /\ Path(s) = s
Known(s) ==
  /\ heard[s][s].made = "ok" /\ ~Has(asks[s], "mkdir", s)
  /\ heard[s][s].saw = tree[s] \/ Has(asks[s], "lstat", s)

Making(s) ==
  /\ Paired(asks[s]) /\ Once(asks[s]) /\ ~Has(asks[s], "chmod", s)
  /\ heard[s][s].saw # Absent => Fits(heard[s][s].saw)
  /\ tree[s] # Absent => Known(s)
  /\ tree[s] # Absent \/ Has(asks[s], "mkdir", s) => at[s] = 1 \/ AtBatch(s)
  /\ \A i \in 1..Len(nested[s]) : nested[s][i] = s => at[s] = 2 /\ i = Len(nested[s])

BatchOK(s) ==
  /\ tree[s] # Absent => Fits(tree[s]) /\ phase[s] \notin {"idle", "failed"}
  /\ phase[s] \in Settling => Making(s)
  /\ phase[s] = "undo" =>
       asks[s] = <<Request("rmdir", s)>> \/ (asks[s] = <<>> /\ tree[s] = Absent)
  /\ phase[s] = "failed" => asks[s] = <<>>
Batches == honours => \A s \in Uploaders : BatchOK(s)

\* A batch is asked for by its own sender alone, and nothing is made in it.
LEMMA SenderIs ==
  ASSUME NEW s \in Uploaders
  PROVE  /\ s \in Clients /\ s \in Paths /\ s \in Mine(s) /\ s # "inbox" /\ s # "date"
         /\ Len(Want(s)) = 2 /\ Want(s)[1] = "inbox" /\ Want(s)[2] = s
         /\ \A d \in Clients \ {s} : s \notin Mine(d)
         /\ \A p \in Paths : s \notin Parents(p) /\ Parent(p) # s
BY WantIs, RemoteDirsAssumption DEF Clients, Paths, Mine, Parents, Parent

\* What others do is no matter of the batch.
LEMMA BatchOthers ==
  ASSUME NEW s \in Uploaders, BatchOK(s),
         UNCHANGED <<heard[s], asks[s], phase[s], at[s], nested[s], tree[s]>>
  PROVE  BatchOK(s)'
<1>1. Path(s)' = Path(s)
  BY DEF Path
<1>2. AtBatch(s)' = AtBatch(s) /\ Known(s)' = Known(s)
  BY <1>1 DEF AtBatch, Known
<1> QED
  BY <1>2 DEF BatchOK, Making

\* The server executes a request of the sender.
LEMMA BatchServed ==
  ASSUME DirInv, honours, NEW s \in Uploaders, BatchOK(s), Serve(s)
  PROVE  BatchOK(s)'
<1> DEFINE q == asks[s]
<1>1. DirShape /\ Safe(s) /\ q \in Seq(Requests(s)) /\ q # <<>> /\ asks'[s] = Tail(q)
      /\ UNCHANGED <<phase, at, nested>> /\ s \in Clients /\ s \in Paths
      /\ 1 \in 1..Len(q)
  <2>1. s \in Clients /\ s \in Paths
    BY SenderIs
  <2> QED
    BY <2>1, ServedQueue DEF DirInv, DirShape, Serve
<1>2. phase[s] \notin {"idle", "failed"}
  <2>1. "idle" \in Happy \cup {"idle"}
    OBVIOUS
  <2> QED
    BY <1>1, <2>1 DEF Safe, BatchOK
<1>3. PICK p \in Mine(s) :
           \/ Does(s, "mkdir", p) /\ Mkdir(s, p)
           \/ Does(s, "lstat", p) /\ Lstat(s, p)
           \/ Does(s, "chmod", p) /\ SetMode(s, p)
           \/ Does(s, "rmdir", p) /\ tree' = WithoutDir(p) /\ UNCHANGED heard
  BY <1>1, ServeCases
<1>4. p \in Paths /\ AtBatch(s)' = AtBatch(s)
  BY <1>1 DEF Mine, Paths, AtBatch, Path
<1> HIDE DEF q
\* What is there afterwards fits.
<1>5. tree'[s] # Absent => Fits(tree'[s])
  <2>1. CASE Mkdir(s, p)
    <3>1. Fits(Node("dir", "private", "clift"))
      BY NodesAre DEF Fits
    <3>2. tree'[s] = tree[s] \/ tree'[s] = Node("dir", "private", "clift")
      BY <1>1, <1>4, <2>1 DEF Mkdir, DirShape, Server
    <3> QED
      BY <3>1, <3>2 DEF BatchOK
  <2>2. CASE Lstat(s, p)
    BY <2>2 DEF Lstat, BatchOK
  <2>3. CASE Does(s, "chmod", p) /\ SetMode(s, p)
    <3>1. ~Foreign(tree[p])
      BY <1>1, <2>3 DEF Does, Safe, RequestOK, q
    <3>2. Stays(s) /\ (s # p => tree'[s] = tree[s])
      BY <1>1, <2>3, <3>1, SetModeIs
    <3>3. tree[s] = Absent => tree'[s] = Absent
      <4>1. s = p /\ tree[s] = Absent => tree' = tree
        BY <2>3 DEF SetMode
      <4> QED
        BY <3>2, <4>1
    <3> QED
      BY <3>2, <3>3 DEF Stays, BatchOK
  <2>4. CASE Does(s, "rmdir", p) /\ tree' = WithoutDir(p)
    BY <1>1, <2>4 DEF WithoutDir, DirShape, Server, BatchOK
  <2> QED
    BY <1>3, <2>1, <2>2, <2>3, <2>4
<1>6. CASE phase[s] \in Settling
  <2>1. Making(s)
    BY <1>6 DEF BatchOK
  <2>2. "undo" \notin Settling /\ "failed" \notin Settling
    BY DEF Settling
  <2>3. SUFFICES Making(s)'
    BY <1>1, <1>2, <1>5, <1>6, <2>2 DEF BatchOK
  <2> DEFINE t == Tail(q)
  <2>4. /\ Paired(t) /\ Once(t) /\ asks'[s] = t
        /\ \A op, r : Has(t, op, r) => Has(q, op, r)
        /\ \A op, r : Has(q, op, r) => Has(t, op, r) \/ (q[1].op = op /\ q[1].path = r)
        /\ q[1].op = "mkdir" => Has(t, "lstat", q[1].path) /\ ~Has(t, "mkdir", q[1].path)
    BY <1>1, <2>1, TailQueue DEF Making, q
  <2> HIDE DEF t
  <2>5. ~Has(t, "chmod", s)
    BY <2>1, <2>4 DEF Making, q
  <2>6. q[1].op = "chmod" => q[1].path # s
    BY <1>1, <2>1 DEF Making, Has, q
  <2>7. /\ heard'[s][s].saw # Absent => Fits(heard'[s][s].saw)
        /\ tree'[s] # Absent =>
             /\ heard'[s][s].made = "ok" /\ ~Has(t, "mkdir", s)
             /\ heard'[s][s].saw = tree'[s] \/ Has(t, "lstat", s)
        /\ tree'[s] # Absent \/ Has(t, "mkdir", s) => tree[s] # Absent \/ Has(q, "mkdir", s)
    <3>1. /\ heard[s][s].saw # Absent => Fits(heard[s][s].saw)
          /\ tree[s] # Absent => /\ heard[s][s].made = "ok" /\ ~Has(q, "mkdir", s)
                                 /\ heard[s][s].saw = tree[s] \/ Has(q, "lstat", s)
      BY <2>1 DEF Making, Known, q
    <3>2. CASE Does(s, "mkdir", p) /\ Mkdir(s, p)
      <4>1. q[1].op = "mkdir" /\ q[1].path = p /\ Has(q, "mkdir", p)
        BY <1>1, <3>2 DEF Does, Has, q
      <4>2. CASE p = s
        <5>1. tree[s] = Absent
          BY <3>1, <4>1, <4>2
        <5>2. tree'[s] # Absent => MkdirAnswer(s) = "ok"
          BY <3>2, <4>2, <5>1 DEF Mkdir
        <5> QED
          BY <1>1, <2>4, <3>1, <3>2, <4>1, <4>2, <5>1, <5>2, MkdirIs
      <4>3. CASE p # s
        <5>1. tree'[s] = tree[s] /\ heard'[s][s] = heard[s][s]
          BY <1>1, <3>2, <4>3, MkdirIs
        <5> QED
          BY <2>4, <3>1, <4>1, <5>1
      <4> QED
        BY <4>2, <4>3
    <3>3. CASE Does(s, "lstat", p) /\ Lstat(s, p)
      <4>1. q[1].op = "lstat" /\ q[1].path = p
        BY <3>3 DEF Does, q
      <4>2. tree' = tree /\ (p # s => heard'[s][s] = heard[s][s])
            /\ (p = s => heard'[s][s].saw = tree[s] /\ heard'[s][s].made = heard[s][s].made)
        BY <1>1, <3>3, LstatIs
      <4>3. tree[s] # Absent => Fits(tree[s])
        BY DEF BatchOK
      <4> QED
        BY <2>4, <3>1, <4>1, <4>2, <4>3
    <3>4. CASE Does(s, "chmod", p) /\ SetMode(s, p)
      <4>1. q[1].op = "chmod" /\ q[1].path = p /\ p # s
        BY <2>6, <3>4 DEF Does, q
      <4>2. ~Foreign(tree[p])
        BY <1>1, <3>4 DEF Does, Safe, RequestOK, q
      <4>3. tree'[s] = tree[s] /\ heard'[s][s] = heard[s][s]
        BY <1>1, <3>4, <4>1, <4>2, SetModeIs
      <4> QED
        BY <2>4, <3>1, <4>1, <4>3
    <3>5. CASE Does(s, "rmdir", p) /\ tree' = WithoutDir(p) /\ UNCHANGED heard
      <4>1. q[1].op = "rmdir" /\ q[1].path = p
        BY <3>5 DEF Does, q
      <4>2. heard[s][s].made # "ok"
        BY <1>1, <4>1 DEF Safe, RequestOK, Blank, Unheard, q
      <4>3. tree[s] = Absent /\ tree'[s] = Absent
        BY <1>1, <3>1, <3>5, <4>2 DEF WithoutDir, DirShape, Server
      <4> QED
        BY <2>4, <3>1, <3>5, <4>1, <4>3
    <3> QED
      BY <1>3, <3>2, <3>3, <3>4, <3>5
  <2> QED
    BY <1>1, <1>4, <2>1, <2>4, <2>5, <2>7 DEF Making, Known, q
<1>7. CASE phase[s] = "undo"
  <2>1. q = <<Request("rmdir", s)>> /\ q[1].op = "rmdir" /\ q[1].path = s
    BY <1>1, <1>7 DEF BatchOK, q, Request
  <2>2. tree' = WithoutDir(s) /\ p = s
    BY <1>3, <2>1 DEF Does, q
  <2>3. tree'[s] = Absent
    <3>1. Empty(s)
      BY SenderIs DEF Empty
    <3>2. tree[s] # Absent => IsDir(tree[s])
      BY DEF BatchOK, Fits
    <3> QED
      BY <1>1, <2>2, <3>1, <3>2 DEF WithoutDir, DirShape, Server
  <2>4. asks'[s] = <<>>
    BY <1>1, <2>1
  <2> QED
    BY <1>1, <1>7, <2>3, <2>4 DEF BatchOK, Settling
<1>8. CASE phase[s] \notin Settling \cup {"undo"}
  BY <1>1, <1>2, <1>5, <1>8 DEF BatchOK
<1> QED
  BY <1>6, <1>7, <1>8

LEMMA AtOf ==
  ASSUME DirShape, NEW s \in Uploaders, phase[s] \in Settling
  PROVE  at[s] = 1 \/ at[s] = 2
<1>1. at[s] \in 1..2
  BY SenderIs DEF DirShape
<1> QED
  BY <1>1

\* Before its turn the sender is at the inbox, or at a parent.
LEMMA BeforeBatch ==
  ASSUME DirShape, NEW s \in Uploaders, phase[s] \in Settling, Making(s), at[s] = 1
  PROVE  Path(s) # s /\ \A i \in 1..Len(nested[s]) : nested[s][i] # s
<1>1. \A i \in 1..Len(nested[s]) : nested[s][i] # s
  BY DEF Making
<1>2. CASE nested[s] = <<>>
  BY <1>1, <1>2, SenderIs DEF Path
<1>3. CASE nested[s] # <<>>
  <2>1. nested[s] \in Seq(Mine(s))
    BY SenderIs DEF DirShape
  <2>2. 1 \in 1..Len(nested[s]) /\ Head(nested[s]) = nested[s][1]
    BY <1>3, <2>1
  <2> QED
    BY <1>1, <1>3, <2>2 DEF Path
<1> QED
  BY <1>2, <1>3

\* What the sender knows when it has all answers.
LEMMA MadeBatch ==
  ASSUME DirShape, NEW s \in Uploaders, BatchOK(s), phase[s] \in Settling, asks[s] = <<>>,
         tree[s] # Absent
  PROVE  /\ heard[s][s].made = "ok" /\ heard[s][s].saw = tree[s] /\ Fits(tree[s])
         /\ (at[s] = 1 /\ Path(s) # s) \/ (at[s] = 2 /\ phase[s] = "settle" /\ Path(s) = s)
<1>1. Making(s) /\ Fits(tree[s])
  BY DEF BatchOK
<1>2. heard[s][s].made = "ok" /\ heard[s][s].saw = tree[s]
  BY <1>1, NoQueue DEF Making, Known
<1>3. at[s] = 1 \/ AtBatch(s)
  BY <1>1 DEF Making
<1>4. at[s] = 1 => Path(s) # s
  BY <1>1, BeforeBatch
<1> QED
  BY <1>1, <1>2, <1>3, <1>4, AtOf DEF AtBatch

\* A sender that gives up asks for its batch to be removed, if it made it.
LEMMA BatchFails ==
  ASSUME DirInv, NEW s \in Uploaders, BatchOK(s), phase[s] \in Settling, asks[s] = <<>>,
         tree[s] # Absent => at[s] = 1, Fails(s), UNCHANGED tree
  PROVE  BatchOK(s)'
<1>1. DirShape /\ s \in Clients
  BY SenderIs DEF DirInv
<1>2. tree[s] # Absent => Created(s) # {}
  <2>1. SUFFICES ASSUME tree[s] # Absent PROVE s \in Created(s)
    OBVIOUS
  <2>2. heard[s][s].made = "ok" /\ 2 \in (at[s] + 1)..Len(Want(s)) /\ Want(s)[2] = s
    BY <1>1, <2>1, MadeBatch, SenderIs
  <2> QED
    BY <2>2 DEF Created
<1>3. phase'[s] = "undo"
      /\ asks'[s] = IF Created(s) = {} THEN <<>> ELSE <<Request("rmdir", s)>>
  BY <1>1 DEF DirShape, Fails, Proceeds
<1> QED
  BY <1>2, <1>3 DEF BatchOK, Settling

LEMMA BatchBegins ==
  ASSUME DirInv, NEW s \in Uploaders, BatchOK(s), BeginClient(s)
  PROVE  BatchOK(s)'
<1>1. DirShape /\ s \in Clients /\ s \in Paths /\ at[s] = 1 /\ nested[s] = <<>> /\ Blank(s)
      /\ tree[s] = Absent /\ UNCHANGED <<tree, heard, at, nested>>
  BY SenderIs DEF DirInv, Safe, BeginClient, BatchOK
<1>2. phase'[s] = "settle" /\ asks'[s] = Pair("inbox") \o Pair(s)
  BY <1>1 DEF BeginClient, Proceeds, DirShape
<1>3. /\ Paired(asks'[s]) /\ Once(asks'[s]) /\ ~Has(asks'[s], "chmod", s)
  BY <1>2, PairsQueue, SenderIs
<1>4. heard[s][s].saw = Absent
  BY <1>1 DEF Blank, Unheard
<1>5. Len(nested[s]) = 0
  BY <1>1
<1>6. Making(s)'
  BY <1>1, <1>2, <1>3, <1>4, <1>5 DEF Making
<1> QED
  BY <1>1, <1>2, <1>6 DEF BatchOK, Settling

LEMMA BatchParent ==
  ASSUME DirInv, NEW s \in Uploaders, BatchOK(s), MakeParent(s)
  PROVE  BatchOK(s)'
<1> DEFINE next == IF nested[s] = <<>> THEN Path(s) ELSE Parent(Path(s))
<1>1. DirShape /\ s \in Clients /\ s \in Paths /\ asks[s] = <<>> /\ phase[s] = "settle"
      /\ heard[s][Path(s)].made = "missing" /\ UNCHANGED <<tree, heard, at>>
      /\ phase[s] \in Settling /\ Making(s) /\ nested[s] \in Seq(Mine(s))
  BY SenderIs DEF DirInv, DirShape, MakeParent, AllAnswered, Reported, Settling, BatchOK
<1>2. Path(s) \in Paths /\ Path(s) \in Mine(s)
  BY <1>1, PathIs
<1>3. next \in Mine(s)
  BY <1>2 DEF Parent, Mine
<1>4. phase'[s] = "settle" /\ asks'[s] = Pair(next) /\ nested'[s] = <<next>> \o nested[s]
  BY <1>1 DEF MakeParent, Proceeds, DirShape
<1>5. next = s => at[s] = 2 /\ nested[s] = <<>>
  <2>1. at[s] = 1 => Path(s) # s
    BY <1>1, BeforeBatch
  <2> QED
    BY <1>1, <1>2, <2>1, AtOf, SenderIs
<1> HIDE DEF next
<1>6. /\ Paired(asks'[s]) /\ Once(asks'[s]) /\ ~Has(asks'[s], "chmod", s)
      /\ Has(asks'[s], "mkdir", s) => next = s
  BY <1>4, PairQueue
<1>7. tree[s] # Absent =>
        at[s] = 1 /\ heard[s][s].made = "ok" /\ heard[s][s].saw = tree[s] /\ next # s
  BY <1>1, <1>5, MadeBatch
<1>8. /\ Len(nested'[s]) = 1 + Len(nested[s]) /\ Path(s)' = next
      /\ \A i \in 1..Len(nested'[s]) :
           nested'[s][i] = IF i =< 1 THEN next ELSE nested[s][i - 1]
  <2>1. <<next>> \in Seq(Mine(s)) /\ Len(<<next>>) = 1 /\ <<next>>[1] = next
    BY <1>3
  <2>2. /\ <<next>> \o nested[s] \in Seq(Mine(s)) /\ Len(<<next>> \o nested[s]) = 1 + Len(nested[s])
        /\ \A i \in 1..(1 + Len(nested[s])) :
             (<<next>> \o nested[s])[i] = IF i =< 1 THEN next ELSE nested[s][i - 1]
    BY <1>1, <2>1, ConcatProperties
  <2>3. Len(nested[s]) \in Nat
    BY <1>1
  <2>4. 1 \in 1..(1 + Len(nested[s]))
    BY <2>3
  <2>5. nested'[s] # <<>> /\ Head(nested'[s]) = nested'[s][1] /\ nested'[s][1] = next
    BY <1>4, <2>2, <2>3, <2>4
  <2> QED
    BY <1>4, <2>2, <2>5 DEF Path
<1>9. \A i \in 1..Len(nested'[s]) : nested'[s][i] = s => at[s] = 2 /\ i = Len(nested'[s])
  <2> DEFINE k == Len(nested[s])
  <2>1. k \in Nat /\ Len(nested'[s]) = 1 + k /\ (nested[s] = <<>> => k = 0)
    BY <1>1, <1>8
  <2>2. \A i \in 1..k : nested[s][i] = s => at[s] = 2 /\ i = k
    BY <1>1 DEF Making
  <2> HIDE DEF k
  <2>3. SUFFICES ASSUME NEW i \in 1..(1 + k), nested'[s][i] = s
                 PROVE  at[s] = 2 /\ i = 1 + k
    BY <2>1
  <2>4. CASE i =< 1
    BY <1>5, <1>8, <2>1, <2>3, <2>4
  <2>5. CASE ~(i =< 1)
    <3>1. i - 1 \in 1..k
      BY <2>1, <2>3, <2>5
    <3>2. nested'[s][i] = nested[s][i - 1]
      BY <1>8, <2>1, <2>3, <2>5
    <3> QED
      BY <2>1, <2>2, <2>3, <3>1, <3>2
  <2> QED
    BY <2>4, <2>5
<1>10. Making(s)'
  <2>1. AtBatch(s)' = (Path(s)' = s)
    BY <1>4 DEF AtBatch
  <2> QED
    BY <1>1, <1>6, <1>7, <1>8, <1>9, <2>1 DEF Making, Known
<1> QED
  BY <1>1, <1>4, <1>10 DEF BatchOK, Settling

\* Nothing is to be corrected, or looked at again, at the batch.
LEMMA BatchAsks ==
  ASSUME DirInv, NEW s \in Uploaders, BatchOK(s), Tighten(s) \/ LookAgain(s)
  PROVE  BatchOK(s)'
<1>1. DirShape /\ s \in Clients /\ s \in Paths /\ asks[s] = <<>> /\ phase[s] = "settle"
      /\ UNCHANGED <<tree, heard, at, nested>> /\ phase[s] \in Settling /\ Making(s)
      /\ Saw(s) # Absent /\ ~Fits(Saw(s))
  BY SenderIs DEF DirInv, Tighten, LookAgain, AllAnswered, Settling, BatchOK, IsDir
<1>2. Path(s) # s
  BY <1>1 DEF Making, Saw
<1>3. /\ phase'[s] \in {"chmod", "again"}
      /\ asks'[s] \in {<<Request("chmod", Path(s)), Request("lstat", Path(s))>>,
                       <<Request("lstat", Path(s))>>}
  BY <1>1 DEF Tighten, LookAgain, Proceeds, DirShape
<1>4. \A i \in 1..Len(asks'[s]) : asks'[s][i].op # "mkdir" /\ asks'[s][i].path # s
  <2>1. \A op, p : Request(op, p).op = op /\ Request(op, p).path = p
    BY DEF Request
  <2>2. CASE asks'[s] = <<Request("lstat", Path(s))>>
    BY <1>2, <2>1, <2>2
  <2>3. CASE asks'[s] = <<Request("chmod", Path(s)), Request("lstat", Path(s))>>
    BY <1>2, <2>1, <2>3
  <2> QED
    BY <1>3, <2>2, <2>3
<1>5. Paired(asks'[s]) /\ Once(asks'[s]) /\ \A op : ~Has(asks'[s], op, s)
  BY <1>4 DEF Paired, Once, Has
<1>6. tree[s] # Absent => at[s] = 1 /\ heard[s][s].made = "ok" /\ heard[s][s].saw = tree[s]
  BY <1>1, <1>2, MadeBatch
<1>7. Making(s)'
  BY <1>1, <1>5, <1>6 DEF Making, Known
<1>8. phase'[s] \in Settling /\ phase'[s] \notin {"idle", "failed", "undo"}
  BY <1>3 DEF Settling
<1> QED
  BY <1>1, <1>7, <1>8 DEF BatchOK

\* A path is settled: the sender turns to the next, or to its batch.
LEMMA BatchSettled ==
  ASSUME DirInv, NEW s \in Uploaders, BatchOK(s), phase[s] \in Settling, asks[s] = <<>>,
         SettledOn(s), heard' = [heard EXCEPT ![s][Path(s)] = Unheard], UNCHANGED tree
  PROVE  BatchOK(s)'
<1>1. DirShape /\ s \in Clients /\ s \in Paths /\ Making(s) /\ nested[s] \in Seq(Mine(s))
      /\ Path(s) \in Paths
  BY SenderIs, PathIs DEF DirInv, DirShape, BatchOK
<1>2. /\ Path(s) # s => heard'[s][s] = heard[s][s]
      /\ Path(s) = s => heard'[s][s] = Unheard
  <2>1. heard' = [heard EXCEPT ![s] = [heard[s] EXCEPT ![Path(s)] = Unheard]]
    OBVIOUS
  <2>2. heard'[s] = [heard[s] EXCEPT ![Path(s)] = Unheard]
    BY <1>1, <2>1 DEF DirShape, Server
  <2> QED
    BY <1>1, <2>2 DEF DirShape, Server
<1>3. heard'[s][s].saw # Absent => Fits(heard'[s][s].saw)
  BY <1>1, <1>2 DEF Making, Unheard
<1>4. CASE Len(nested[s]) > 1
  <2>1. phase'[s] = "settle" /\ asks'[s] = Pair(nested[s][2]) /\ nested'[s] = Tail(nested[s])
        /\ at' = at
    BY <1>1, <1>4 DEF SettledOn, Proceeds, DirShape
  <2> DEFINE k == Len(nested[s])
  <2>2. /\ k \in Nat /\ k > 1 /\ Len(nested'[s]) = k - 1 /\ nested'[s] # <<>>
        /\ \A i \in 1..(k - 1) : nested'[s][i] = nested[s][i + 1] /\ i + 1 \in 1..k
        /\ Head(nested'[s]) = nested[s][2] /\ Head(nested[s]) = nested[s][1]
        /\ nested[s] # <<>> /\ 1 \in 1..k /\ 2 \in 1..k
    <3>1. k \in Nat /\ k > 1 /\ nested[s] # <<>> /\ 1 \in 1..k /\ 2 \in 1..k
      BY <1>1, <1>4
    <3>2. /\ Tail(nested[s]) \in Seq(Mine(s)) /\ Len(Tail(nested[s])) = k - 1
          /\ \A i \in 1..(k - 1) : Tail(nested[s])[i] = nested[s][i + 1]
          /\ Head(nested[s]) = nested[s][1]
      BY <1>1, <3>1, TailIs
    <3> DEFINE t == Tail(nested[s])
    <3> HIDE DEF k, t
    <3>3. t # <<>> /\ Head(t) = nested[s][2]
      <4>1. t \in Seq(Mine(s)) /\ Len(t) = k - 1 /\ \A i \in 1..(k - 1) : t[i] = nested[s][i + 1]
        BY <3>2 DEF t
      <4>2. 1 \in 1..(k - 1) /\ 1 + 1 = 2 /\ k - 1 # 0
        BY <3>1
      <4>3. t # <<>>
        BY <4>1, <4>2, NoRequests
      <4>4. Head(t) = t[1]
        BY <4>1, <4>3, TailIs
      <4> QED
        BY <4>1, <4>2, <4>3, <4>4
    <3>4. \A i \in 1..(k - 1) : i + 1 \in 1..k
      BY <3>1
    <3> QED
      BY <2>1, <3>1, <3>2, <3>3, <3>4 DEF t
  <2>3. \A i \in 1..k : nested[s][i] = s => at[s] = 2 /\ i = k
    BY <1>1 DEF Making
  <2> HIDE DEF k
  <2>4. Path(s) = nested[s][1] /\ Path(s)' = nested[s][2] /\ Path(s) # s
    <3>1. Path(s) # s
      BY <2>2, <2>3 DEF Path
    <3> QED
      BY <2>2, <3>1 DEF Path
  <2>5. \A i \in 1..(k - 1) : nested'[s][i] = s => at[s] = 2 /\ i = k - 1
    BY <2>2, <2>3
  <2>6. /\ Paired(asks'[s]) /\ Once(asks'[s]) /\ ~Has(asks'[s], "chmod", s)
        /\ Has(asks'[s], "mkdir", s) => nested[s][2] = s
    BY <2>1, PairQueue
  <2>7. tree[s] # Absent =>
          at[s] = 1 /\ heard[s][s].made = "ok" /\ heard[s][s].saw = tree[s] /\ nested[s][2] # s
    BY <1>1, <2>2, <2>3, <2>4, MadeBatch
  <2>8. Making(s)'
    <3>1. AtBatch(s)' = (nested[s][2] = s)
      BY <2>1, <2>4 DEF AtBatch
    <3> QED
      BY <1>2, <1>3, <2>1, <2>2, <2>4, <2>5, <2>6, <2>7, <3>1 DEF Making, Known
  <2> QED
    BY <2>1, <2>8 DEF BatchOK, Settling
<1>5. CASE ~(Len(nested[s]) > 1) /\ at[s] = 1
  <2>1. phase'[s] = "settle" /\ asks'[s] = <<>> /\ nested'[s] = <<>> /\ at'[s] = 2
    <3>1. at[s] < Len(Want(s))
      BY <1>5, SenderIs
    <3> QED
      BY <1>1, <1>5, <3>1 DEF SettledOn, Proceeds, DirShape
  <2>2. Path(s)' = s /\ AtBatch(s)'
    BY <2>1, SenderIs DEF Path, AtBatch
  <2>3. Path(s) # s
    BY <1>1, <1>5, BeforeBatch
  <2>4. tree[s] # Absent => heard[s][s].made = "ok" /\ heard[s][s].saw = tree[s]
    BY <1>1, MadeBatch
  <2>5. Len(nested'[s]) = 0
    BY <2>1
  <2>6. Making(s)'
    BY <1>2, <1>3, <2>1, <2>2, <2>3, <2>4, <2>5, NoQueue DEF Making, Known
  <2> QED
    BY <2>1, <2>6 DEF BatchOK, Settling
<1>6. CASE ~(Len(nested[s]) > 1) /\ at[s] = 2
  <2>1. phase'[s] \in {"upload", "done"}
    <3>1. ~(at[s] < Len(Want(s)))
      <4>1. Len(Want(s)) = 2
        BY SenderIs
      <4> QED
        BY <1>6, <4>1
    <3> QED
      BY <1>1, <1>6, <3>1 DEF SettledOn, Proceeds, DirShape
  <2> QED
    BY <2>1 DEF BatchOK, Settling
<1> QED
  BY <1>1, <1>4, <1>5, <1>6, AtOf

LEMMA BatchSettles ==
  ASSUME DirInv, NEW s \in Uploaders, BatchOK(s),
         StillMissing(s) \/ SettleNow(s) \/ SettleFails(s) \/ SettleLate(s)
  PROVE  BatchOK(s)'
<1>1. DirShape /\ phase[s] \in Settling /\ asks[s] = <<>> /\ UNCHANGED tree
  BY DEF DirInv, StillMissing, SettleNow, SettleFails, SettleLate, AllAnswered, Settling
<1>2. CASE SettledOn(s) /\ heard' = [heard EXCEPT ![s][Path(s)] = Unheard]
  BY <1>1, <1>2, BatchSettled
<1>3. CASE Fails(s) /\ (tree[s] # Absent => at[s] = 1)
  BY <1>1, <1>3, BatchFails
<1>4. ASSUME tree[s] # Absent, at[s] # 1
      PROVE  /\ phase[s] = "settle" /\ Reported(s) = "ok" /\ Saw(s) # Absent /\ IsDir(Saw(s))
             /\ Decided(s)
  BY <1>1, <1>4, MadeBatch DEF Reported, Saw, Fits, IsDir, Decided
<1>5. CASE StillMissing(s)
  BY <1>3, <1>4, <1>5 DEF StillMissing
<1>6. CASE SettleNow(s)
  BY <1>2, <1>6 DEF SettleNow
<1>7. CASE SettleFails(s)
  BY <1>3, <1>4, <1>7 DEF SettleFails
<1>8. CASE SettleLate(s)
  BY <1>2, <1>3, <1>4, <1>8 DEF SettleLate, AllAnswered
<1> QED
  BY <1>5, <1>6, <1>7, <1>8

LEMMA BatchLater ==
  ASSUME DirInv, NEW s \in Uploaders, BatchOK(s),
         Undone(s) \/ Upload(s) \/ Stat(s) \/ Remove(s) \/ LookLast(s) \/ Die(s)
  PROVE  BatchOK(s)'
<1>1. DirShape /\ s \in Clients /\ UNCHANGED tree
  BY SenderIs DEF DirInv, Undone, Upload, Stat, Remove, LookLast, Checks, Die
<1>2. CASE Undone(s)
  <2>1. phase'[s] = "failed" /\ asks'[s] = <<>>
    BY <1>1, <1>2 DEF Undone, Proceeds, DirShape
  <2>2. tree[s] = Absent
    <3>1. Len(<<Request("rmdir", s)>>) = 1 /\ Len(<<>>) = 0
      OBVIOUS
    <3> QED
      BY <1>2, <3>1 DEF Undone, AllAnswered, BatchOK
  <2> QED
    BY <1>1, <2>1, <2>2 DEF BatchOK, Settling
<1>3. CASE Upload(s) \/ Stat(s) \/ Remove(s) \/ LookLast(s) \/ Die(s)
  <2>1. phase'[s] \in {"stat", "unwell", "remove", "gone", "passed", "dead"}
    BY <1>1, <1>3 DEF Upload, Stat, Remove, LookLast, Checks, Die, Proceeds, DirShape
  <2> QED
    BY <1>1, <2>1 DEF BatchOK, Settling
<1> QED
  BY <1>2, <1>3

LEMMA BatchesNext ==
  ASSUME DirInv, Batches, [DirsNext]_dirVars
  PROVE  Batches'
<1>1. SUFFICES ASSUME honours, NEW s \in Uploaders PROVE BatchOK(s)'
  <2>1. honours' = honours
    <3>1. ASSUME NEW c \in Clients, BeginClient(c) \/ Step(c) \/ Die(c) PROVE honours' = honours
      BY <3>1, StepOwn DEF DirInv, Own
    <3> QED
      BY <3>1 DEF DirsNext, dirVars, server, Clean, Serve
  <2> QED
    BY <2>1 DEF Batches
<1>2. BatchOK(s) /\ DirShape /\ s \in Clients /\ s \in Paths
      /\ \A d \in Clients \ {s} : s \notin Mine(d)
  BY <1>1, SenderIs DEF Batches, DirInv
<1>3. CASE UNCHANGED dirVars
  BY <1>2, <1>3, BatchOthers DEF dirVars, calls
<1>4. CASE Clean
  <2>1. tree'[s] = tree[s]
    BY <1>2, <1>4, SenderIs DEF Clean, WithoutDir, DirShape, Server
  <2> QED
    BY <1>2, <1>4, <2>1, BatchOthers DEF Clean, calls
<1>5. ASSUME NEW d \in Clients \ {s}, BeginClient(d) \/ Serve(d) \/ Step(d) \/ Die(d)
      PROVE  BatchOK(s)'
  <2>1. CASE Serve(d)
    <3>1. tree'[s] = tree[s] /\ heard'[s] = heard[s]
      BY <1>2, <1>5, <2>1, ServeTree
    <3>2. asks'[s] = asks[s] /\ UNCHANGED <<phase, at, nested>>
      BY <1>2, <1>5, <2>1, ServedQueue DEF DirShape
    <3> QED
      BY <1>2, <3>1, <3>2, BatchOthers
  <2>2. CASE BeginClient(d) \/ Step(d) \/ Die(d)
    BY <1>2, <1>5, <2>2, StepOwn, BatchOthers DEF Own
  <2> QED
    BY <1>5, <2>1, <2>2
<1>6. CASE BeginClient(s) \/ Serve(s) \/ Step(s) \/ Die(s)
  BY <1>1, <1>2, <1>6, BatchBegins, BatchServed, BatchParent, BatchAsks, BatchSettles, BatchLater
     DEF Step
<1> QED
  BY <1>3, <1>4, <1>5, <1>6 DEF DirsNext

LEMMA BatchesInit == ASSUME DirsInit PROVE Batches
<1>1. SUFFICES ASSUME NEW s \in Uploaders PROVE BatchOK(s)
  BY DEF Batches
<1>2. s \in Clients /\ s \in Paths /\ s # "inbox" /\ s # "date"
  BY SenderIs
<1>3. phase[s] = "idle" /\ tree[s] = Absent
  BY <1>2 DEF DirsInit
<1> QED
  BY <1>3 DEF BatchOK, Settling

\* A sender that failed leaves no batch of its own on a host that applies the
\* mode it is given: the directory its first requests made is removed again,
\* and one it came to settle is never given up (fsops.rs, ensure_all).
THEOREM NoStrayHolds == DirsSpec => []NoStrayBatch
<1>1. Batches => NoStrayBatch
  BY DEF Batches, BatchOK, NoStrayBatch
<1>2. DirsInit => DirInv /\ Batches
  BY DirInvInit, BatchesInit
<1>3. DirInv /\ Batches /\ [DirsNext]_dirVars => (DirInv /\ Batches)'
  BY DirInvNext, BatchesNext
<1> QED
  BY <1>1, <1>2, <1>3, PTL DEF DirsSpec

-----------------------------------------------------------------------------
(* A server that does as it is told, and nothing of the user's               *)

Willing == writable /\ honours /\ ~cleaned /\ \A p \in Paths : ~Foreign(tree[p])

\* What a client has asked for and not settled.
Awaited(c) == {Path(c)} \cup {Want(c)[j] : j \in (at[c] + 1)..Len(Want(c))}

HeardOK(c, p) ==
  /\ heard[c][p].made # "denied" /\ (p = "inbox" => heard[c][p].made # "missing")
  /\ heard[c][p].made \in {"ok", "failure"} => tree[p] # Absent
  /\ heard[c][p].saw # Absent => Fits(heard[c][p].saw) /\ tree[p] # Absent

\* An answer that is not there yet is on its way, and what is made is seen.
AnswerOK(c, p) ==
  /\ heard[c][p].made # "none" \/ Has(asks[c], "mkdir", p)
  /\ heard[c][p].made \in {"ok", "failure"} =>
       heard[c][p].saw # Absent \/ Has(asks[c], "lstat", p)

\* After its parent was made, a directory is not missing one any more.
SecondOK(c) ==
  /\ nested[c] # <<>> /\ \A q \in Parents(Path(c)) : tree[q] # Absent
  /\ heard[c][Path(c)].made # "missing" \/ Has(asks[c], "mkdir", Path(c))

ClientOK(c) ==
  /\ phase[c] \notin {"undo", "failed", "chmod", "again"}
  /\ \A i \in 1..Len(asks[c]) : asks[c][i].op \in {"mkdir", "lstat"}
  /\ \A p \in Paths : HeardOK(c, p)
  /\ phase[c] = "idle" => ~second[c]
  /\ phase[c] = "settle" =>
       /\ Paired(asks[c]) /\ \A p \in Awaited(c) : AnswerOK(c, p)
       /\ nested[c] # <<>> => at[c] = Len(Want(c))
       /\ \A i \in 1..(Len(nested[c]) - 1) : nested[c][i] \in Parents(nested[c][i + 1])
       /\ second[c] => SecondOK(c)

TreeOK == \A p \in Paths : tree[p] = Absent \/ Fits(tree[p])
WillingOK == Willing => TreeOK /\ \A c \in Clients : ClientOK(c)

\* Nothing is taken away: what there is stays.
Grows == \A p \in Paths : tree[p] # Absent => tree'[p] = tree[p]

LEMMA HeardGrows ==
  ASSUME NEW c \in Clients, NEW p \in Paths, HeardOK(c, p), Grows, heard'[c][p] = heard[c][p]
  PROVE  HeardOK(c, p)'
BY DEF HeardOK, Grows

LEMMA UnheardOK ==
  ASSUME NEW c \in Clients, NEW p \in Paths
  PROVE  /\ heard[c][p] = Unheard => HeardOK(c, p)
         /\ heard'[c][p] = Unheard => HeardOK(c, p)'
BY DEF HeardOK, Unheard

LEMMA ParentsAre ==
  ASSUME NEW p \in Paths
  PROVE  /\ Parents(p) \subseteq Paths /\ Parents("inbox") = {}
         /\ p # "inbox" => Parents(p) = {Parent(p)}
BY DEF Parents, Parent, Paths

\* What is not settled yet are paths.
LEMMA AwaitedAre ==
  ASSUME DirShape, NEW c \in Clients, phase[c] = "settle"
  PROVE  Awaited(c) \subseteq Paths
<1>1. Path(c) \in Paths /\ at[c] \in Nat
  BY PathIs DEF DirShape, Settling
<1>2. ASSUME NEW j \in (at[c] + 1)..Len(Want(c)) PROVE Want(c)[j] \in Paths
  <2>1. j \in 1..Len(Want(c))
    BY <1>1, WantIs
  <2> QED
    BY <2>1, WantIs DEF Mine, Paths
<1> QED
  BY <1>1, <1>2 DEF Awaited

\* A step of others leaves a client as it is.
LEMMA OthersWilling ==
  ASSUME DirShape, NEW d \in Clients, ClientOK(d), Grows,
         UNCHANGED <<heard[d], asks[d], phase[d], at[d], nested[d], second[d]>>
  PROVE  ClientOK(d)'
<1>1. Path(d)' = Path(d) /\ Awaited(d)' = Awaited(d)
  BY DEF Path, Awaited
<1>2. \A p \in Paths : HeardOK(d, p)'
  BY HeardGrows DEF ClientOK
<1>3. \A p \in Awaited(d) : AnswerOK(d, p)' = AnswerOK(d, p)
  BY DEF AnswerOK
<1>4. phase[d] = "settle" /\ SecondOK(d) => SecondOK(d)'
  <2>1. SUFFICES ASSUME phase[d] = "settle", SecondOK(d) PROVE SecondOK(d)'
    OBVIOUS
  <2>2. Path(d) \in Paths
    BY <2>1, PathIs DEF Settling
  <2>3. \A q \in Parents(Path(d)) : tree[q] # Absent /\ q \in Paths
    BY <2>1, <2>2, ParentsAre DEF SecondOK
  <2>4. \A q \in Parents(Path(d)) : tree'[q] # Absent
    BY <2>3 DEF Grows
  <2> QED
    BY <1>1, <2>1, <2>4 DEF SecondOK
<1> QED
  BY <1>1, <1>2, <1>3, <1>4 DEF ClientOK

\* A willing server executes a request: nothing is denied, and what is
\* asked for the second time is not missing.
LEMMA WillingServed ==
  ASSUME DirInv, Willing, TreeOK, NEW c \in Clients, ClientOK(c), Serve(c)
  PROVE  TreeOK' /\ Grows /\ ClientOK(c)' /\ \A d \in Clients \ {c} : heard'[d] = heard[d]
<1> DEFINE q == asks[c]
           t == Tail(q)
<1>1. DirShape /\ q \in Seq(Requests(c)) /\ q # <<>> /\ asks'[c] = t
      /\ UNCHANGED <<phase, at, nested, second>> /\ 1 \in 1..Len(q)
      /\ Len(t) = Len(q) - 1 /\ \A i \in 1..Len(t) : t[i] = q[i + 1] /\ i + 1 \in 1..Len(q)
  BY ServedQueue DEF DirInv, DirShape, Serve
<1>2. \A i \in 1..Len(t) : t[i].op \in {"mkdir", "lstat"}
  BY <1>1 DEF ClientOK
<1>p. PICK p \in Mine(c) :
           \/ Does(c, "mkdir", p) /\ Mkdir(c, p)
           \/ Does(c, "lstat", p) /\ Lstat(c, p)
           \/ Does(c, "chmod", p) /\ SetMode(c, p)
           \/ Does(c, "rmdir", p) /\ tree' = WithoutDir(p) /\ UNCHANGED heard
  BY <1>1, ServeCases
<1>3. (Does(c, "mkdir", p) /\ Mkdir(c, p)) \/ (Does(c, "lstat", p) /\ Lstat(c, p))
  <2>1. q[1].op \in {"mkdir", "lstat"}
    BY <1>1 DEF ClientOK
  <2> QED
    BY <1>p, <2>1 DEF Does
<1>4. p \in Paths /\ Path(c)' = Path(c) /\ Awaited(c)' = Awaited(c)
  BY <1>1 DEF Mine, Paths, Path, Awaited
<1>5. /\ \A op, r : Has(t, op, r) => Has(q, op, r)
      /\ \A op, r : Has(q, op, r) => Has(t, op, r) \/ (q[1].op = op /\ q[1].path = r)
      /\ Paired(q) => Paired(t) /\ (q[1].op = "mkdir" => Has(t, "lstat", q[1].path))
  BY <1>1, TailQueue
<1>6. q[1].path = p /\ q[1].op \in {"mkdir", "lstat"}
  BY <1>3 DEF Does
<1> HIDE DEF q, t
<1>7. TreeOK' /\ Grows
  <2>1. CASE Mkdir(c, p)
    <3>1. Fits(Node("dir", "private", "clift"))
      BY NodesAre DEF Fits
    <3>2. \A r \in Paths : tree'[r] = tree[r] \/ tree'[r] = Node("dir", "private", "clift")
      BY <1>1, <1>4, <2>1 DEF Mkdir, DirShape, Server, Willing
    <3>3. Grows
      BY <1>1, <2>1, MkdirIs DEF Grows, Mkdir
    <3> QED
      BY <3>1, <3>2, <3>3 DEF TreeOK
  <2>2. CASE Lstat(c, p)
    BY <2>2 DEF Lstat, TreeOK, Grows
  <2> QED
    BY <1>3, <2>1, <2>2
<1>8. HeardOK(c, p)
  BY <1>4 DEF ClientOK
\* What the answer is.
<1>9. CASE q[1].op = "mkdir"
  <2>1. Mkdir(c, p)
    BY <1>3, <1>9 DEF Does, q
  <2>2. /\ \A d \in Clients \ {c} : heard'[d] = heard[d]
        /\ \A r \in Paths \ {p} : heard'[c][r] = heard[c][r]
        /\ heard'[c][p].made = MkdirAnswer(p) /\ heard'[c][p].saw = heard[c][p].saw
    BY <1>1, <2>1, MkdirIs
  <2>3. MkdirAnswer(p) \in {"missing", "failure", "ok"}
    BY DEF MkdirAnswer, Willing
  <2>4. MkdirAnswer(p) \in {"ok", "failure"} => tree'[p] # Absent
    <3>1. Node("dir", "private", "clift") # Absent
      BY NodesAre
    <3>2. MkdirAnswer(p) = "ok" => tree'[p] = Node("dir", "private", "clift")
      BY <1>1, <1>4, <2>1 DEF Mkdir, DirShape, Server, Willing
    <3>3. MkdirAnswer(p) = "failure" => tree[p] # Absent
      BY DEF MkdirAnswer
    <3> QED
      BY <1>4, <1>7, <3>1, <3>2, <3>3 DEF Grows
  <2>5. (\A r \in Parents(p) : tree[r] # Absent) => MkdirAnswer(p) # "missing"
    <3>1. \A r \in Parents(p) : r \in Paths
      BY <1>4, ParentsAre
    <3> QED
      BY <3>1 DEF TreeOK, Fits, MkdirAnswer
  <2>6. HeardOK(c, p)'
    <3>1. p = "inbox" => MkdirAnswer(p) # "missing"
      BY <2>5, ParentsAre, <1>4
    <3> QED
      BY <1>4, <1>7, <1>8, <2>2, <2>3, <2>4, <3>1 DEF HeardOK, Grows
  <2>7. \A r \in Paths : HeardOK(c, r)'
    BY <1>7, <2>2, <2>6, HeardGrows DEF ClientOK
  <2>8. phase[c] = "settle" => \A r \in Awaited(c) \cap Paths : AnswerOK(c, r)'
    <3>1. SUFFICES ASSUME phase[c] = "settle", NEW r \in Awaited(c), r \in Paths
                   PROVE  AnswerOK(c, r)'
      OBVIOUS
    <3>2. AnswerOK(c, r) /\ Paired(q)
      BY <3>1 DEF ClientOK, q
    <3>3. CASE r = p
      <4>1. heard'[c][p].made # "none" /\ Has(asks'[c], "lstat", p)
        BY <1>1, <1>5, <1>6, <1>9, <2>2, <2>3, <3>2
      <4> QED
        BY <3>3, <4>1 DEF AnswerOK
    <3>4. CASE r # p
      <4>1. heard'[c][r] = heard[c][r]
        BY <2>2, <3>1, <3>4
      <4>2. \A op : Has(q, op, r) => Has(asks'[c], op, r)
        BY <1>1, <1>5, <1>6, <3>4
      <4> QED
        BY <3>2, <4>1, <4>2 DEF AnswerOK, q
    <3> QED
      BY <3>3, <3>4
  <2>9. phase[c] = "settle" /\ second[c] => SecondOK(c)'
    <3>1. SUFFICES ASSUME phase[c] = "settle", second[c] PROVE SecondOK(c)'
      OBVIOUS
    <3>2. SecondOK(c) /\ Path(c) \in Paths
      BY <1>1, <3>1, PathIs DEF ClientOK, Settling
    <3>3. \A r \in Parents(Path(c)) : tree[r] # Absent /\ tree'[r] # Absent
      BY <1>7, <3>2, ParentsAre DEF SecondOK, Grows
    <3>4. heard'[c][Path(c)].made # "missing" \/ Has(asks'[c], "mkdir", Path(c))
      BY <1>1, <1>5, <1>6, <2>2, <2>5, <3>2, <3>3 DEF SecondOK, q
    <3> QED
      BY <1>1, <1>4, <3>2, <3>3, <3>4 DEF SecondOK
  <2>10. ClientOK(c)'
    <3>1. phase[c] = "settle" => Awaited(c) \subseteq Paths
      BY <1>1, AwaitedAre
    <3> QED
      BY <1>1, <1>2, <1>4, <1>5, <2>7, <2>8, <2>9, <3>1 DEF ClientOK, q
  <2> QED
    BY <1>7, <2>2, <2>10
<1>10. CASE q[1].op = "lstat"
  <2>1. Lstat(c, p)
    BY <1>3, <1>10 DEF Does, q
  <2>2. /\ tree' = tree /\ \A d \in Clients \ {c} : heard'[d] = heard[d]
        /\ \A r \in Paths \ {p} : heard'[c][r] = heard[c][r]
        /\ heard'[c][p].made = heard[c][p].made /\ heard'[c][p].saw = tree[p]
    BY <1>1, <2>1, LstatIs
  <2>3. HeardOK(c, p)'
    BY <1>4, <1>8, <2>2 DEF HeardOK, TreeOK
  <2>4. \A r \in Paths : HeardOK(c, r)'
    BY <1>7, <2>2, <2>3, HeardGrows DEF ClientOK
  <2>5. \A r : Has(q, "mkdir", r) => Has(asks'[c], "mkdir", r)
    BY <1>1, <1>5, <1>10
  <2>6. phase[c] = "settle" => \A r \in Awaited(c) \cap Paths : AnswerOK(c, r)'
    <3>1. SUFFICES ASSUME phase[c] = "settle", NEW r \in Awaited(c), r \in Paths
                   PROVE  AnswerOK(c, r)'
      OBVIOUS
    <3>2. AnswerOK(c, r) /\ HeardOK(c, r)
      BY <3>1 DEF ClientOK
    <3>3. CASE r = p
      BY <2>2, <2>5, <3>2, <3>3 DEF AnswerOK, HeardOK, q
    <3>4. CASE r # p
      <4>1. heard'[c][r] = heard[c][r]
        BY <2>2, <3>1, <3>4
      <4>2. Has(q, "lstat", r) => Has(asks'[c], "lstat", r)
        BY <1>1, <1>5, <1>6, <3>4
      <4> QED
        BY <2>5, <3>2, <4>1, <4>2 DEF AnswerOK, q
    <3> QED
      BY <3>3, <3>4
  <2>7. phase[c] = "settle" /\ second[c] => SecondOK(c)'
    <3>1. SUFFICES ASSUME phase[c] = "settle", second[c] PROVE SecondOK(c)'
      OBVIOUS
    <3>2. SecondOK(c) /\ Path(c) \in Paths
      BY <1>1, <3>1, PathIs DEF ClientOK, Settling
    <3>3. heard'[c][Path(c)].made = heard[c][Path(c)].made
      BY <2>2, <3>2
    <3> QED
      BY <1>1, <1>4, <2>2, <2>5, <3>2, <3>3 DEF SecondOK, q
  <2>8. ClientOK(c)'
    <3>1. phase[c] = "settle" => Awaited(c) \subseteq Paths
      BY <1>1, AwaitedAre
    <3> QED
      BY <1>1, <1>2, <1>4, <1>5, <2>4, <2>6, <2>7, <3>1 DEF ClientOK, q
  <2> QED
    BY <1>7, <2>2, <2>8
<1> QED
  BY <1>6, <1>9, <1>10

\* Forgetting an answer, or all of them, is no harm.
LEMMA HeardKept ==
  ASSUME NEW c \in Clients, ClientOK(c), UNCHANGED tree,
         \A p \in Paths : heard'[c][p] = heard[c][p] \/ heard'[c][p] = Unheard
  PROVE  \A p \in Paths : HeardOK(c, p)'
<1>1. Grows
  BY DEF Grows
<1> QED
  BY <1>1, HeardGrows, UnheardOK DEF ClientOK

\* A client that has stopped settling.
LEMMA WillingEnds ==
  ASSUME NEW c \in Clients, ClientOK(c), UNCHANGED tree,
         \A p \in Paths : heard'[c][p] = heard[c][p] \/ heard'[c][p] = Unheard,
         phase'[c] \notin {"idle", "settle", "undo", "failed", "chmod", "again"},
         \A i \in 1..Len(asks'[c]) : asks'[c][i].op \in {"mkdir", "lstat"}
  PROVE  ClientOK(c)'
BY HeardKept DEF ClientOK

LEMMA WillingBegins ==
  ASSUME DirInv, NEW c \in Clients, ClientOK(c), BeginClient(c)
  PROVE  ClientOK(c)'
<1>1. DirShape /\ at[c] = 1 /\ nested[c] = <<>> /\ Blank(c) /\ ~second[c]
      /\ UNCHANGED <<tree, heard, at, nested, second>>
  BY DEF DirInv, Safe, BeginClient, ClientOK
<1>2. /\ phase'[c] = "settle"
      /\ asks'[c] = IF c \in Uploaders THEN Pair("inbox") \o Pair(c) ELSE Pair("inbox")
  BY <1>1 DEF BeginClient, Proceeds, DirShape
<1>3. c \in Uploaders => c # "inbox"
  BY SenderIs
<1>4. /\ Paired(asks'[c])
      /\ \A op, p : Has(asks'[c], op, p) <=>
           op \in {"mkdir", "lstat"} /\ p \in {"inbox"} \cup ({c} \cap Uploaders)
  <2>1. CASE c \in Uploaders
    BY <1>2, <1>3, <2>1, PairsQueue
  <2>2. CASE c \notin Uploaders
    BY <1>2, <2>2, PairQueue
  <2> QED
    BY <2>1, <2>2
<1>5. \A i \in 1..Len(asks'[c]) : asks'[c][i].op \in {"mkdir", "lstat"}
  BY <1>4, OpsOf
<1>6. Awaited(c)' \subseteq {"inbox"} \cup ({c} \cap Uploaders)
  <2>1. Path(c)' = "inbox" /\ Awaited(c)' = Awaited(c) /\ Path(c) = "inbox"
    BY <1>1, WantIs DEF Path, Awaited
  <2>2. ASSUME NEW j \in (at[c] + 1)..Len(Want(c)) PROVE Want(c)[j] \in {c} \cap Uploaders
    <3>1. Len(Want(c)) = 2 /\ c \in Uploaders
      <4>1. SUFFICES ASSUME Len(Want(c)) = 1 PROVE FALSE
        BY WantIs
      <4>2. j \in 2..1
        BY <1>1, <2>2, <4>1
      <4> QED
        BY <4>2
    <3>2. j = 2
      BY <1>1, <2>2, <3>1
    <3> QED
      BY <3>1, <3>2, WantIs
  <2> QED
    BY <2>1, <2>2 DEF Awaited
<1>7. \A p \in Paths : heard[c][p].made = "none"
  BY <1>1 DEF Blank, Unheard
<1>8. \A p \in Awaited(c)' : AnswerOK(c, p)'
  <2>1. \A p \in Awaited(c)' : p \in Paths /\ Has(asks'[c], "mkdir", p)
    BY <1>4, <1>6 DEF Paths
  <2> QED
    BY <1>1, <1>7, <2>1 DEF AnswerOK
<1>9. \A p \in Paths : HeardOK(c, p)'
  BY <1>1, HeardKept
<1>10. Len(nested'[c]) = 0
  BY <1>1
<1> QED
  BY <1>1, <1>2, <1>4, <1>5, <1>8, <1>9, <1>10 DEF ClientOK

\* What is to be settled has an answer, and what is there was seen.
LEMMA AllHeard ==
  ASSUME DirInv, NEW c \in Clients, ClientOK(c), AllAnswered(c, "settle")
  PROVE  /\ DirShape /\ phase[c] = "settle" /\ phase[c] \in Settling /\ asks[c] = <<>>
         /\ Path(c) \in Paths /\ Path(c) \in Mine(c) /\ Awaited(c) \subseteq Paths
         /\ \A p \in Awaited(c) :
              /\ heard[c][p].made \in {"ok", "missing", "failure"}
              /\ heard[c][p].made # "missing" => heard[c][p].saw # Absent
         /\ Path(c) \in Awaited(c)
         /\ Saw(c) # Absent => Fits(Saw(c)) /\ IsDir(Saw(c)) /\ tree[Path(c)] # Absent
         /\ Reported(c) = "missing" => Path(c) # "inbox" /\ ~second[c] /\ at[c] = Len(Want(c))
<1>1. /\ DirShape /\ phase[c] = "settle" /\ phase[c] \in Settling /\ asks[c] = <<>>
      /\ Path(c) \in Paths /\ Path(c) \in Mine(c) /\ Awaited(c) \subseteq Paths
  BY PathIs, AwaitedAre DEF DirInv, AllAnswered, Settling
<1>2. \A p \in Awaited(c) :
              /\ heard[c][p].made \in {"ok", "missing", "failure"}
              /\ heard[c][p].made # "missing" => heard[c][p].saw # Absent
  <2>1. SUFFICES ASSUME NEW p \in Awaited(c)
                 PROVE  /\ heard[c][p].made \in {"ok", "missing", "failure"}
                        /\ heard[c][p].made # "missing" => heard[c][p].saw # Absent
    OBVIOUS
  <2>2. p \in Paths /\ AnswerOK(c, p) /\ HeardOK(c, p)
    BY <1>1, <2>1 DEF ClientOK
  <2>3. heard[c][p].made \in MadeAnswers
    BY <1>1, <2>2 DEF DirShape, Server, Heard
  <2> QED
    BY <1>1, <2>2, <2>3, NoQueue DEF AnswerOK, HeardOK, MadeAnswers
<1>3. Path(c) \in Awaited(c)
  BY DEF Awaited
<1>4. HeardOK(c, Path(c))
  BY <1>1 DEF ClientOK
<1>5. Saw(c) # Absent => Fits(Saw(c)) /\ IsDir(Saw(c)) /\ tree[Path(c)] # Absent
  BY <1>4 DEF HeardOK, Saw, Fits
<1>6. Reported(c) = "missing" => Path(c) # "inbox" /\ ~second[c]
  BY <1>1, <1>4, NoQueue DEF Reported, HeardOK, ClientOK, SecondOK
<1>7. Reported(c) = "missing" => at[c] = Len(Want(c))
  <2>1. CASE nested[c] = <<>>
    <3>1. Path(c) = Want(c)[at[c]] /\ at[c] \in 1..Len(Want(c))
      BY <1>1, <2>1 DEF Path, DirShape
    <3>2. at[c] # 1 => at[c] = Len(Want(c))
      <4>1. Len(Want(c)) = 1 \/ Len(Want(c)) = 2
        BY WantIs
      <4>2. CASE Len(Want(c)) = 1
        <5>1. at[c] \in 1..1
          BY <3>1, <4>2
        <5> QED
          BY <4>2, <5>1
      <4>3. CASE Len(Want(c)) = 2
        <5>1. at[c] \in 1..2
          BY <3>1, <4>3
        <5> QED
          BY <4>3, <5>1
      <4> QED
        BY <4>1, <4>2, <4>3
    <3> QED
      BY <1>6, <3>1, <3>2, WantIs
  <2>2. CASE nested[c] # <<>>
    BY <1>1, <2>2 DEF ClientOK
  <2> QED
    BY <2>1, <2>2
<1> QED
  BY <1>1, <1>2, <1>3, <1>5, <1>6, <1>7

\* A client that asks for a parent, or again for what the parent was for.
LEMMA AsksPair ==
  ASSUME DirShape, NEW c \in Clients, ClientOK(c), NEW p \in Paths, NEW longer \in Seq(Mine(c)),
         at[c] = Len(Want(c)), UNCHANGED <<tree, at>>,
         \A r \in Paths : heard'[c][r] = heard[c][r] \/ heard'[c][r] = Unheard,
         phase'[c] = "settle", asks'[c] = Pair(p), nested'[c] = longer,
         longer # <<>>, Head(longer) = p,
         \A i \in 1..(Len(longer) - 1) : longer[i] \in Parents(longer[i + 1]),
         second'[c] => \A q \in Parents(p) : tree[q] # Absent
  PROVE  ClientOK(c)'
<1>1. Path(c)' = p
  BY DEF Path
<1>2. Awaited(c)' = {p}
  <2>1. (at'[c] + 1)..Len(Want(c)) = {}
    <3>1. Len(Want(c)) = 1 \/ Len(Want(c)) = 2
      BY WantIs
    <3> QED
      BY <3>1
  <2> QED
    BY <1>1, <2>1 DEF Awaited
<1>3. /\ Paired(asks'[c]) /\ Has(asks'[c], "mkdir", p) /\ Has(asks'[c], "lstat", p)
      /\ \A i \in 1..Len(asks'[c]) : asks'[c][i].op \in {"mkdir", "lstat"}
  <2>1. Paired(asks'[c]) /\ \A op, q : Has(asks'[c], op, q) <=> op \in {"mkdir", "lstat"} /\ q = p
    BY PairQueue
  <2>2. \A i \in 1..Len(asks'[c]) : asks'[c][i].op \in {"mkdir", "lstat"}
    BY <2>1, OpsOf
  <2> QED
    BY <2>1, <2>2
<1>4. AnswerOK(c, p)'
  BY <1>3 DEF AnswerOK
<1>5. second'[c] => SecondOK(c)'
  BY <1>1, <1>3 DEF SecondOK
<1>6. \A r \in Paths : HeardOK(c, r)'
  BY HeardKept
<1> QED
  BY <1>2, <1>3, <1>4, <1>5, <1>6 DEF ClientOK

\* The parent of a missing directory is asked for: that is not the inbox.
LEMMA WillingParent ==
  ASSUME DirInv, NEW c \in Clients, ClientOK(c), MakeParent(c)
  PROVE  ClientOK(c)'
<1> DEFINE next == IF nested[c] = <<>> THEN Path(c) ELSE Parent(Path(c))
           longer == <<next>> \o nested[c]
<1>1. /\ DirShape /\ phase[c] = "settle" /\ Path(c) \in Paths /\ Path(c) \in Mine(c)
      /\ Path(c) # "inbox" /\ ~second[c] /\ at[c] = Len(Want(c))
  BY AllHeard DEF MakeParent
<1>2. next \in Mine(c) /\ next \in Paths /\ nested[c] \in Seq(Mine(c))
  BY <1>1 DEF Parent, Mine, Paths, DirShape
<1>3. nested[c] # <<>> => next \in Parents(Path(c)) /\ Path(c) = nested[c][1]
  BY <1>1, <1>2, ParentsAre DEF Path
<1>4. /\ phase'[c] = "settle" /\ asks'[c] = Pair(next) /\ nested'[c] = longer
      /\ UNCHANGED <<tree, at, heard, second>>
  BY <1>1 DEF MakeParent, Proceeds, DirShape
<1>5. \A i \in 1..(Len(nested[c]) - 1) : nested[c][i] \in Parents(nested[c][i + 1])
  BY <1>1 DEF ClientOK
<1> HIDE DEF next
<1>6. /\ longer \in Seq(Mine(c)) /\ Len(longer) = 1 + Len(nested[c]) /\ Len(nested[c]) \in Nat
      /\ \A i \in 1..(1 + Len(nested[c])) : longer[i] = IF i =< 1 THEN next ELSE nested[c][i - 1]
  <2>1. <<next>> \in Seq(Mine(c)) /\ Len(<<next>>) = 1 /\ <<next>>[1] = next
    BY <1>2
  <2> QED
    BY <1>2, <2>1, ConcatProperties
<1> DEFINE k == Len(nested[c])
<1>7. k \in Nat /\ (k # 0 => nested[c] # <<>>)
  BY <1>2
<1> HIDE DEF longer, k
<1>8. longer # <<>> /\ Head(longer) = next
  <2>1. 1 \in 1..(1 + k) /\ 1 + k # 0 /\ Len(longer) = 1 + k /\ longer[1] = next
    BY <1>6, <1>7 DEF k
  <2>2. longer # <<>>
    BY <2>1, NoRequests
  <2> QED
    BY <1>6, <2>1, <2>2, TailIs
<1>9. \A i \in 1..(Len(longer) - 1) : longer[i] \in Parents(longer[i + 1])
  <2>1. SUFFICES ASSUME NEW i \in 1..k PROVE longer[i] \in Parents(longer[i + 1])
    BY <1>6, <1>7 DEF k
  <2>2. longer[i + 1] = nested[c][i] /\ (i = 1 => longer[i] = next)
        /\ (i # 1 => longer[i] = nested[c][i - 1])
    <3>1. i \in 1..(1 + k) /\ i + 1 \in 1..(1 + k) /\ ~(i + 1 =< 1) /\ (i + 1) - 1 = i
          /\ (i =< 1 <=> i = 1)
      BY <1>7, <2>1
    <3> QED
      BY <1>6, <3>1 DEF k
  <2>3. CASE i = 1
    <3>1. nested[c] # <<>>
      BY <1>7, <2>1
    <3> QED
      BY <1>3, <2>2, <2>3, <3>1
  <2>4. CASE i # 1
    <3>1. i - 1 \in 1..(k - 1) /\ (i - 1) + 1 = i
      BY <1>7, <2>1, <2>4
    <3> QED
      BY <1>5, <2>2, <2>4, <3>1 DEF k
  <2> QED
    BY <2>3, <2>4
<1> QED
  BY <1>1, <1>2, <1>4, <1>6, <1>8, <1>9, AsksPair

\* A parent that is settled exists, and a directory in it is not missing.
LEMMA WillingSettled ==
  ASSUME DirInv, NEW c \in Clients, ClientOK(c), SettleNow(c)
  PROVE  ClientOK(c)'
<1>1. /\ DirShape /\ phase[c] = "settle" /\ phase[c] \in Settling /\ asks[c] = <<>>
      /\ Path(c) \in Paths /\ Awaited(c) \subseteq Paths
      /\ \A p \in Awaited(c) :
              /\ heard[c][p].made \in {"ok", "missing", "failure"}
              /\ heard[c][p].made # "missing" => heard[c][p].saw # Absent
      /\ tree[Path(c)] # Absent
  <2>1. AllAnswered(c, "settle") /\ Saw(c) # Absent
    BY DEF SettleNow, Fits, IsDir
  <2> QED
    BY <2>1, AllHeard
<1>2. SettledOn(c) /\ heard' = [heard EXCEPT ![c][Path(c)] = Unheard] /\ tree' = tree
      /\ nested[c] \in Seq(Mine(c)) /\ at[c] \in 1..Len(Want(c))
  BY <1>1 DEF SettleNow, DirShape
<1>3. /\ heard'[c][Path(c)] = Unheard
      /\ \A p \in Paths : p # Path(c) => heard'[c][p] = heard[c][p]
  <2>1. heard' = [heard EXCEPT ![c] = [heard[c] EXCEPT ![Path(c)] = Unheard]]
    BY <1>2
  <2>2. heard'[c] = [heard[c] EXCEPT ![Path(c)] = Unheard]
    BY <1>1, <2>1 DEF DirShape, Server
  <2> QED
    BY <1>1, <2>2 DEF DirShape, Server
<1>4. CASE Len(nested[c]) > 1
  <2> DEFINE k == Len(nested[c])
             t == Tail(nested[c])
  <2>1. phase'[c] = "settle" /\ asks'[c] = Pair(nested[c][2]) /\ nested'[c] = t
        /\ at' = at
    BY <1>1, <1>2, <1>4 DEF SettledOn, Proceeds, DirShape
  <2>2. k \in Nat /\ k > 1 /\ nested[c] # <<>> /\ 1 \in 1..(k - 1) /\ 2 \in 1..k
    BY <1>2, <1>4
  <2>3. /\ t \in Seq(Mine(c)) /\ Len(t) = k - 1 /\ Head(nested[c]) = nested[c][1]
        /\ \A i \in 1..(k - 1) : t[i] = nested[c][i + 1]
    BY <1>2, <2>2, TailIs
  <2>4. \A i \in 1..(k - 1) : nested[c][i] \in Parents(nested[c][i + 1])
    BY <1>1 DEF ClientOK
  <2>5. at[c] = Len(Want(c))
    BY <1>1, <2>2 DEF ClientOK
  <2> HIDE DEF k, t
  <2>6. t # <<>> /\ Head(t) = nested[c][2] /\ nested[c][2] \in Paths
    <3>1. k - 1 # 0 /\ 1 + 1 = 2
      BY <2>2
    <3>2. t # <<>>
      BY <2>3, <3>1, NoRequests
    <3>3. nested[c][2] \in Mine(c)
      BY <1>2, <2>2 DEF k
    <3> QED
      BY <2>2, <2>3, <3>1, <3>2, <3>3, TailIs DEF Mine, Paths
  <2>7. \A q \in Parents(nested[c][2]) : tree[q] # Absent
    <3>1. Path(c) = nested[c][1]
      BY <2>2, <2>3 DEF Path
    <3>2. Path(c) \in Parents(nested[c][2])
      <4>1. 1 + 1 = 2
        OBVIOUS
      <4> QED
        BY <2>2, <2>4, <3>1, <4>1
    <3>3. Parents(nested[c][2]) = {Path(c)}
      BY <3>2 DEF Parents
    <3> QED
      BY <1>1, <3>3
  <2>8. \A i \in 1..(Len(t) - 1) : t[i] \in Parents(t[i + 1])
    <3>1. SUFFICES ASSUME NEW i \in 1..((k - 1) - 1) PROVE t[i] \in Parents(t[i + 1])
      BY <2>3
    <3>2. i \in 1..(k - 1) /\ i + 1 \in 1..(k - 1)
      BY <2>2, <3>1
    <3> QED
      BY <2>3, <2>4, <3>2
  <2> QED
    BY <1>1, <1>2, <1>3, <2>1, <2>3, <2>5, <2>6, <2>7, <2>8, AsksPair
<1>5. CASE ~(Len(nested[c]) > 1) /\ at[c] < Len(Want(c))
  <2>1. phase'[c] = "settle" /\ asks'[c] = <<>> /\ nested'[c] = <<>> /\ at'[c] = at[c] + 1
        /\ second'[c] = FALSE
    BY <1>1, <1>2, <1>5 DEF SettledOn, Proceeds, DirShape
  <2>2. c \in Uploaders /\ at[c] = 1 /\ Len(Want(c)) = 2
    <3>1. Len(Want(c)) = 1 \/ Len(Want(c)) = 2
      BY WantIs
    <3>2. Len(Want(c)) # 1
      <4>1. SUFFICES ASSUME Len(Want(c)) = 1 PROVE FALSE
        OBVIOUS
      <4>2. at[c] \in 1..1 /\ at[c] < 1
        BY <1>2, <1>5, <4>1
      <4> QED
        BY <4>2
    <3>3. at[c] \in 1..2 /\ at[c] < 2
      BY <1>2, <1>5, <3>1, <3>2
    <3> QED
      BY <3>1, <3>2, <3>3, WantIs
  <2>3. nested[c] = <<>> /\ Path(c) = "inbox"
    <3>1. nested[c] = <<>>
      BY <1>1, <2>2 DEF ClientOK
    <3> QED
      BY <2>2, <3>1, WantIs DEF Path
  <2>4. c \in Paths /\ c # "inbox" /\ c \in Awaited(c) /\ Path(c)' = c /\ Awaited(c)' = {c}
    <3>1. c \in Paths /\ c # "inbox" /\ Want(c)[2] = c /\ at'[c] = 2
      BY <2>1, <2>2, SenderIs
    <3>2. (at'[c] + 1)..Len(Want(c)) = {} /\ 2 \in (at[c] + 1)..Len(Want(c))
      BY <2>2, <3>1
    <3>3. Path(c)' = c
      BY <2>1, <3>1 DEF Path
    <3> QED
      BY <3>1, <3>2, <3>3 DEF Awaited
  <2>5. heard'[c][c] = heard[c][c]
    BY <1>3, <2>3, <2>4
  <2>6. AnswerOK(c, c)'
    BY <1>1, <2>4, <2>5 DEF AnswerOK
  <2>7. \A p \in Paths : HeardOK(c, p)'
    BY <1>2, <1>3, HeardKept
  <2>8. Len(nested'[c]) = 0 /\ Len(asks'[c]) = 0
    BY <2>1
  <2> QED
    BY <2>1, <2>4, <2>6, <2>7, <2>8, NoQueue DEF ClientOK
<1>6. CASE ~(Len(nested[c]) > 1) /\ ~(at[c] < Len(Want(c)))
  <2>1. phase'[c] \in {"upload", "done"} /\ asks'[c] = <<>>
    BY <1>1, <1>2, <1>6 DEF SettledOn, Proceeds, DirShape
  <2>2. Len(asks'[c]) = 0
    BY <2>1
  <2>3. \A i \in 1..Len(asks'[c]) : asks'[c][i].op \in {"mkdir", "lstat"}
    BY <2>2
  <2> QED
    BY <1>2, <1>3, <2>1, <2>3, WillingEnds
<1> QED
  BY <1>4, <1>5, <1>6

LEMMA WillingStep ==
  ASSUME DirInv, NEW c \in Clients, ClientOK(c), BeginClient(c) \/ Step(c) \/ Die(c)
  PROVE  ClientOK(c)'
<1>1. DirShape
  BY DEF DirInv
<1>2. phase[c] \notin {"undo", "failed", "chmod", "again"}
  BY DEF ClientOK
<1>3. ASSUME AllAnswered(c, "settle")
      PROVE  /\ Reported(c) \in {"ok", "missing", "failure"}
             /\ Reported(c) = "missing" => ~second[c]
             /\ Reported(c) # "missing" => Saw(c) # Absent
             /\ Saw(c) # Absent => Fits(Saw(c)) /\ IsDir(Saw(c))
  BY <1>3, AllHeard DEF Reported, Saw
<1>4. ~(StillMissing(c) \/ Tighten(c) \/ LookAgain(c) \/ SettleFails(c))
  BY <1>3 DEF StillMissing, Tighten, LookAgain, SettleFails, Decided, IsDir
<1>5. ~(SettleLate(c) \/ Undone(c))
  BY <1>2 DEF SettleLate, Undone, AllAnswered
<1>6. CASE Upload(c) \/ Stat(c) \/ Remove(c) \/ LookLast(c)
  <2>1. phase'[c] \in {"stat", "unwell", "remove", "gone", "passed"} /\ asks'[c] = <<>>
        /\ UNCHANGED <<tree, heard>>
    BY <1>1, <1>6 DEF Upload, Stat, Remove, LookLast, Checks, Proceeds, DirShape
  <2>2. Len(asks'[c]) = 0
    BY <2>1
  <2>3. \A i \in 1..Len(asks'[c]) : asks'[c][i].op \in {"mkdir", "lstat"}
    BY <2>2
  <2> QED
    BY <2>1, <2>3, WillingEnds
<1>7. CASE Die(c)
  <2>1. PICK k \in 0..Len(asks[c]) : Proceeds(c, "dead", SubSeq(asks[c], 1, k))
    BY <1>7 DEF Die
  <2>2. asks[c] \in Seq(Requests(c))
    BY <1>1 DEF DirShape
  <2>3. /\ Len(SubSeq(asks[c], 1, k)) = k
        /\ \A i \in 1..k : SubSeq(asks[c], 1, k)[i] = asks[c][i] /\ i \in 1..Len(asks[c])
    BY <2>1, <2>2
  <2>4. phase'[c] = "dead" /\ asks'[c] = SubSeq(asks[c], 1, k)
    BY <1>1, <2>1 DEF Proceeds, DirShape
  <2>5. \A i \in 1..Len(asks'[c]) : asks'[c][i].op \in {"mkdir", "lstat"}
    BY <2>3, <2>4 DEF ClientOK
  <2>6. tree' = tree /\ \A p \in Paths : heard'[c][p] = Unheard
    BY <1>1, <1>7 DEF Die, Forgets, DirShape, Server
  <2> QED
    BY <2>4, <2>5, <2>6, WillingEnds
<1> QED
  BY <1>4, <1>5, <1>6, <1>7, WillingBegins, WillingParent, WillingSettled DEF Step

LEMMA WillingNext ==
  ASSUME DirInv, WillingOK, [DirsNext]_dirVars
  PROVE  WillingOK'
<1>1. SUFFICES ASSUME Willing' PROVE TreeOK' /\ \A d \in Clients : ClientOK(d)'
  BY DEF WillingOK
\* A willing host was willing before.
<1>2. /\ UNCHANGED <<honours, writable>> /\ (cleaned => cleaned')
      /\ Clean => cleaned'
  <2>1. ASSUME NEW c \in Clients, BeginClient(c) \/ Step(c) \/ Die(c)
        PROVE  UNCHANGED <<honours, writable, cleaned>>
    BY <2>1, StepOwn DEF DirInv, Own
  <2> QED
    BY <2>1 DEF DirsNext, dirVars, server, Clean, Serve
<1>3. Willing
  BY <1>1, <1>2, NextSpared DEF Willing, Spared
<1>4. TreeOK /\ DirShape /\ \A d \in Clients : ClientOK(d)
  BY <1>3 DEF WillingOK, DirInv
<1>5. CASE UNCHANGED dirVars
  <2>1. Grows /\ TreeOK'
    BY <1>4, <1>5 DEF Grows, TreeOK, dirVars
  <2> QED
    BY <1>4, <1>5, <2>1, OthersWilling DEF dirVars, calls
<1>6. ASSUME NEW c \in Clients, Serve(c) PROVE TreeOK' /\ \A d \in Clients : ClientOK(d)'
  <2>1. TreeOK' /\ Grows /\ ClientOK(c)' /\ \A d \in Clients \ {c} : heard'[d] = heard[d]
    BY <1>3, <1>4, <1>6, WillingServed
  <2>2. \A d \in Clients \ {c} : asks'[d] = asks[d] /\ UNCHANGED <<phase, at, nested, second>>
    BY <1>4, <1>6, ServedQueue DEF DirShape
  <2>3. \A d \in Clients \ {c} : ClientOK(d)'
    BY <1>4, <2>1, <2>2, OthersWilling
  <2> QED
    BY <2>1, <2>3
<1>7. ASSUME NEW c \in Clients, BeginClient(c) \/ Step(c) \/ Die(c)
      PROVE  TreeOK' /\ \A d \in Clients : ClientOK(d)'
  <2>1. Own(c)
    BY <1>4, <1>7, StepOwn
  <2>2. Grows /\ TreeOK'
    BY <1>4, <2>1 DEF Own, Grows, TreeOK
  <2>3. \A d \in Clients \ {c} : ClientOK(d)'
    BY <1>4, <2>1, <2>2, OthersWilling DEF Own
  <2> QED
    BY <1>4, <1>7, <2>2, <2>3, WillingStep
<1> QED
  BY <1>1, <1>2, <1>5, <1>6, <1>7 DEF DirsNext, Willing

LEMMA WillingInit == ASSUME DirsInit PROVE WillingOK
<1>1. SUFFICES ASSUME Willing PROVE TreeOK /\ \A c \in Clients : ClientOK(c)
  BY DEF WillingOK
<1>2. TreeOK
  <2>1. Fits(Node("dir", "private", "clift"))
    BY NodesAre DEF Fits
  <2>2. \A node \in Theirs : Foreign(node)
    <3>1. \A node \in Theirs : node \in Nodes /\ node.owner = "user"
      BY DEF Theirs, Nodes, Node
    <3> QED
      BY <3>1, AbsentAssumption DEF Foreign
  <2>3. "inbox" \in Paths /\ ~Foreign(tree["inbox"])
    BY <1>1 DEF Willing, Paths
  <2> QED
    BY <2>1, <2>2, <2>3 DEF DirsInit, TreeOK
<1>3. ASSUME NEW c \in Clients PROVE ClientOK(c)
  <2>1. phase[c] = "idle" /\ asks[c] = <<>> /\ ~second[c] /\ \A p \in Paths : heard[c][p] = Unheard
    BY DEF DirsInit
  <2>2. Len(asks[c]) = 0
    BY <2>1
  <2> QED
    BY <2>1, <2>2, UnheardOK DEF ClientOK
<1> QED
  BY <1>2, <1>3

\* Clients that race for the same missing directories do not fail each other:
\* a failure has a cause outside Clift, or the cleaner took a directory away
\* underneath (fsops.rs, ensure_all and ensure_in).
THEOREM CauseHolds == DirsSpec => []JustCause
<1>1. WillingOK => JustCause
  BY DEF WillingOK, Willing, ClientOK, JustCause, Foreign
<1>2. DirsInit => DirInv /\ WillingOK
  BY DirInvInit, WillingInit
<1>3. DirInv /\ WillingOK /\ [DirsNext]_dirVars => (DirInv /\ WillingOK)'
  BY DirInvNext, WillingNext
<1> QED
  BY <1>1, <1>2, <1>3, PTL DEF DirsSpec

=============================================================================
