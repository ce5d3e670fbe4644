------------------------------ MODULE Universal ------------------------------
(***************************************************************************)
(* Universal Mode: publishers (`clift paste`, `clift copy`), a relay, and  *)
(* fetchers (`clift fetch`, or the key press that redeems a token).        *)
(*                                                                         *)
(* The relay is what both implementations refine, ObjectStore; its steps   *)
(* are taken from there.  A publisher and a fetcher share nothing but the  *)
(* relay and a token that somebody carries from one screen to the other.   *)
(* A relayd takes an object out of its store for a GET and puts it back if *)
(* the delivery fails; a DELETE is answered in between all the same.       *)
(* A request may be lost, or executed with its answer lost; a process may  *)
(* be killed, and the fetching host may crash, between any two steps.      *)
(***************************************************************************)
EXTENDS Integers

CONSTANTS
  Publishers,   \* runs of `clift paste --mode universal` and `clift copy`
  Fetchers,     \* runs of `clift fetch`, retries among them
  Ids,          \* the ids the relay will draw
  Files,        \* number of files in a bundle
  None

ASSUME UniversalAssumption ==
  /\ Files \in Nat \ {0}            \* an empty bundle is refused
  /\ None \notin Ids

VARIABLES
  status,       \* of every object on the relay (ObjectStore)
  hand,         \* the id the relay has taken out to answer a fetcher, or None
  spc,          \* where each publisher is
  token,        \* the id in the token a publisher was given, or None
  shown,        \* ids whose token reached a person or an agent
  fpc,          \* where each fetcher is
  redeemed,     \* the id whose bytes a fetcher was sent, or None
  n,            \* the file a fetcher is writing
  disk,         \* disk[f][<<kind, i>>]: a fetcher's own batch directory
  printed,      \* fetchers that have printed their paths
  crashed       \* fetchers whose host has gone down since they began

relayVars == <<status, hand>>
pubVars == <<spc, token, shown>>
fetchVars == <<fpc, redeemed, n, disk, printed, crashed>>
vars == <<relayVars, pubVars, fetchVars>>

Relay == INSTANCE ObjectStore

\* "typing" the token goes to the clipboard or to the focused window,
\* "printing" it goes to stdout; "shown", "failed", "killed" are ends, and so
\* are "withdrawn", "overtaken" and "abandoned": the token was not delivered.
\* The publisher of an "overtaken" one was told as well that it is withdrawn, but
\* the relay had the object in hand for a GET.
PublisherPlaces ==
  {"start", "typing", "printing", "withdrawing",
   "shown", "failed", "withdrawn", "overtaken", "abandoned", "killed"}

\* "asking": the relay has begun to answer; "opening" the ciphertext is here;
\* "making" its directory;
\* "creating", "filling", "syncing", "renaming": file n;
\* "discarding" the temporary file; "telling": the paths go out.
\* The ends: "told", "failed", "littered" (the temporary file would not go)
\* and "killed".
FetcherPlaces ==
  {"start", "asking", "opening", "making", "creating", "filling", "syncing", "renaming",
   "discarding", "telling", "told", "failed", "littered", "killed"}

Names == {"part", "final"} \X (1 .. Files)

\* What stands under a name: nothing, a file whose bytes are not all there, one
\* whose bytes the machine still holds in memory, one that is on the disk.
Contents == {"absent", "short", "buffered", "synced"}

TypeOK ==
  /\ Relay!TypeOK
  /\ hand \in [Fetchers -> Ids \cup {None}]
  /\ spc \in [Publishers -> PublisherPlaces]
  /\ token \in [Publishers -> Ids \cup {None}]
  /\ \A p \in Publishers :
       spc[p] \notin {"start", "failed", "killed"} => token[p] \in Ids
  /\ shown \subseteq Ids
  /\ fpc \in [Fetchers -> FetcherPlaces]
  /\ redeemed \in [Fetchers -> Ids \cup {None}]
  /\ n \in [Fetchers -> 1 .. Files]
  /\ disk \in [Fetchers -> [Names -> Contents]]
  /\ printed \subseteq Fetchers
  /\ crashed \subseteq Fetchers

Init ==
  /\ Relay!Init
  /\ hand = [f \in Fetchers |-> None]
  /\ spc = [p \in Publishers |-> "start"]
  /\ token = [p \in Publishers |-> None]
  /\ shown = {}
  /\ fpc = [f \in Fetchers |-> "start"]
  /\ redeemed = [f \in Fetchers |-> None]
  /\ n = [f \in Fetchers |-> 1]
  /\ disk = [f \in Fetchers |-> [x \in Names |-> "absent"]]
  /\ printed = {}
  /\ crashed = {}

\* Objects the relay has taken out for a GET: neither a DELETE, nor the sweeper,
\* nor another GET finds them.
InHand == {hand[f] : f \in Fetchers} \ {None}

------------------------------------------------------------------------------
(* The publisher *)

PublisherGoes(p, from, to) ==
  /\ spc[p] = from
  /\ spc' = [spc EXCEPT ![p] = to]

\* The limits are not met, there is no randomness, or the relay refuses or does
\* not hear of it.
NotPublished(p) ==
  /\ PublisherGoes(p, "start", "failed")
  /\ UNCHANGED <<relayVars, token, shown, fetchVars>>

\* The object is stored, and the answer is lost: nobody will ever know its id.
PublishUnheard(p, id) ==
  /\ PublisherGoes(p, "start", "failed")
  /\ Relay!Publish(id, {})
  /\ UNCHANGED <<hand, token, shown, fetchVars>>

\* Stored, with the id and the key in a token: on to one way of delivery.
Publish(p, id) ==
  /\ \/ PublisherGoes(p, "start", "typing")
     \/ PublisherGoes(p, "start", "printing")
  /\ Relay!Publish(id, {})
  /\ token' = [token EXCEPT ![p] = id]
  /\ UNCHANGED <<hand, shown, fetchVars>>

\* The token reaches whoever will use it, or it does not: a helper, or a stream,
\* may have passed all of it on before it fails.
MayShow(p) == shown' \in {shown, shown \cup {token[p]}}

\* The clipboard holds the token or the window was typed into; a run with --json
\* then prints as well.
Deliver(p) ==
  /\ PublisherGoes(p, "typing", "shown") \/ PublisherGoes(p, "typing", "printing")
  /\ shown' = shown \cup {token[p]}
  /\ UNCHANGED <<relayVars, token, fetchVars>>

\* `report`, the last step: stdout takes the token.
Report(p) ==
  /\ PublisherGoes(p, "printing", "shown")
  /\ shown' = shown \cup {token[p]}
  /\ UNCHANGED <<relayVars, token, fetchVars>>

\* `deliver` fails: withdraw.
DeliverFails(p) ==
  /\ PublisherGoes(p, "typing", "withdrawing")
  /\ MayShow(p)
  /\ UNCHANGED <<relayVars, token, fetchVars>>

\* `report` fails: the error is returned.
ReportFails(p) ==
  /\ PublisherGoes(p, "printing", "failed")
  /\ MayShow(p)
  /\ UNCHANGED <<relayVars, token, fetchVars>>

\* Mutant: the answer to the withdrawal is taken for granted
Withdraw_Assumed(p) ==
  /\ PublisherGoes(p, "withdrawing", "withdrawn")
  /\ UNCHANGED <<relayVars, token, shown, fetchVars>>

\* A DELETE takes away what the relay has in its store; it is answered with 204
\* whether there was anything or not.
Deleted(p) == Relay!Forget(({token[p]} \cap Relay!Held) \ InHand)

\* revoke; an object that is already gone is as good as withdrawn, and so, for
\* all the publisher hears, is one that is in hand for a GET.
Withdraw(p) ==
  /\ \/ token[p] \notin InHand /\ PublisherGoes(p, "withdrawing", "withdrawn")
     \/ token[p] \in InHand /\ PublisherGoes(p, "withdrawing", "overtaken")
  /\ Deleted(p)
  /\ UNCHANGED <<hand, token, shown, fetchVars>>

\* The withdrawal fails, executed or not, and the failure is swallowed.
WithdrawFails(p) ==
  /\ PublisherGoes(p, "withdrawing", "abandoned")
  /\ Deleted(p) \/ UNCHANGED status
  /\ UNCHANGED <<hand, token, shown, fetchVars>>

PublisherKilled(p) ==
  /\ spc[p] \in {"start", "typing", "printing", "withdrawing"}
  /\ spc' = [spc EXCEPT ![p] = "killed"]
  /\ UNCHANGED <<relayVars, token, shown, fetchVars>>

------------------------------------------------------------------------------
(* The fetcher *)

FetcherGoes(f, from, to) ==
  /\ fpc[f] = from
  /\ fpc' = [fpc EXCEPT ![f] = to]

\* One file of f changes, or nothing but where f is.
OnDisk(f, name, contents) ==
  /\ disk' = [disk EXCEPT ![f][name] = contents]
  /\ UNCHANGED <<relayVars, pubVars, redeemed, printed, crashed>>

Elsewhere == UNCHANGED <<relayVars, pubVars, redeemed, disk, printed, crashed>>

\* GET: the relay takes the object out, and its answer is under way.
Ask(f, id) ==
  /\ FetcherGoes(f, "start", "asking")
  /\ id \in shown
  /\ id \in Relay!Held \ InHand
  /\ hand' = [hand EXCEPT ![f] = id]
  /\ UNCHANGED <<status, pubVars, redeemed, n, disk, printed, crashed>>

Emptied(f) ==
  /\ hand[f] # None
  /\ hand' = [hand EXCEPT ![f] = None]

\* retrieve; the whole ciphertext arrives.
Retrieve(f) ==
  /\ FetcherGoes(f, "asking", "opening")
  /\ Emptied(f)
  /\ Relay!Deliver(hand[f], {})
  /\ redeemed' = [redeemed EXCEPT ![f] = hand[f]]
  /\ UNCHANGED <<pubVars, n, disk, printed, crashed>>

\* For the relay the answer is delivered, and it does not arrive: the fetcher
\* learns that later, or is gone already.
RetrieveUnheard(f) ==
  /\ Emptied(f)
  /\ Relay!Deliver(hand[f], {})
  /\ UNCHANGED <<pubVars, fetchVars>>

\* The delivery fails, and the relay puts the object back, unless it has expired.
PutBack(f) ==
  /\ Emptied(f)
  /\ UNCHANGED status \/ Relay!Forget({hand[f]})
  /\ UNCHANGED <<pubVars, fetchVars>>

\* The token does not parse, the relay has no such object, the request is lost;
\* or the answer is, or it is not waited for any longer.
NotRetrieved(f) ==
  /\ FetcherGoes(f, "start", "failed") \/ FetcherGoes(f, "asking", "failed")
  /\ UNCHANGED n
  /\ Elsewhere

\* crypto::open and bundle::decode, before anything is written
Open(f) ==
  /\ FetcherGoes(f, "opening", "making") \/ FetcherGoes(f, "opening", "failed")
  /\ UNCHANGED n
  /\ Elsewhere

\* write_batch: the root, the date, and a directory nobody else has
MakeDirectory(f) ==
  /\ FetcherGoes(f, "making", "creating") \/ FetcherGoes(f, "making", "failed")
  /\ UNCHANGED n
  /\ Elsewhere

\* create_new of the temporary file
CreatePart(f) ==
  /\ FetcherGoes(f, "creating", "filling")
  /\ UNCHANGED n
  /\ OnDisk(f, <<"part", n[f]>>, "short")

NotCreated(f) ==
  /\ FetcherGoes(f, "creating", "failed")
  /\ UNCHANGED n
  /\ Elsewhere

Fill(f) ==
  /\ FetcherGoes(f, "filling", "syncing")
  /\ UNCHANGED n
  /\ OnDisk(f, <<"part", n[f]>>, "buffered")

\* Mutant: the file is closed without sync_all
Sync_Skipped(f) ==
  /\ FetcherGoes(f, "syncing", "renaming")
  /\ UNCHANGED n
  /\ Elsewhere

\* sync_all
Sync(f) ==
  /\ FetcherGoes(f, "syncing", "renaming")
  /\ UNCHANGED n
  /\ OnDisk(f, <<"part", n[f]>>, "synced")

\* The write, the sync or the rename fails.
WriteFails(f) ==
  /\ \E from \in {"filling", "syncing", "renaming"} : FetcherGoes(f, from, "discarding")
  /\ UNCHANGED n
  /\ Elsewhere

\* Mutant: a failure is returned with the temporary file still there
Discard_Skipped(f) ==
  /\ FetcherGoes(f, "discarding", "failed")
  /\ UNCHANGED n
  /\ Elsewhere

\* remove_file of the temporary file
Discard(f) ==
  /\ FetcherGoes(f, "discarding", "failed")
  /\ UNCHANGED n
  /\ OnDisk(f, <<"part", n[f]>>, "absent")

\* remove_file fails as well; that is ignored.
DiscardFails(f) ==
  /\ FetcherGoes(f, "discarding", "littered")
  /\ UNCHANGED n
  /\ Elsewhere

\* Mutant: the count of files runs past the last one
Rename_Uncounted(f) ==
  /\ \/ n[f] < Files /\ FetcherGoes(f, "renaming", "creating")
     \/ n[f] = Files /\ FetcherGoes(f, "renaming", "telling")
  /\ n' = [n EXCEPT ![f] = @ + 1]
  /\ disk' = [disk EXCEPT ![f][<<"final", n[f]>>] = disk[f][<<"part", n[f]>>],
                          ![f][<<"part", n[f]>>] = "absent"]
  /\ UNCHANGED <<relayVars, pubVars, redeemed, printed, crashed>>

\* Mutant: one file too few is waited for
Rename_OneEarly(f) ==
  /\ \/ n[f] < Files - 1 /\ FetcherGoes(f, "renaming", "creating")
                         /\ n' = [n EXCEPT ![f] = @ + 1]
     \/ n[f] >= Files - 1 /\ FetcherGoes(f, "renaming", "telling") /\ UNCHANGED n
  /\ disk' = [disk EXCEPT ![f][<<"final", n[f]>>] = disk[f][<<"part", n[f]>>],
                          ![f][<<"part", n[f]>>] = "absent"]
  /\ UNCHANGED <<relayVars, pubVars, redeemed, printed, crashed>>

\* rename puts the file under its name; on to the next, or to the paths.
Rename(f) ==
  /\ \/ n[f] < Files /\ FetcherGoes(f, "renaming", "creating")
                     /\ n' = [n EXCEPT ![f] = @ + 1]
     \/ n[f] = Files /\ FetcherGoes(f, "renaming", "telling") /\ UNCHANGED n
  /\ disk' = [disk EXCEPT ![f][<<"final", n[f]>>] = disk[f][<<"part", n[f]>>],
                          ![f][<<"part", n[f]>>] = "absent"]
  /\ UNCHANGED <<relayVars, pubVars, redeemed, printed, crashed>>

\* The paths go to stdout, or the batch to the clipboard.
Tell(f) ==
  /\ FetcherGoes(f, "telling", "told")
  /\ printed' = printed \cup {f}
  /\ UNCHANGED <<relayVars, pubVars, redeemed, n, disk, crashed>>

\* They cannot; a stream may have passed them on before it fails.
TellFails(f) ==
  /\ FetcherGoes(f, "telling", "failed")
  /\ printed' \in {printed, printed \cup {f}}
  /\ UNCHANGED <<relayVars, pubVars, redeemed, n, disk, crashed>>

------------------------------------------------------------------------------
(* What nobody decides *)

\* Objects expire.
RelayForgets ==
  /\ \E forgotten \in SUBSET (Relay!Held \ InHand) : forgotten # {} /\ Relay!Forget(forgotten)
  /\ UNCHANGED <<hand, pubVars, fetchVars>>

\* The daemon restarts, and answers nobody it had begun to answer.
RelayRestarts ==
  /\ Relay!Held # {}
  /\ Relay!Forget(Relay!Held)
  /\ hand' = [f \in Fetchers |-> None]
  /\ UNCHANGED <<pubVars, fetchVars>>

Running == {f \in Fetchers : fpc[f] \notin {"start", "told", "failed", "littered", "killed"}}

FetcherKilled(f) ==
  /\ f \in Running
  /\ fpc' = [fpc EXCEPT ![f] = "killed"]
  /\ UNCHANGED n
  /\ Elsewhere

\* Of the bytes in memory some are lost.
Survives(contents) == IF contents = "buffered" THEN "short" ELSE contents

\* The host of f goes down, and f with it if it still runs.  Nothing syncs a
\* directory, so any rename may be undone.
HostCrashes(f) ==
  /\ fpc[f] # "start"
  /\ f \notin crashed
  /\ crashed' = crashed \cup {f}
  /\ fpc' = [fpc EXCEPT ![f] = IF f \in Running THEN "killed" ELSE @]
  /\ \E undone \in SUBSET {i \in 1 .. Files : disk[f][<<"final", i>>] # "absent"} :
       disk' = [disk EXCEPT ![f] = [x \in Names |->
         IF x[2] \notin undone THEN Survives(disk[f][x])
         ELSE IF x[1] = "part" THEN Survives(disk[f][<<"final", x[2]>>])
         ELSE "absent"]]
  /\ UNCHANGED <<relayVars, pubVars, redeemed, n, printed>>

------------------------------------------------------------------------------

Publishing(p) ==
  \/ NotPublished(p)
  \/ \E id \in Ids : PublishUnheard(p, id) \/ Publish(p, id)
  \/ Deliver(p) \/ Report(p) \/ DeliverFails(p) \/ ReportFails(p)
  \/ Withdraw(p) \/ WithdrawFails(p)
  \/ PublisherKilled(p)

Fetching(f) ==
  \/ \E id \in Ids : Ask(f, id)
  \/ Retrieve(f) \/ RetrieveUnheard(f) \/ PutBack(f) \/ NotRetrieved(f) \/ Open(f) \/ MakeDirectory(f)
  \/ CreatePart(f) \/ NotCreated(f) \/ Fill(f) \/ Sync(f) \/ WriteFails(f)
  \/ Discard(f) \/ DiscardFails(f) \/ Rename(f)
  \/ Tell(f) \/ TellFails(f)
  \/ FetcherKilled(f) \/ HostCrashes(f)

Next ==
  \/ \E p \in Publishers : Publishing(p)
  \/ \E f \in Fetchers : Fetching(f)
  \/ RelayForgets \/ RelayRestarts

Spec == Init /\ [][Next]_vars

------------------------------------------------------------------------------
(* Properties *)

\* A token makes one batch at most, however often it is fetched, by whomever,
\* and whatever became of the answers: no two fetchers ever have its bytes.
OneBatchPerToken ==
  \A f, g \in Fetchers :
    redeemed[f] # None /\ redeemed[f] = redeemed[g] => f = g

\* A reading agent sees a whole file under a final name or none at all, after a
\* crash of the host too (local.rs, `write_file_atomically`).
WholeOrAbsent ==
  \A f \in Fetchers, i \in 1 .. Files : disk[f][<<"final", i>>] \in {"absent", "synced"}

\* A fetch that fails leaves no temporary file, if it lived to remove it, the
\* file could be removed and the host has not crashed since (local.rs:211).
NothingLeft ==
  \A f \in Fetchers \ crashed : fpc[f] = "failed" =>
    \A i \in 1 .. Files : disk[f][<<"part", i>>] = "absent"

\* Unless the token got through although its delivery failed, what was withdrawn
\* is gone, and nobody has had it.  If it got through, a withdrawal that found the
\* object in the store is final for all that; one that was answered with the
\* object in hand for a GET is not.
WithdrawnUnread ==
  \A p \in Publishers :
    /\ spc[p] = "withdrawn" => status[token[p]] # "held"
    /\ spc[p] \in {"withdrawn", "overtaken"} /\ token[p] \notin shown
         => status[token[p]] = "gone"

\* What a publisher was told is withdrawn can never be fetched again.  It does not
\* hold over a relayd: the object may be in hand for a GET, and come back.
WithdrawnForGood ==
  \A p \in Publishers :
    spc[p] \in {"withdrawn", "overtaken"} => status[token[p]] # "held"

\* "Torn": a path was printed of a file that is not there, or not whole.  A
\* path that was printed before a crash is good for nothing any more: the name
\* may have gone with it.
Heard(f) ==
  IF f \notin printed THEN "unheard"
  ELSE IF f \in crashed THEN "expired"
  ELSE IF \A i \in 1 .. Files : disk[f][<<"final", i>>] = "synced" THEN "whole"
  ELSE "torn"

Handover == INSTANCE BatchHandover
  WITH Senders <- Fetchers, batch <- [f \in Fetchers |-> Heard(f)]

\* `clift fetch` promises the agent what a send over SSH promises it: it hears
\* of a batch once, when all of it is in place, and the batch stays whole
\* (fetch.rs:13).
ImplementsHandover == Handover!Spec

\* A publish whose delivery fails leaves nothing on the relay that nobody has the
\* token of, unless the process was killed or the withdrawal failed: "a delivery
\* failure withdraws it before reporting anything" (universal.rs:11).
FailedDeliveryWithdrawn ==
  \A p \in Publishers :
    spc[p] = "failed" /\ token[p] # None /\ token[p] \notin shown
      => status[token[p]] # "held"

==============================================================================
