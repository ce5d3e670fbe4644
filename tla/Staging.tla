------------------------------- MODULE Staging -------------------------------
(***************************************************************************)
(* The remote inbox: sends that upload a batch (usecase/send, staging/     *)
(* batch and atomic, upload.rs, fsops.rs) and cleanups that remove old     *)
(* ones (staging/clean), all over SFTP against one directory of one day.   *)
(*                                                                         *)
(* A step is one request as the server executes it; the requests that      *)
(* mkdirs_and_lstats and SftpSession::upload send without waiting for an   *)
(* answer are one step each.  Anything may happen between two requests.    *)
(* A request may be refused, lost, or executed and its answer lost.        *)
(*                                                                         *)
(* A batch directory is named by its sender: the 128-bit id is drawn once  *)
(* per send.  A file is its index in the batch, under its temporary        *)
(* ("part") or its final ("file") name, and is short or whole.             *)
(***************************************************************************)
EXTENDS Integers, FiniteSets

CONSTANTS
  Senders,      \* sends, each with a batch of its own
  Sweeps,       \* cleanups by age: `clift clean`, or the tidy-up after a send
  Purges,       \* cleanups of everything: `clift clean --all`
  Files,        \* files in a batch
  Retention,    \* age at which a batch has expired
  Deadline,     \* longest one SFTP operation lasts before its session breaks
  Ahead,        \* how far the cleaning machine's clock is ahead of the host's
  Horizon,      \* bound of the model: the clock stops here
  None

Cleaners == Sweeps \cup Purges

ASSUME StagingAssumption ==
  /\ Sweeps \cap Purges = {}
  /\ None \notin Senders
  /\ Files \in Nat \ {0}
  /\ Retention \in Nat
  /\ Deadline \in Nat \ {0}
  /\ Ahead \in Int
  /\ Horizon \in Nat

VARIABLES
  now,          \* the host's clock
  date,         \* whether the date directory exists
  dir,          \* whether each batch directory exists
  touched,      \* modification time of each batch directory, 0 without one
  content,      \* what is behind each name in each batch directory
  pc,           \* where each send is
  n,            \* the file the send is uploading
  staged,       \* stage_batch's `staged`; what is left of it while discarding
  since,        \* when the send's operation started, or the text was handed out
  harmed,       \* history: an answer was lost, a mode or a removal refused
  cpc,          \* where each cleanup is
  dry,          \* Action::Report
  cutoff,       \* the cleanup's `now`
  listed,       \* batches its listing of the date directory held
  todo,         \* those of them it has still to look at and are old enough
  emptied,      \* those it counted as removed
  batch,        \* the batch it is removing
  names         \* what it has still to remove of that batch

host == <<date, dir, touched, content>>
sends == <<pc, n, staged, since, harmed>>
cleanups == <<cpc, dry, cutoff, listed, todo, emptied, batch, names>>
vars == <<now, host, sends, cleanups>>

Index == 1..Files
Names == {"part", "file"} \X Index

Creating == {"creating", "dating", "retrying"}
Uploading == {"opening", "writing", "renaming"}
Failing == {"clearing", "discarding"}
Asking == Creating \cup Uploading \cup Failing
Over == {"sent", "failed", "dead"}

HostType ==
  /\ date \in BOOLEAN
  /\ dir \in [Senders -> BOOLEAN]
  /\ touched \in [Senders -> Nat]
  /\ content \in [Senders -> [Names -> {"absent", "short", "whole"}]]

SendsType ==
  /\ pc \in [Senders -> {"idle"} \cup Asking \cup Over]
  /\ n \in [Senders -> Index]
  /\ staged \in [Senders -> SUBSET Index]
  /\ since \in [Senders -> Nat]
  /\ harmed \in [Senders -> BOOLEAN]

CleanupsType ==
  /\ cpc \in [Cleaners -> {"idle", "dates", "batches", "choosing", "removing", "ended"}]
  /\ dry \in [Cleaners -> BOOLEAN]
  /\ cutoff \in [Cleaners -> Int]
  /\ listed \in [Cleaners -> SUBSET Senders]
  /\ todo \in [Cleaners -> SUBSET Senders]
  /\ emptied \in [Cleaners -> SUBSET Senders]
  /\ batch \in [Cleaners -> Senders \cup {None}]
  /\ names \in [Cleaners -> SUBSET Names]
  /\ \A c \in Cleaners : cpc[c] = "removing" => batch[c] # None

TypeOK == now \in Nat /\ HostType /\ SendsType /\ CleanupsType

Init ==
  /\ now = 0
  /\ date \in BOOLEAN      \* an earlier send of the day may have made it
  /\ dir = [s \in Senders |-> FALSE]
  /\ touched = [s \in Senders |-> 0]
  /\ content = [s \in Senders |-> [name \in Names |-> "absent"]]
  /\ pc = [s \in Senders |-> "idle"]
  /\ n = [s \in Senders |-> 1]
  /\ staged = [s \in Senders |-> {}]
  /\ since = [s \in Senders |-> 0]
  /\ harmed = [s \in Senders |-> FALSE]
  /\ cpc = [c \in Cleaners |-> "idle"]
  /\ dry = [c \in Cleaners |-> FALSE]
  /\ cutoff = [c \in Cleaners |-> 0]
  /\ listed = [c \in Cleaners |-> {}]
  /\ todo = [c \in Cleaners |-> {}]
  /\ emptied = [c \in Cleaners |-> {}]
  /\ batch = [c \in Cleaners |-> None]
  /\ names = [c \in Cleaners |-> {}]

------------------------------------------------------------------------------
(* The host: what a request changes.  A change inside a batch directory    *)
(* also changes that directory's modification time.                        *)

Present(s) == {name \in Names : content[s][name] # "absent"}

MakeBatch(s) ==
  /\ dir' = [dir EXCEPT ![s] = TRUE]
  /\ touched' = [touched EXCEPT ![s] = now]
  /\ UNCHANGED <<date, content>>

\* The file behind name becomes what; "absent" when it is unlinked.
Put(s, name, what) ==
  /\ content' = [content EXCEPT ![s][name] = what]
  /\ touched' = [touched EXCEPT ![s] = now]
  /\ UNCHANGED <<date, dir>>

\* remove of a file that may already have gone
Unlink(s, name) ==
  IF name \in Present(s) THEN Put(s, name, "absent") ELSE UNCHANGED host

\* rmdir of a batch directory, which the host refuses while it holds anything
RemoveDir(s) ==
  /\ IF Present(s) = {}
       THEN dir' = [dir EXCEPT ![s] = FALSE] /\ touched' = [touched EXCEPT ![s] = 0]
       ELSE UNCHANGED <<dir, touched>>
  /\ UNCHANGED <<date, content>>

------------------------------------------------------------------------------
(* Sends: perform, create_batch_in, stage_batch, upload_atomic             *)

\* The send goes on to its next operation, or its next request.
GoesTo(s, place) ==
  /\ pc' = [pc EXCEPT ![s] = place]
  /\ UNCHANGED <<n, staged, since, harmed>>

Starts(s, place) ==
  /\ pc' = [pc EXCEPT ![s] = place]
  /\ since' = [since EXCEPT ![s] = now]

\* The send is over, with nothing to show for it.
Ends(s, place) ==
  /\ pc' = [pc EXCEPT ![s] = place]
  /\ since' = [since EXCEPT ![s] = 0]

\* Failure::Broken, whatever the request did: nothing more is asked of this
\* session.  ensure_all returns the error; stage_batch discards first.
\* A directory that was made and whose mode the host then refuses (settle) ends a
\* send in the same way: it is there, and nobody removes it.
Unanswered(s) ==
  /\ IF pc[s] \in Creating THEN Ends(s, "failed") ELSE Starts(s, "discarding")
  /\ harmed' = [harmed EXCEPT ![s] = TRUE]
  /\ UNCHANGED <<n, staged>>

StartSend(s) ==
  /\ pc[s] = "idle"
  /\ Starts(s, "creating")
  /\ UNCHANGED <<now, host, n, staged, harmed, cleanups>>

\* limits.check fails before anything is asked of the host.
OverLimit(s) ==
  /\ pc[s] = "idle"
  /\ Ends(s, "failed")
  /\ UNCHANGED <<now, host, n, staged, harmed, cleanups>>

\* stage_batch takes up the first file.
Uploads(s) ==
  /\ Starts(s, "opening")
  /\ UNCHANGED <<n, staged, harmed>>

\* ensure_all: mkdir of the inbox and of the batch, sent together.
CreateBatch(s) ==
  /\ pc[s] = "creating"
  /\ \/ date /\ MakeBatch(s) /\ (Uploads(s) \/ Unanswered(s))
     \/ ~date /\ UNCHANGED host /\ GoesTo(s, "dating")
  /\ UNCHANGED <<now, cleanups>>

\* ensure_in: the parent is missing, so it is made first; finding that another
\* send has just made it is as good.
CreateDate(s) ==
  /\ pc[s] = "dating"
  /\ date' = TRUE
  /\ UNCHANGED <<dir, touched, content>>
  /\ GoesTo(s, "retrying") \/ Unanswered(s)
  /\ UNCHANGED <<now, cleanups>>

\* ensure_in, the second mkdir: no parent again is an error, not a loop.
CreateAgain(s) ==
  /\ pc[s] = "retrying"
  /\ \/ date /\ MakeBatch(s) /\ (Uploads(s) \/ Unanswered(s))
     \/ ~date /\ UNCHANGED <<host, n, staged, harmed>> /\ Ends(s, "failed")
  /\ UNCHANGED <<now, cleanups>>

\* SftpSession::upload, the exclusive open of the temporary name.
Open(s) ==
  /\ pc[s] = "opening"
  /\ \/ /\ dir[s]
        /\ Put(s, <<"part", n[s]>>, "short")
        /\ GoesTo(s, "writing") \/ Unanswered(s)
     \/ ~dir[s] /\ UNCHANGED host /\ GoesTo(s, "clearing")
  /\ UNCHANGED <<now, cleanups>>

\* Mutant: the size that came back is not compared
Verified_Anything(what) == "renaming"

\* verify: where the upload goes once the host has said what it holds
Verified(what) == IF what = "whole" THEN "renaming" ELSE "clearing"

\* SftpSession::upload, the writes and the read-back.  The handle works on
\* even if the name has gone meanwhile.
Write(s) ==
  /\ pc[s] = "writing"
  /\ \E what \in {"short", "whole"} :
       /\ IF <<"part", n[s]>> \in Present(s)
            THEN /\ content' = [content EXCEPT ![s][<<"part", n[s]>>] = what]
                 /\ UNCHANGED <<date, dir, touched>>
            ELSE UNCHANGED host
       /\ GoesTo(s, Verified(what)) \/ Unanswered(s)
  /\ UNCHANGED <<now, cleanups>>

\* Mutant: the batch has no last file
Staged_NoEnd(s) ==
  /\ staged' = [staged EXCEPT ![s] = @ \cup {n[s]}]
  /\ Starts(s, "opening")
  /\ n' = [n EXCEPT ![s] = @ + 1]
  /\ UNCHANGED harmed

\* The rename is answered: the file is staged, and stage_batch goes on to the
\* next one or is done.  Only now is there a text to paste.
Staged(s) ==
  /\ staged' = [staged EXCEPT ![s] = @ \cup {n[s]}]
  /\ IF n[s] = Files
       THEN Starts(s, "sent") /\ UNCHANGED n
       ELSE Starts(s, "opening") /\ n' = [n EXCEPT ![s] = @ + 1]
  /\ UNCHANGED harmed

\* The rename from the temporary to the final name.
Rename(s) ==
  /\ pc[s] = "renaming"
  /\ \/ /\ <<"part", n[s]>> \in Present(s)
        /\ content' = [content EXCEPT ![s][<<"file", n[s]>>] = content[s][<<"part", n[s]>>],
                                      ![s][<<"part", n[s]>>] = "absent"]
        /\ touched' = [touched EXCEPT ![s] = now]
        /\ UNCHANGED <<date, dir>>
        /\ Staged(s) \/ Unanswered(s)
     \/ /\ <<"part", n[s]>> \notin Present(s)
        /\ UNCHANGED host
        /\ GoesTo(s, "clearing")
  /\ UNCHANGED <<now, cleanups>>

\* The host refuses a request for reasons of its own.
Refused(s) ==
  /\ pc[s] \in Creating \cup Uploading
  /\ \/ pc[s] \in Creating /\ Ends(s, "failed") /\ UNCHANGED <<n, staged, harmed>>
     \/ pc[s] \in Uploading /\ GoesTo(s, "clearing")
  /\ UNCHANGED <<now, host, cleanups>>

\* The session breaks before the request reaches the host.
Lost(s) ==
  /\ pc[s] \in Creating \cup Uploading \cup {"clearing"}
  /\ Unanswered(s)
  /\ UNCHANGED <<now, host, cleanups>>

\* Mutant: a refused upload leaves its temporary file
Clear_Left(s) ==
  /\ pc[s] = "clearing"
  /\ Starts(s, "discarding")
  /\ UNCHANGED <<now, host, n, staged, harmed, cleanups>>

\* upload_atomic removes its temporary file; how that went is ignored.
Clear(s) ==
  /\ pc[s] = "clearing"
  /\ \/ /\ Unlink(s, <<"part", n[s]>>)
        /\ Starts(s, "discarding") /\ UNCHANGED <<n, staged, harmed>>
     \/ UNCHANGED host /\ Unanswered(s)
  /\ UNCHANGED <<now, cleanups>>

\* discard: every staged file in turn, then the directory; failures ignored.
DiscardFile(s, i) ==
  /\ pc[s] = "discarding"
  /\ i \in staged[s] /\ \A j \in staged[s] : i <= j
  /\ staged' = [staged EXCEPT ![s] = @ \ {i}]
  /\ Starts(s, "discarding")
  /\ \/ Unlink(s, <<"file", i>>) /\ UNCHANGED harmed
     \/ UNCHANGED host /\ harmed' = [harmed EXCEPT ![s] = TRUE]
  /\ UNCHANGED <<now, n, cleanups>>

DiscardBatch(s) ==
  /\ pc[s] = "discarding"
  /\ staged[s] = {}
  /\ Ends(s, "failed")
  /\ \/ RemoveDir(s) /\ UNCHANGED harmed
     \/ UNCHANGED host /\ harmed' = [harmed EXCEPT ![s] = TRUE]
  /\ UNCHANGED <<now, n, staged, cleanups>>

\* The process is killed: what it knew is gone, what it had on the host stays.
Killed(s) ==
  /\ pc[s] \in Asking
  /\ Ends(s, "dead")
  /\ n' = [n EXCEPT ![s] = 1]
  /\ staged' = [staged EXCEPT ![s] = {}]
  /\ harmed' = [harmed EXCEPT ![s] = FALSE]
  /\ UNCHANGED <<now, host, cleanups>>

------------------------------------------------------------------------------
(* Cleanups: clean, remove_batch, FsOps::remove                            *)

Move(c, place) ==
  /\ cpc' = [cpc EXCEPT ![c] = place]
  /\ UNCHANGED <<dry, cutoff>>

Begin(c) ==
  /\ cpc[c] = "idle"
  /\ cpc' = [cpc EXCEPT ![c] = "dates"]
  /\ \E report \in BOOLEAN : dry' = [dry EXCEPT ![c] = report]
  /\ cutoff' = [cutoff EXCEPT ![c] = now + Ahead]
  /\ UNCHANGED <<now, host, sends, listed, todo, emptied, batch, names>>

\* The run is over; what it counted is in dry and emptied.
Retires(c) ==
  /\ cpc' = [cpc EXCEPT ![c] = "ended"]
  /\ cutoff' = [cutoff EXCEPT ![c] = 0]
  /\ listed' = [listed EXCEPT ![c] = {}]
  /\ todo' = [todo EXCEPT ![c] = {}]
  /\ batch' = [batch EXCEPT ![c] = None]
  /\ names' = [names EXCEPT ![c] = {}]

\* list_dir of the inbox
ListInbox(c) ==
  /\ cpc[c] = "dates"
  /\ date
  /\ Move(c, "batches")
  /\ UNCHANGED <<now, host, sends, listed, todo, emptied, batch, names>>

\* Mutant: one tick too early
Expired_OneEarly(c, modified) ==
  c \in Purges \/ (modified <= cutoff[c] /\ cutoff[c] - modified >= Retention - 1)

\* The age is taken from the listing; a time in the future is never old.
Expired(c, modified) ==
  c \in Purges \/ (modified <= cutoff[c] /\ cutoff[c] - modified >= Retention)

\* list_dir of the date directory: the batches and their times, once.
ListDate(c) ==
  /\ cpc[c] = "batches"
  /\ date
  /\ LET found == {s \in Senders : dir[s]}
     IN  /\ listed' = [listed EXCEPT ![c] = found]
         /\ todo' = [todo EXCEPT ![c] = {s \in found : Expired(c, touched[s])}]
  /\ cpc' = [cpc EXCEPT ![c] = "choosing"]
  /\ cutoff' = [cutoff EXCEPT ![c] = 0]      \* not looked at again
  /\ UNCHANGED <<now, host, sends, dry, emptied, batch, names>>

\* A directory that has gone, or cannot be listed
NotListed(c) ==
  /\ cpc[c] \in {"dates", "batches"}
  /\ Retires(c)
  /\ UNCHANGED <<now, host, sends, dry, emptied>>

ListBatch(c, s) ==
  /\ cpc[c] = "choosing"
  /\ s \in todo[c]
  /\ dir[s]
  /\ Move(c, "removing")
  /\ todo' = [todo EXCEPT ![c] = @ \ {s}]
  /\ batch' = [batch EXCEPT ![c] = s]
  /\ names' = [names EXCEPT ![c] = Present(s)]
  /\ UNCHANGED <<now, host, sends, listed, emptied>>

\* A batch that has gone, or cannot be listed, is skipped.
SkipBatch(c, s) ==
  /\ cpc[c] = "choosing"
  /\ s \in todo[c]
  /\ todo' = [todo EXCEPT ![c] = @ \ {s}]
  /\ UNCHANGED <<now, host, sends, cpc, dry, cutoff, listed, emptied, batch, names>>

RemoveName(c, name) ==
  /\ cpc[c] = "removing"
  /\ name \in names[c]
  /\ names' = [names EXCEPT ![c] = @ \ {name}]
  /\ IF dry[c] THEN UNCHANGED host ELSE Unlink(batch[c], name)
  /\ UNCHANGED <<now, sends, cpc, dry, cutoff, listed, todo, emptied, batch>>

\* The loop over the batches goes on.
NextBatch(c) ==
  /\ Move(c, "choosing")
  /\ batch' = [batch EXCEPT ![c] = None]
  /\ names' = [names EXCEPT ![c] = {}]

\* A removal failed, the directory's own because something is still in it
\* included: the batch is skipped, as far as it has got.
LeaveBatch(c) ==
  /\ cpc[c] = "removing"
  /\ ~dry[c]
  /\ NextBatch(c)
  /\ UNCHANGED <<now, host, sends, listed, todo, emptied>>

\* Mutant: a refused rmdir is taken for an absent directory
Gone_Assumed(s) == UNCHANGED host

\* The directory itself goes, or has gone already.
Gone(s) == Present(s) = {} /\ RemoveDir(s)

RemoveBatch(c) ==
  /\ cpc[c] = "removing"
  /\ names[c] = {}
  /\ IF dry[c] THEN UNCHANGED host ELSE Gone(batch[c])
  /\ emptied' = [emptied EXCEPT ![c] = @ \cup {batch[c]}]
  /\ NextBatch(c)
  /\ UNCHANGED <<now, sends, listed, todo>>

\* After the last batch: the date directory goes if this run emptied it.  The
\* host refuses that while anything is in it, and nobody asks.
Finish(c) ==
  /\ cpc[c] = "choosing"
  /\ todo[c] = {}
  /\ date' = \/ date /\ \/ dry[c] \/ listed[c] = {} \/ emptied[c] # listed[c]
                        \/ \E s \in Senders : dir[s]
  /\ Retires(c)
  /\ UNCHANGED <<now, dir, touched, content, sends, dry, emptied>>

\* The last rmdir was refused or got lost.
FinishAnyway(c) ==
  /\ cpc[c] = "choosing"
  /\ todo[c] = {}
  /\ Retires(c)
  /\ UNCHANGED <<now, host, sends, dry, emptied>>

\* The cleaning process is killed; it reports nothing.
CleanerStops(c) ==
  /\ cpc[c] \notin {"idle", "ended"}
  /\ Retires(c)
  /\ dry' = [dry EXCEPT ![c] = FALSE]
  /\ emptied' = [emptied EXCEPT ![c] = {}]
  /\ UNCHANGED <<now, host, sends>>

------------------------------------------------------------------------------
\* Mutant: no operation has a deadline
InTime_Always(s) == TRUE

\* Every wait for an answer ends with the operation's deadline.
InTime(s) == pc[s] \in Asking => now - since[s] < Deadline

Tick ==
  /\ now < Horizon
  /\ \A s \in Senders : InTime(s)
  /\ now' = now + 1
  /\ UNCHANGED <<host, sends, cleanups>>

Sending(s) ==
  \/ StartSend(s) \/ OverLimit(s)
  \/ CreateBatch(s) \/ CreateDate(s) \/ CreateAgain(s)
  \/ Open(s) \/ Write(s) \/ Rename(s) \/ Clear(s)
  \/ Refused(s) \/ Lost(s) \/ Killed(s)
  \/ \E i \in Index : DiscardFile(s, i)
  \/ DiscardBatch(s)

Cleaning(c) ==
  \/ Begin(c) \/ ListInbox(c) \/ ListDate(c) \/ NotListed(c)
  \/ \E s \in Senders : ListBatch(c, s) \/ SkipBatch(c, s)
  \/ \E name \in Names : RemoveName(c, name)
  \/ LeaveBatch(c) \/ RemoveBatch(c)
  \/ Finish(c) \/ FinishAnyway(c) \/ CleanerStops(c)

Next ==
  \/ \E s \in Senders : Sending(s)
  \/ \E c \in Cleaners : Cleaning(c)
  \/ Tick

Spec == Init /\ [][Next]_vars

------------------------------------------------------------------------------
(* Properties *)

\* All the files of s that have been staged are in place, complete.
Intact(s) == \A i \in staged[s] : content[s][<<"file", i>>] = "whole"

\* upload_atomic: a final name never stands for half a file, however a
\* transfer, a session or the sending process ends.
NeverHalf ==
  \A s \in Senders, i \in Index : content[s][<<"file", i>>] # "short"

\* No purge has begun, and age is counted in more than an operation can take
\* plus the difference of the clocks.
OnlyByAge ==
  /\ \A c \in Purges : cpc[c] = "idle"
  /\ Deadline + Ahead < Retention

\* The cleanup by age never reaches into a batch that is still being sent: its
\* directory and what has been staged in it are there.
ActiveUndisturbed ==
  OnlyByAge =>
    \A s \in Senders : pc[s] \in Uploading => dir[s] /\ Intact(s)

\* Paths that have been handed out lead to complete files for the whole of the
\* retention, less what the clocks differ.
KeptForRetention ==
  OnlyByAge =>
    \A s \in Senders :
      pc[s] = "sent" /\ now + Ahead < since[s] + Retention =>
        dir[s] /\ staged[s] = Index /\ Intact(s)

\* A send that fails on a session that answers, on a host that sets modes and
\* removes what it is asked to, leaves nothing of its batch, with any cleanup in
\* between.
FailedLeavesNothing ==
  \A s \in Senders :
    pc[s] = "failed" /\ ~harmed[s] => ~dir[s] /\ Present(s) = {}

\* What a cleanup reports as removed is gone, whoever else was at work there.
ReportedGone ==
  \A c \in Cleaners, s \in Senders :
    ~dry[c] /\ s \in emptied[c] => ~dir[s] /\ Present(s) = {}

\* The send implements the hand-over of a batch.
Handed(s) == IF pc[s] # "sent" THEN "unheard"
             ELSE IF staged[s] = Index /\ Intact(s) THEN "whole" ELSE "expired"

Handover == INSTANCE BatchHandover WITH batch <- [s \in Senders |-> Handed(s)]

ImplementsHandover == Handover!Spec

------------------------------------------------------------------------------
(* What is said of a send and does not hold *)

\* upload.rs:37-38: "the specification forbids handing out a path to a file
\* that is not there".  So the step that makes the text finds every file there.
HandedOutInPlace ==
  [][\A s \in Senders : pc[s] # "sent" /\ pc'[s] = "sent" => Intact(s)']_vars

\* upload.rs:36: when the transfer fails "the destination does not exist
\* afterwards".
AbsentAfterFailure ==
  \A s \in Senders :
    pc[s] \in Failing \cup {"failed"} => content[s][<<"file", n[s]>>] = "absent"

==============================================================================
