----------------------------- MODULE SftpSession -----------------------------
(***************************************************************************)
(* One SFTP session (session.rs) and the atomic uploads made over it       *)
(* (upload_atomic): the requests of an upload are sent ahead of their      *)
(* answers, to a temporary file that is renamed when all of them are in.   *)
(* Between uploads there are operations of one request.                    *)
(*                                                                         *)
(* A request is known by its serial number; what travels is its id, the    *)
(* serial number modulo the size of the id space.  The server may execute  *)
(* requests in any order, or in theirs (`orderly`), may refuse any, and may *)
(* answer in any order.  What was sent before the session broke may still  *)
(* be executed afterwards.                                                 *)
(***************************************************************************)
EXTENDS Integers, Sequences

CONSTANTS
  Window,       \* WRITE_WINDOW
  IdSpace,      \* number of request ids: 2^32
  Expected,     \* chunks the local file had when its size was taken
  MaxChunks,    \* bound: chunks a source that is being written to may yield
  Serials,      \* serial numbers of requests
  Limit,        \* bound: requests of one session
  None

ASSUME SftpSessionAssumption ==
  /\ Window \in Nat \ {0}
  /\ IdSpace \in Nat /\ IdSpace >= Window + 2     \* 64 + 2 and 2^32
  /\ MaxChunks \in Nat /\ Expected \in 0 .. MaxChunks
  /\ Limit \in Nat /\ 0 .. Limit \subseteq Serials /\ Serials \subseteq Nat

VARIABLES
  place,        \* where the client is
  next,         \* next_id, before it wraps
  pending,      \* serials whose answer is awaited, oldest first
  closing,      \* serials of the read-back and the close not answered yet
  sent,         \* chunks read from the source and sent
  finished,     \* the source has ended
  failure,      \* the first refusal or local error of this upload, or None
  attrs,        \* the answer to the read-back
  report,       \* what the latest upload returned
  request,      \* request[s]: sent and not executed, or None
  answer,       \* answer[s]: given and not taken, or None
  early,        \* serials whose answer was set aside
  file,         \* the file of the latest upload, on the server
  orderly       \* the server handles requests in the order they arrive

clientVars == <<place, next, pending, closing, sent, finished, failure, attrs, report>>
wireVars == <<request, answer, early>>
serverVars == <<file, orderly>>
vars == <<clientVars, wireVars, serverVars>>

Chunks == 1 .. MaxChunks

\* "writing" is write_all; "closing" waits for the read-back and the close,
\* "releasing" for the close of an upload that stopped short, "asking" for the
\* answer to an operation that is not part of an upload.
Places == {"idle", "opening", "writing", "closing", "releasing", "renaming", "removing",
           "asking", "ended"}

Requests ==
  ({"write"} \X Chunks) \cup
  ({"open", "mode", "look", "close", "rename", "remove", "ask"} \X {0})

Modes == {"none", "loose", "asked"}

Answers == [ok : BOOLEAN, size : 0 .. MaxChunks, mode : Modes]

ASSUME NoneAssumption == None \notin Requests \cup Answers \cup {"refused", "local"}

Yes == [ok |-> TRUE, size |-> 0, mode |-> "none"]
No == [ok |-> FALSE, size |-> 0, mode |-> "none"]

NoFile == [at |-> "nowhere", open |-> FALSE, written |-> {}, mode |-> "none"]

TypeOK ==
  /\ place \in Places
  /\ next \in Nat
  /\ pending \in Seq(Serials) /\ Len(pending) <= Window
  /\ closing \in Seq(Serials) /\ Len(closing) <= 2
  /\ sent \in 0 .. MaxChunks
  /\ finished \in BOOLEAN
  /\ failure \in {None, "refused", "local"}
  /\ attrs \in Answers
  /\ report \in {"none", "stored", "refused", "local", "wrong", "broken"}
  /\ request \in [Serials -> Requests \cup {None}]
  /\ answer \in [Serials -> Answers \cup {None}]
  /\ early \subseteq Serials
  /\ file \in [at : {"nowhere", "temporary", "destination"}, open : BOOLEAN,
               written : SUBSET Chunks, mode : Modes]
  /\ orderly \in BOOLEAN

Init ==
  /\ place = "idle" /\ next = 0 /\ pending = <<>> /\ closing = <<>>
  /\ sent = 0 /\ finished = FALSE /\ failure = None /\ attrs = No /\ report = "none"
  /\ request = [s \in Serials |-> None]
  /\ answer = [s \in Serials |-> None]
  /\ early = {}
  /\ file = NoFile
  /\ orderly \in BOOLEAN

------------------------------------------------------------------------------
(* Sending and waiting *)

Id(s) == s % IdSpace

Goes(from, to) == place = from /\ place' = to

\* One request leaves.
Send(kind, chunk) ==
  /\ request' = [request EXCEPT ![next] = <<kind, chunk>>]
  /\ next' = next + 1
  /\ UNCHANGED <<answer, early, serverVars>>

Awaited == IF pending # <<>> THEN Head(pending) ELSE Head(closing)

\* Mutant: an answer is taken for the awaited one whatever its id
Matches_Any(s) == answer[s] # None

Matches(s) == answer[s] # None /\ Id(s) = Id(Awaited)

\* The answer the client has is the one it set aside under that id, or else the
\* first to arrive with it.
Take(s) ==
  /\ Matches(s)
  /\ s \notin early => \A t \in early : ~ Matches(t)
  /\ answer' = [answer EXCEPT ![s] = None]
  /\ early' = early \ {s}
  /\ UNCHANGED serverVars

SendsNothing == UNCHANGED <<next, request>>

\* The next request of the same operation leaves once this one is answered.
ThenSends(kind) ==
  /\ request' = [request EXCEPT ![next] = <<kind, 0>>]
  /\ next' = next + 1
  /\ pending' = <<next>>

ThenReturns ==
  /\ pending' = <<>>
  /\ SendsNothing

\* The loop of write_all sends while it may, then the read-back and the close,
\* and only then waits for the oldest answer.
CanSend == failure = None /\ ~finished /\ Len(pending) < Window
MustClose == failure = None /\ finished /\ closing = <<>>
Waits ==
  \/ place \notin {"idle", "writing", "ended"}
  \/ place = "writing" /\ ~CanSend /\ ~MustClose /\ pending # <<>>

\* wait: an answer to another request is kept for later.
SetAside(s) ==
  /\ Waits
  /\ answer[s] # None /\ s \notin early /\ Id(s) # Id(Awaited)
  /\ \A t \in early : ~ Matches(t)
  /\ LET replaced == {t \in early : Id(t) = Id(s)} IN
       /\ early' = (early \ replaced) \cup {s}
       /\ answer' = [t \in Serials |-> IF t \in replaced THEN None ELSE answer[t]]
  /\ UNCHANGED <<clientVars, request, serverVars>>

------------------------------------------------------------------------------
(* An upload *)

\* The bound is what one upload may send.
BeginUpload ==
  /\ Goes("idle", "opening")
  /\ next + MaxChunks + 5 <= Limit
  /\ ThenSends("open")
  /\ closing' = <<>> /\ sent' = 0 /\ finished' = FALSE /\ failure' = None
  /\ attrs' = No /\ report' = "none"
  /\ file' = NoFile
  /\ UNCHANGED <<answer, early, orderly>>

\* The handle is there: the mode is the first request on it.
Opened(s) ==
  /\ Goes("opening", "writing")
  /\ Take(s) /\ answer[s].ok
  /\ ThenSends("mode")
  /\ UNCHANGED <<closing, sent, finished, failure, attrs, report>>

\* upload_atomic: whatever went wrong, the temporary file is removed.
NotOpened(s) ==
  /\ Goes("opening", "removing")
  /\ Take(s) /\ ~answer[s].ok
  /\ ThenSends("remove")
  /\ report' = "refused"
  /\ UNCHANGED <<closing, sent, finished, failure, attrs>>

\* Mutant: the window is not looked at
SendChunk_Unbounded ==
  /\ Goes("writing", "writing") /\ failure = None /\ ~finished
  /\ sent < MaxChunks
  /\ Send("write", sent + 1)
  /\ sent' = sent + 1
  /\ pending' = Append(pending, next)
  /\ finished' \in BOOLEAN
  /\ UNCHANGED <<closing, failure, attrs, report>>

\* fill: a chunk, the last one perhaps.
SendChunk ==
  /\ Goes("writing", "writing") /\ CanSend
  /\ sent < MaxChunks
  /\ Send("write", sent + 1)
  /\ sent' = sent + 1
  /\ pending' = Append(pending, next)
  /\ finished' \in BOOLEAN
  /\ UNCHANGED <<closing, failure, attrs, report>>

\* There is nothing more to read, or reading fails.
SourceEnds ==
  /\ Goes("writing", "writing") /\ CanSend
  /\ \/ finished' = TRUE /\ UNCHANGED failure
     \/ failure' = "local" /\ UNCHANGED finished
  /\ SendsNothing
  /\ UNCHANGED <<pending, closing, sent, attrs, report, answer, early, serverVars>>

\* The read-back and the close follow the last chunk at once.
SendClosing ==
  /\ Goes("writing", "writing") /\ MustClose
  /\ request' = [request EXCEPT ![next] = <<"look", 0>>, ![next + 1] = <<"close", 0>>]
  /\ next' = next + 2
  /\ closing' = <<next, next + 1>>
  /\ UNCHANGED <<pending, sent, finished, failure, attrs, report, answer, early, serverVars>>

\* Mutant: a refusal among the answers owed is passed over
Collect_Deaf(s) ==
  /\ Goes("writing", "writing") /\ Waits
  /\ Take(s)
  /\ pending' = Tail(pending)
  /\ SendsNothing
  /\ UNCHANGED <<closing, sent, finished, failure, attrs, report>>

\* The oldest answer; the first refusal stops the sending, not the collecting.
Collect(s) ==
  /\ Goes("writing", "writing") /\ Waits
  /\ Take(s)
  /\ pending' = Tail(pending)
  /\ failure' = IF failure = None /\ ~answer[s].ok THEN "refused" ELSE failure
  /\ SendsNothing
  /\ UNCHANGED <<closing, sent, finished, attrs, report>>

\* Every write is answered: on to the answers of the read-back and the close.
AllWritten ==
  /\ Goes("writing", "closing")
  /\ pending = <<>> /\ closing # <<>>
  /\ UNCHANGED <<next, pending, closing, sent, finished, failure, attrs, report,
                 wireVars, serverVars>>

\* Mutant: the upload fails without releasing the handle
Release_Forgotten ==
  /\ Goes("writing", "removing")
  /\ pending = <<>> /\ closing = <<>> /\ failure # None
  /\ ThenSends("remove")
  /\ report' = failure
  /\ UNCHANGED <<closing, sent, finished, failure, attrs, answer, early, serverVars>>

\* Writing stopped before the end: the handle is released all the same.
Release ==
  /\ Goes("writing", "releasing")
  /\ pending = <<>> /\ closing = <<>> /\ failure # None
  /\ ThenSends("close")
  /\ UNCHANGED <<closing, sent, finished, failure, attrs, report, answer, early, serverVars>>

Released(s) ==
  /\ Goes("releasing", "removing")
  /\ Take(s)
  /\ ThenSends("remove")
  /\ report' = failure
  /\ UNCHANGED <<closing, sent, finished, failure, attrs>>

LookedBack(s) ==
  /\ Goes("closing", "closing") /\ Len(closing) = 2
  /\ Take(s)
  /\ attrs' = answer[s]
  /\ closing' = Tail(closing)
  /\ SendsNothing
  /\ UNCHANGED <<pending, sent, finished, failure, report>>

\* Mutant: the size of what arrived is not compared
Verdict_Unverified(closed) ==
  IF failure # None THEN failure
  ELSE IF ~attrs.ok \/ ~closed.ok THEN "refused"
  ELSE IF attrs.mode = "asked" THEN "stored"
  ELSE "wrong"

\* What `upload`, and then `verify`, make of the answers.
Verdict(closed) ==
  IF failure # None THEN failure
  ELSE IF ~attrs.ok \/ ~closed.ok THEN "refused"
  ELSE IF attrs.size = Expected /\ attrs.mode = "asked" THEN "stored"
  ELSE "wrong"

Closed(s) ==
  /\ Len(closing) = 1
  /\ Take(s)
  /\ closing' = <<>>
  /\ LET verdict == Verdict(answer[s]) IN
       \/ /\ verdict = "stored"
          /\ Goes("closing", "renaming") /\ ThenSends("rename")
          /\ UNCHANGED report
       \/ /\ verdict # "stored"
          /\ Goes("closing", "removing") /\ ThenSends("remove")
          /\ report' = verdict
  /\ UNCHANGED <<sent, finished, failure, attrs>>

Renamed(s) ==
  /\ Take(s)
  /\ \/ /\ answer[s].ok
        /\ Goes("renaming", "idle") /\ ThenReturns
        /\ report' = "stored"
     \/ /\ ~answer[s].ok
        /\ Goes("renaming", "removing") /\ ThenSends("remove")
        /\ report' = "refused"
  /\ UNCHANGED <<closing, sent, finished, failure, attrs>>

\* Whether the tidying up worked is not asked.
Removed(s) ==
  /\ Goes("removing", "idle")
  /\ Take(s)
  /\ ThenReturns
  /\ UNCHANGED <<closing, sent, finished, failure, attrs, report>>

------------------------------------------------------------------------------
(* Everything else *)

\* realpath, lstat, set_mode, remove, rmdir, rename
Ask ==
  /\ Goes("idle", "asking")
  /\ next < Limit
  /\ ThenSends("ask")
  /\ UNCHANGED <<closing, sent, finished, failure, attrs, report, answer, early, serverVars>>

Answered(s) ==
  /\ Goes("asking", "idle")
  /\ Take(s)
  /\ ThenReturns
  /\ UNCHANGED <<closing, sent, finished, failure, attrs, report>>

\* Mutant: a request that was under way is taken for one that was not done
Ends_Sure ==
  /\ place' = "ended"
  /\ report' = IF place \in {"idle", "removing", "asking"} THEN report ELSE "refused"
  /\ UNCHANGED <<next, pending, closing, sent, finished, failure, attrs, wireVars, serverVars>>

\* Only an upload that has no result yet reports the break.
Ends ==
  /\ place' = "ended"
  /\ report' = IF place \in {"idle", "removing", "asking"} THEN report ELSE "broken"
  /\ UNCHANGED <<next, pending, closing, sent, finished, failure, attrs, wireVars, serverVars>>

\* Mutant: only the answers of write_all are waited for with a limit
TimesOut_Writing ==
  /\ place = "writing" /\ Waits
  /\ \A t \in early : ~ Matches(t)
  /\ Ends

\* next_packet: the deadline of the operation passes.
TimesOut ==
  /\ Waits
  /\ \A t \in early : ~ Matches(t)
  /\ Ends

\* The connection closes, an answer makes no sense, or ssh has gone: is_usable
\* says no and the session is replaced.
Breaks ==
  /\ place # "ended"
  /\ Ends

------------------------------------------------------------------------------
(* The server *)

\* The size a file has is where its last chunk ends.
IsSize(m, written) ==
  /\ m = 0 \/ m \in written
  /\ \A c \in written : c <= m

Replies(s, a) == answer' = [answer EXCEPT ![s] = a]

\* A request that can be granted, by its kind.  Either mode may be refused to a
\* request that sets it, in silence; a close may fail and still close.
Granted(s) ==
  \/ /\ request[s][1] = "open" /\ file = NoFile
     /\ Replies(s, Yes)
     /\ \E m \in {"loose", "asked"} :
          file' = [file EXCEPT !.at = "temporary", !.open = TRUE, !.mode = m]
  \/ /\ request[s][1] = "mode" /\ file.open
     /\ Replies(s, Yes)
     /\ \E m \in {file.mode, "asked"} : file' = [file EXCEPT !.mode = m]
  \/ /\ request[s][1] = "write" /\ file.open
     /\ Replies(s, Yes)
     /\ file' = [file EXCEPT !.written = @ \cup {request[s][2]}]
  \/ /\ request[s][1] = "look" /\ file.open
     /\ \E m \in 0 .. MaxChunks :
          IsSize(m, file.written) /\ Replies(s, [ok |-> TRUE, size |-> m, mode |-> file.mode])
     /\ UNCHANGED file
  \/ /\ request[s][1] = "close" /\ file.open
     /\ \E a \in {Yes, No} : Replies(s, a)
     /\ file' = [file EXCEPT !.open = FALSE]
  \/ /\ request[s][1] = "rename" /\ file.at = "temporary"
     /\ Replies(s, Yes)
     /\ file' = [file EXCEPT !.at = "destination"]
  \/ /\ request[s][1] = "remove" /\ file.at = "temporary"
     /\ Replies(s, Yes)
     /\ file' = [file EXCEPT !.at = "nowhere"]
  \/ /\ request[s][1] = "ask"
     /\ Replies(s, Yes)
     /\ UNCHANGED file

\* Any request may be refused, but the close of an open handle.
Refused(s) ==
  /\ request[s][1] = "close" => ~file.open
  /\ Replies(s, No)
  /\ UNCHANGED file

Execute(s) ==
  /\ request[s] # None
  /\ orderly => \A t \in Serials : request[t] # None => s <= t
  /\ Granted(s) \/ Refused(s)
  /\ request' = [request EXCEPT ![s] = None]
  /\ UNCHANGED <<clientVars, early, orderly>>

\* What had not reached the server when the session ended: of an orderly one, the
\* last requests.
Lost(s) ==
  /\ place = "ended"
  /\ request[s] # None
  /\ orderly => \A t \in Serials : request[t] # None => t <= s
  /\ request' = [request EXCEPT ![s] = None]
  /\ UNCHANGED <<clientVars, answer, early, serverVars>>

------------------------------------------------------------------------------

Uploads ==
  \/ SendChunk \/ SourceEnds \/ SendClosing \/ AllWritten \/ Release
  \/ \E s \in Serials :
       \/ Opened(s) \/ NotOpened(s) \/ Collect(s) \/ Released(s)
       \/ LookedBack(s) \/ Closed(s) \/ Renamed(s) \/ Removed(s)

Client ==
  \/ Uploads
  \/ \E s \in Serials : Answered(s) \/ SetAside(s)
  \/ TimesOut

Next ==
  \/ BeginUpload \/ Ask
  \/ Client
  \/ Breaks
  \/ \E s \in Serials : Execute(s) \/ Lost(s)

\* The client is a thread that waits with a limit; nothing is asked of the
\* server.
Fairness == WF_vars(Client)

Spec == Init /\ [][Next]_vars
FairSpec == Spec /\ Fairness

------------------------------------------------------------------------------
(* Properties *)

\* An answer is taken by the request it answers, in whatever order answers come
\* and although ids are used again (session.rs, `wait`).
RightAnswer ==
  [][\A s \in Serials : answer[s] # None /\ answer'[s] = None => s = Awaited]_vars

\* Between two operations nothing is under way: no request, no answer and no
\* handle is left over, refused uploads included ("so the stream stays in step",
\* session.rs, `upload`).
Settled ==
  place = "idle" =>
    /\ \A s \in Serials : request[s] = None /\ answer[s] = None
    /\ ~file.open

Whole == file.mode = "asked" /\ file.written = 1 .. sent

\* What is at the destination has every chunk that was read, all that were
\* expected, is private, and is closed; on an orderly server it has no more.  A
\* server that reorders requests cannot make it wrong, though the read-back and
\* the close were sent before the writes were answered (session.rs, `write_all`).
StoredWhole ==
  file.at = "destination" =>
    /\ Whole /\ ~file.open
    /\ sent >= Expected
    /\ orderly => sent = Expected

\* No operation waits for ever, whatever the server does (session.rs, `next_packet`).
Returns == place \notin {"idle", "ended"} ~> place \in {"idle", "ended"}

Said ==
  IF place \notin {"idle", "asking", "ended"} THEN "under way"
  ELSE CASE report = "none" -> "nothing"
         [] report = "stored" -> "stored"
         [] report = "broken" -> "unknown"
         [] OTHER -> "not stored"

There ==
  IF file.at # "destination" THEN "absent" ELSE IF Whole THEN "whole" ELSE "partial"

Promise == INSTANCE UploadPromise WITH said <- Said, there <- There

\* The destination appears whole or not at all, is there when the upload says so,
\* and never appears after the upload has said no (upload.rs, `upload_atomic`).
ImplementsUpload == Promise!Spec

==============================================================================
