-------------------------------- MODULE Paste --------------------------------
(***************************************************************************)
(* A key press, `clift paste` and `clift send` (a `paste` in Fast Mode) on  *)
(* the user's own machine: the clipboard is read once, an image goes to a   *)
(* scratch file, what it holds decides the direction, and the result is     *)
(* typed, put on the clipboard or printed (cmd/hotkey.rs, cmd/paste.rs,     *)
(* cmd/send.rs, usecase/source.rs, runtime.rs, clift-clipboard,             *)
(* clift-inject).                                                           *)
(* How an upload, a publication and a redemption work is in the other       *)
(* modules: here each succeeds or fails.                                    *)
(***************************************************************************)
EXTENDS Naturals

CONSTANTS Processes,   \* the helper and the commands
          Slots,       \* the names a scratch file may get
          Images, Files,
          Ours,        \* objects this machine publishes
          Theirs,      \* objects `clift copy` publishes on a server
          MaxCopies, MaxRuns,   \* copies the user makes, presses and commands
          None

ASSUME PasteAssumption ==
  /\ MaxCopies \in Nat /\ MaxRuns \in Nat /\ Ours \cap Theirs = {}
  /\ None \notin Processes \cup Slots \cup Images \cup Files \cup Ours \cup Theirs

VARIABLES
  platform,   \* "windows" or "macos"
  clipboard,  \* its text, file list and picture
  session,    \* the process that has the clipboard open (Windows)
  permitted,  \* keystrokes may be sent
  scratch,    \* slot -> the picture in the file and who wrote it
  live,       \* process -> the slots its signal handler knows of (live_files)
  caught,     \* process -> the list the handler of a signal has read, and
              \* whether the scratch file was yet to be in it; or None
  left,       \* files of processes that could not remove them
  at, job,    \* process -> where it is, and with what
  objects,    \* object -> "unused", "open", "spent" or "withdrawn"
  handed,     \* objects whose delivery succeeded, as far as the process knows
  typed,      \* objects whose whole instruction reached a window
  astray,     \* published objects that nobody was handed and nobody takes back
  copies, runs

desk == <<platform, clipboard, session, permitted, copies>>
files == <<scratch, live, caught, left>>
fates == <<handed, typed, astray>>
vars == <<desk, files, at, job, objects, fates, runs>>

\* The copied words, a path, a bare token or the instruction around one.
Words == <<"words">>
Path == <<"path">>
Token(o) == <<"token", o>>
Instruction(o) == <<"instruction", o>>

\* A copied file brings its icon along as a picture.
Icon == "icon"
Pictures == Images \cup {Icon, None}

ASSUME NoneIsApart ==
  /\ \A o \in Ours \cup Theirs : None \notin {Words, Path, Token(o), Instruction(o)}
  /\ None \notin [by : Processes, image : Pictures]

Holds(text, list, picture) == [text |-> text, files |-> list, image |-> picture]
Empty == Holds(None, None, None)
\* `chosen` is what the clipboard called for when it was looked at.
NoJob == [delivery |-> None, mode |-> None, snapshot |-> Empty, slot |-> None,
          object |-> None, content |-> None, chosen |-> None]

Init ==
  /\ platform \in {"windows", "macos"}
  /\ permitted = TRUE
  /\ clipboard = Empty /\ session = None
  /\ scratch = [s \in Slots |-> None]
  /\ live = [p \in Processes |-> {}] /\ caught = [p \in Processes |-> None]
  /\ left = {}
  /\ at = [p \in Processes |-> "idle"] /\ job = [p \in Processes |-> NoJob]
  /\ objects = [o \in Ours \cup Theirs |-> IF o \in Ours THEN "unused" ELSE "open"]
  /\ handed = {} /\ typed = {} /\ astray = {} /\ copies = 0 /\ runs = 0

Goes(p, place) == at' = [at EXCEPT ![p] = place]
Job(p, field, value) == job' = [job EXCEPT ![p][field] = value]
Frees(p) == session' = IF session = p THEN None ELSE session

\* The end, in success or failure: whoever has a scratch file drops it.
Finishes(p) ==
  /\ Goes(p, IF job[p].slot = None THEN "idle" ELSE "dropping")
  /\ job' = [job EXCEPT ![p] = [NoJob EXCEPT !.slot = job[p].slot]]

-----------------------------------------------------------------------------
(* The user.                                                                *)

Copyable == {Holds(Words, None, None)}
            \cup {Holds(Token(o), None, None) : o \in Theirs}
            \cup {Holds(None, None, i) : i \in Images}
            \cup {Holds(Words, f, Icon) : f \in Files}

Copy(held) ==
  /\ session = None /\ copies < MaxCopies
  /\ clipboard' = held /\ copies' = copies + 1
  /\ UNCHANGED <<platform, session, permitted, files, at, job, objects, fates, runs>>

\* Only macOS gates keystrokes behind a permission.
Permission ==
  /\ platform = "macos" /\ copies < MaxCopies
  /\ permitted' = ~permitted /\ copies' = copies + 1
  /\ UNCHANGED <<platform, clipboard, session, files, at, job, objects, fates, runs>>

-----------------------------------------------------------------------------
(* What the clipboard calls for (usecase/source.rs, hotkey.rs).             *)

\* A file list beats a picture; text and nothing are nothing to send.
Attachment_Image(held) == IF held.image # None THEN held.image ELSE held.files
Attachment(held) == IF held.files # None THEN held.files ELSE held.image

\* Only a bare token, and only with nothing to send beside it.
TokenIn_Any(held) ==
  {o \in Ours \cup Theirs : held.text \in {Token(o), Instruction(o)} /\ Attachment(held) = None}
TokenIn(held) == {o \in Ours \cup Theirs : held.text = Token(o) /\ Attachment(held) = None}

-----------------------------------------------------------------------------
(* Reading the clipboard once, into a snapshot.                             *)

\* A press types where it may and otherwise loads the clipboard; a command
\* does what its flags say, which is chosen when it delivers.
Begin(p) ==
  /\ at[p] = "idle" /\ caught[p] = None /\ runs < MaxRuns
  /\ session = None
  /\ runs' = runs + 1
  /\ \E delivery \in {None, IF permitted THEN "inject" ELSE "copy"} :
       job' = [job EXCEPT ![p] = [NoJob EXCEPT !.delivery = delivery,
                                               !.chosen = Attachment(clipboard)]]
  /\ session' = IF platform = "windows" THEN p ELSE None
  /\ Goes(p, "text")
  /\ UNCHANGED <<platform, clipboard, permitted, files, objects, fates, copies>>

\* Windows keeps the clipboard open until the snapshot is complete.
Keeps_Not(p) == FALSE
Keeps(p) == session = p

ReadText(p) ==
  /\ at[p] = "text"
  /\ job' = [job EXCEPT ![p].snapshot.text = clipboard.text]
  /\ session' = IF Keeps(p) THEN p ELSE IF session = p THEN None ELSE session
  /\ Goes(p, "files")
  /\ UNCHANGED <<platform, clipboard, permitted, files, objects, fates, copies, runs>>

ReadFiles(p) ==
  /\ at[p] = "files"
  /\ job' = [job EXCEPT ![p].snapshot.files = clipboard.files]
  /\ Goes(p, IF clipboard.files = None THEN "image" ELSE "decide")
  /\ IF clipboard.files = None THEN UNCHANGED session ELSE Frees(p)
  /\ UNCHANGED <<platform, clipboard, permitted, files, objects, fates, copies, runs>>

ReadImage(p) ==
  /\ at[p] = "image"
  /\ job' = [job EXCEPT ![p].snapshot.image = clipboard.image]
  /\ IF clipboard.image = None
       THEN Goes(p, "decide") /\ Frees(p)
       ELSE Goes(p, "create") /\ UNCHANGED session
  /\ UNCHANGED <<platform, clipboard, permitted, files, objects, fates, copies, runs>>

\* A picture that is advertised and empty, or cannot be converted.
NotConverted(p) ==
  /\ at[p] = "image" /\ clipboard.image # None
  /\ Finishes(p) /\ Frees(p)
  /\ UNCHANGED <<platform, clipboard, permitted, files, objects, fates, copies, runs>>

-----------------------------------------------------------------------------
(* The scratch file of a picture (runtime.rs).                              *)

\* create_new on one name after the other: never a name that is in use.
Create(p) ==
  /\ at[p] = "create"
  /\ IF \E s \in Slots : scratch[s] = None
       THEN \E s \in Slots :
              /\ scratch[s] = None
              /\ scratch' = [scratch EXCEPT ![s] = [by |-> p, image |-> job[p].snapshot.image]]
              /\ Job(p, "slot", s)
              /\ Goes(p, "write") /\ UNCHANGED session
       ELSE Finishes(p) /\ Frees(p) /\ UNCHANGED scratch
  /\ UNCHANGED <<platform, clipboard, permitted, live, caught, left, objects, fates, copies, runs>>

Remembered_Not(p) == live[p]
Remembered(p) == live[p] \cup {job[p].slot}

\* Written, and only then known to the signal handler. A write that fails
\* leaves the file: nothing owns it yet.
Write(p) ==
  /\ at[p] = "write"
  /\ \/ /\ live' = [live EXCEPT ![p] = Remembered(p)]
        /\ Goes(p, "decide") /\ UNCHANGED <<job, left>>
     \/ /\ left' = left \cup {job[p].slot}
        /\ Goes(p, "idle") /\ job' = [job EXCEPT ![p] = NoJob] /\ UNCHANGED live
  /\ Frees(p)
  /\ UNCHANGED <<platform, clipboard, permitted, scratch, caught, objects, fates, copies, runs>>

\* Drop: the file, and then the entry in the list. A removal that fails is
\* ignored.
Removed_Kept(p) == scratch
Removed(p) == [s \in Slots |-> IF s = job[p].slot THEN None ELSE scratch[s]]

Drop(p) ==
  /\ at[p] = "dropping"
  /\ \/ scratch' = Removed(p) /\ left' = left \ {job[p].slot}
     \/ /\ scratch[job[p].slot] # None
        /\ left' = left \cup {job[p].slot} /\ UNCHANGED scratch
  /\ Goes(p, "forgetting")
  /\ UNCHANGED <<desk, live, caught, job, objects, fates, runs>>

Forget(p) ==
  /\ at[p] = "forgetting"
  /\ live' = [live EXCEPT ![p] = @ \ {job[p].slot}]
  /\ Goes(p, "idle")
  /\ job' = [job EXCEPT ![p] = NoJob]
  /\ UNCHANGED <<desk, scratch, caught, left, objects, fates, runs>>

\* SIGINT, SIGTERM and SIGHUP are handled on their own thread, on Unix: the
\* list is read, then every file in it goes, then the process does.
Catch(p) ==
  /\ platform = "macos" /\ at[p] # "idle" /\ caught[p] = None
  /\ caught' = [caught EXCEPT ![p] =
       [list |-> live[p], early |-> at[p] \in {"text", "files", "image", "create", "write"}]]
  /\ UNCHANGED <<desk, scratch, live, left, at, job, objects, fates, runs>>

Ends(p) ==
  /\ Goes(p, "idle")
  /\ astray' = astray \cup (Ours \cap {job[p].object})
  /\ job' = [job EXCEPT ![p] = NoJob]
  /\ caught' = [caught EXCEPT ![p] = None]
  /\ Frees(p)

Dies(p) ==
  /\ caught[p] # None
  /\ \E stuck \in SUBSET {s \in caught[p].list : scratch[s] # None} :
       /\ scratch' = [s \in Slots |-> IF s \in caught[p].list \ stuck THEN None ELSE scratch[s]]
       /\ left' = (left \ caught[p].list) \cup stuck
                  \cup (IF caught[p].early THEN Slots \cap {job[p].slot} ELSE {})
  /\ live' = [live EXCEPT ![p] = {}]
  /\ Ends(p)
  /\ UNCHANGED <<platform, clipboard, permitted, objects, handed, typed, copies, runs>>

\* Nothing runs on SIGKILL, nor on Windows.
Killed(p) ==
  /\ at[p] # "idle"
  /\ live' = [live EXCEPT ![p] = {}]
  /\ left' = left \cup (Slots \cap {job[p].slot})
  /\ Ends(p)
  /\ UNCHANGED <<platform, clipboard, permitted, scratch, objects, handed, typed, copies, runs>>

-----------------------------------------------------------------------------
(* Outwards.                                                                *)

Decide(p) ==
  /\ at[p] = "decide"
  /\ IF job[p].delivery # None /\ TokenIn(job[p].snapshot) # {}
       THEN /\ \E o \in TokenIn(job[p].snapshot) : Job(p, "object", o)
            /\ Goes(p, "redeem")
     ELSE IF Attachment(job[p].snapshot) = None
       THEN Finishes(p)
     ELSE \/ /\ \E mode \in {"universal", "fast"} : Job(p, "mode", mode)
             /\ Goes(p, "read")
          \/ Finishes(p)   \* a folder was copied, or the configuration cannot be read
  /\ UNCHANGED <<desk, files, objects, fates, runs>>

\* The bytes are read from the scratch file or the copied file itself.
Found(p) ==
  IF job[p].slot = None THEN job[p].snapshot.files
  ELSE IF scratch[job[p].slot] = None THEN None ELSE scratch[job[p].slot].image

ReadBytes(p) ==
  /\ at[p] = "read"
  /\ IF Found(p) = None THEN Finishes(p)
     ELSE Job(p, "content", Found(p)) /\ Goes(p, "send")
  /\ UNCHANGED <<desk, files, objects, fates, runs>>

\* The answer to a publication may be lost, and nobody learns of the object then.
Send(p) ==
  /\ at[p] = "send"
  /\ \/ Finishes(p) /\ UNCHANGED <<objects, astray>>
     \/ job[p].mode = "fast" /\ Goes(p, "deliver") /\ UNCHANGED <<objects, job, astray>>
     \/ /\ job[p].mode = "universal"
        /\ \E o \in Ours :
             /\ objects[o] = "unused"
             /\ objects' = [objects EXCEPT ![o] = "open"]
             /\ \/ Job(p, "object", o) /\ Goes(p, "deliver") /\ UNCHANGED astray
                \/ Finishes(p) /\ astray' = astray \cup {o}
  /\ UNCHANGED <<desk, files, handed, typed, runs>>

\* The text that reaches the user: paths, or the instruction with the token.
Text(p) == IF job[p].mode = "fast" THEN Path ELSE Instruction(job[p].object)

\* A delivery that fails takes back what it was to deliver.
Fails_Silent(p) == Finishes(p)
Fails(p) ==
  IF job[p].mode = "fast" THEN Finishes(p) ELSE Goes(p, "withdraw") /\ UNCHANGED job
Published(p) == Ours \cap {job[p].object}
Delivered(p) == Finishes(p) /\ handed' = handed \cup Published(p) /\ UNCHANGED astray
NotDelivered(p) == Fails(p) /\ UNCHANGED <<handed, astray>>

By(p, delivery) == at[p] = "deliver" /\ job[p].delivery \in {None, delivery}

\* What cannot be printed is not taken back: printing comes after the delivery.
PrintOut(p) ==
  /\ at[p] = "deliver" /\ job[p].delivery = None
  /\ \/ Delivered(p)
     \/ Finishes(p) /\ astray' = astray \cup Published(p) /\ UNCHANGED handed
  /\ UNCHANGED <<desk, files, objects, typed, runs>>

CopyOut(p) ==
  /\ By(p, "copy") /\ session = None
  /\ Delivered(p) /\ clipboard' = Holds(Text(p), None, None)
  /\ UNCHANGED <<platform, session, permitted, files, objects, typed, copies, runs>>

\* It cannot be opened, or it was emptied and then refuses the text.
NotCopied(p) ==
  /\ By(p, "copy") /\ NotDelivered(p)
  /\ clipboard' \in {clipboard} \cup (IF session = None THEN {Empty} ELSE {})
  /\ UNCHANGED <<platform, session, permitted, files, objects, typed, copies, runs>>

Inject(p) ==
  /\ By(p, "inject") /\ permitted
  /\ Delivered(p)
  /\ typed' = typed \cup Published(p)
  /\ UNCHANGED <<desk, files, objects, runs>>

\* The keys are still held after two seconds, the permission is gone, or the
\* system refuses: at the first event, or only at the last, when the whole line is
\* in the window.
NotTyped(p) ==
  /\ By(p, "inject") /\ NotDelivered(p)
  /\ typed' \in {typed, typed \cup Published(p)}
  /\ UNCHANGED <<desk, files, objects, runs>>

Withdraw(p) ==
  /\ at[p] = "withdraw"
  /\ \/ objects' = [objects EXCEPT ![job[p].object] = "withdrawn"] /\ UNCHANGED astray
     \/ astray' = astray \cup Published(p) /\ UNCHANGED objects
  /\ Finishes(p)
  /\ UNCHANGED <<desk, files, handed, typed, runs>>

-----------------------------------------------------------------------------
(* Back: cmd/fetch.rs, redeem and onto_clipboard.                           *)

Redeem(p) ==
  /\ at[p] = "redeem"
  /\ \/ Finishes(p) /\ UNCHANGED objects
     \/ /\ objects[job[p].object] = "open"
        /\ objects' = [objects EXCEPT ![job[p].object] = "spent"]
        /\ \/ \E form \in {"image", "text", "file"} : Job(p, "content", form) /\ Goes(p, "offer")
           \/ Finishes(p)
  /\ UNCHANGED <<desk, files, fates, runs>>

\* Every form the clipboard takes, each of which it may refuse.
Forms(content) ==
  {Holds(text, list, picture) :
     text \in {None, IF content = "text" THEN Words ELSE Path},
     list \in Files \cup {None},
     picture \in (IF content = "image" THEN Images ELSE {}) \cup {None}}

Offer(p) ==
  /\ at[p] = "offer"
  /\ Finishes(p)
  /\ clipboard' \in {clipboard} \cup (IF session = None THEN Forms(job[p].content) ELSE {})
  /\ UNCHANGED <<platform, session, permitted, files, objects, fates, copies, runs>>

-----------------------------------------------------------------------------
Steps(p) ==
  \/ ReadText(p) \/ ReadFiles(p) \/ ReadImage(p) \/ NotConverted(p)
  \/ Create(p) \/ Write(p) \/ Decide(p) \/ ReadBytes(p) \/ Send(p)
  \/ PrintOut(p) \/ CopyOut(p) \/ NotCopied(p) \/ Inject(p) \/ NotTyped(p)
  \/ Withdraw(p) \/ Redeem(p) \/ Offer(p) \/ Drop(p) \/ Forget(p)

Next ==
  \/ \E held \in Copyable : Copy(held)
  \/ Permission
  \/ \E p \in Processes : Begin(p) \/ Steps(p) \/ Catch(p) \/ Dies(p) \/ Killed(p)

Spec == Init /\ [][Next]_vars

-----------------------------------------------------------------------------
\* A second press does not spend what the first one published: an object of
\* this machine is never redeemed by it (hotkey.rs, "that is a safety rule").
NotSpentByHabit == \A o \in Ours : objects[o] # "spent"

\* What was published is handed to the user or taken back, never both and never
\* neither (universal.rs, "takes back an object whose token never reached
\* anybody"): what was withdrawn was not reported as delivered, nor does the
\* clipboard offer it; what is still there was delivered, or is about to be, or
\* went astray at a step that could do nothing about it.
HandedOrTakenBack ==
  \A o \in Ours :
    /\ objects[o] = "withdrawn" => o \notin handed /\ clipboard.text # Instruction(o)
    /\ objects[o] = "open" => o \in handed \cup astray \/ \E p \in Processes : job[p].object = o

\* Does not hold: a line that is in a window is not taken back. Typing can fail
\* at its last event.
NotTakenBack == \A o \in Ours : objects[o] = "withdrawn" => o \notin typed

\* A scratch file is somebody's, unless its process was killed, could not
\* write or remove it, or was signalled before the file was in the list.
NothingLeft ==
  \A s \in Slots : scratch[s] = None \/ s \in left
                   \/ \E p \in Processes : job[p].slot = s /\ at[p] # "idle"

\* On Windows, what is sent is what the clipboard held when the press looked
\* at it: one clipboard, and never another process's scratch file.
SentAsCopied ==
  \A p \in Processes :
    platform = "windows" /\ job[p].mode # None => job[p].content \in {None, job[p].chosen}

\* A file list beats a picture (source.rs, "sending the icon instead of the
\* files would be absurd").
NeverTheIcon == \A p \in Processes : job[p].content # Icon

\* A process removes only its own scratch files while it holds them.
HeldUntilRead ==
  \A p \in Processes : at[p] \in {"decide", "read"} /\ job[p].slot # None =>
                         scratch[job[p].slot] # None /\ scratch[job[p].slot].by = p

=============================================================================
