----------------------------- MODULE HotkeyProofs -----------------------------
(***************************************************************************)
(* Proofs about Paste, for any number of processes, names of scratch       *)
(* files, pictures, files and objects, any number of copies and of runs: a *)
(* press never spends what this machine published, what it published is    *)
(* handed over or taken back, a scratch file is somebody's or excused, and *)
(* on Windows what is sent is what the clipboard held when the run looked. *)
(* And about Helper, for any number of helpers, terminals and commands:    *)
(* a press that was taken is answered, and what is said of the helpers is  *)
(* what runs.                                                              *)
(***************************************************************************)
EXTENDS Paste, Helper, TLAPS

Early == {"text", "files", "image", "create", "write"}
Before == Early \cup {"decide", "read", "send"}
Places == Before \cup {"idle", "deliver", "withdraw", "redeem", "offer", "dropping", "forgetting"}
Fields == {"delivery", "mode", "snapshot", "slot", "object", "content", "chosen"}
Parts == {"text", "files", "image"}

\* What is so of a process, from where it is and with what.
Local(place, j) ==
  /\ place \in Places /\ DOMAIN j = Fields /\ DOMAIN j.snapshot = Parts
  /\ j.slot \in Slots \cup {None}
  /\ place \in {"idle", "text", "files", "image", "create"} => j.slot = None
  /\ place \in Before => j.object = None
  /\ place \in {"read", "send", "deliver"} => j.mode \in {"fast", "universal"}
  /\ place = "deliver" /\ j.mode = "fast" => j.object = None
  /\ place = "withdraw" => j.mode = "universal"
  /\ place = "redeem" => j.object \in Theirs
  /\ place \in {"deliver", "withdraw"} /\ j.mode = "universal" => j.object \in Ours
  /\ \A o \in Ours : j.snapshot.text # Token(o)

Shape ==
  /\ at \in [Processes -> Places] /\ DOMAIN job = Processes
  /\ DOMAIN objects = Ours \cup Theirs
  /\ \A p \in Processes : Local(at[p], job[p])
  /\ \A o \in Ours : clipboard.text # Token(o)

\* Nobody was handed o, nor is its instruction on the clipboard.
Unsaid(o) == o \notin handed /\ clipboard.text # Instruction(o)

\* p has an object of its own, published and not yet handed to the user.
Holding(p) == at[p] \in {"deliver", "withdraw"} /\ job[p].mode = "universal"

\* o was handed over or went astray, or somebody still has it in hand.
Accounted(o) ==
  o \in handed \cup astray \/ \E p \in Processes : Holding(p) /\ job[p].object = o

Kept ==
  /\ \A o \in Ours : /\ objects[o] # "spent"
                     /\ IF objects[o] = "open" THEN Accounted(o) ELSE Unsaid(o)
  /\ \A p \in Processes : Holding(p) => objects[job[p].object] = "open" /\ Unsaid(job[p].object)
  /\ \A p, q \in Processes : Holding(p) /\ Holding(q) /\ job[p].object = job[q].object => p = q

-----------------------------------------------------------------------------
(* One process                                                               *)

LEMMA TextsDiffer ==
  ASSUME NEW o, NEW x
  PROVE  Token(o) # Instruction(x) /\ Token(o) # Words /\ Token(o) # Path
         /\ Instruction(o) # Words /\ Instruction(o) # Path
BY DEF Token, Instruction, Words, Path

LEMMA TokensDiffer ==
  ASSUME NEW o, NEW x
  PROVE  (Token(o) = Token(x) => o = x) /\ (Instruction(o) = Instruction(x) => o = x)
BY DEF Token, Instruction

LEMMA NoJobIs ==
  /\ DOMAIN NoJob = Fields /\ DOMAIN NoJob.snapshot = Parts
  /\ NoJob.slot = None /\ NoJob.object = None /\ NoJob.mode = None /\ NoJob.snapshot.text = None
BY DEF NoJob, Fields, Parts, Empty, Holds

LEMMA NewLocal ==
  ASSUME NEW j, DOMAIN j = Fields, DOMAIN j.snapshot = Parts, j.slot \in Slots \cup {None},
         j.object = None, j.mode = None, j.snapshot.text = None,
         NEW place \in {"idle", "text", "dropping"}, place # "dropping" => j.slot = None
  PROVE  Local(place, j)
BY NoneIsApart DEF Local, Places, Before, Early

\* Only p moves.
Alone(p) ==
  /\ at' = [at EXCEPT ![p] = at'[p]] /\ DOMAIN job' = Processes
  /\ \A q \in Processes : q # p => at'[q] = at[q] /\ job'[q] = job[q]

LEMMA FinishesIs ==
  ASSUME Shape, NEW p \in Processes, Finishes(p)
  PROVE  /\ Alone(p) /\ Local(at'[p], job'[p]) /\ at'[p] \in {"idle", "dropping"}
         /\ job'[p].slot = job[p].slot /\ (at'[p] = "idle" <=> job[p].slot = None)
<1>1. Local(at[p], job[p])
  BY DEF Shape
<1> DEFINE j == [NoJob EXCEPT !.slot = job[p].slot]
<1>2. /\ at' = [at EXCEPT ![p] = IF job[p].slot = None THEN "idle" ELSE "dropping"]
      /\ job' = [job EXCEPT ![p] = j]
  BY DEF Finishes, Goes
<1>3. /\ DOMAIN j = Fields /\ DOMAIN j.snapshot = Parts /\ j.slot = job[p].slot
      /\ j.object = None /\ j.mode = None /\ j.snapshot.text = None
  BY NoJobIs DEF Fields
<1> HIDE DEF j
<1>4. job'[p] = j /\ at'[p] = (IF job[p].slot = None THEN "idle" ELSE "dropping")
  BY <1>2 DEF Shape
<1>5. Local(at'[p], j)
  BY <1>1, <1>3, <1>4, NewLocal DEF Local
<1>6. Alone(p)
  BY <1>2 DEF Alone, Shape
<1> QED
  BY <1>3, <1>4, <1>5, <1>6

\* A step to another place that leaves the job alone.
LEMMA GoesIs ==
  ASSUME Shape, NEW p \in Processes, NEW place, Goes(p, place), UNCHANGED job,
         Local(place, job[p])
  PROVE  Alone(p) /\ Local(at'[p], job'[p]) /\ at'[p] = place
BY DEF Shape, Goes, Alone

\* A step to another place that gives the job another value.
LEMMA BecomesIs ==
  ASSUME Shape, NEW p \in Processes, NEW place, Goes(p, place), NEW j,
         job' = [job EXCEPT ![p] = j], Local(place, j)
  PROVE  Alone(p) /\ Local(at'[p], job'[p]) /\ at'[p] = place /\ job'[p] = j
BY DEF Shape, Goes, Alone

LEMMA AloneKeeps ==
  ASSUME Shape, NEW p \in Processes, Alone(p), Local(at'[p], job'[p]), DOMAIN objects' = DOMAIN objects,
         \A o \in Ours : clipboard'.text # Token(o)
  PROVE  Shape'
<1>1. \A q \in Processes : Local(at[q], job[q])
  BY DEF Shape
<1>2. \A q \in Processes : Local(at'[q], job'[q])
  BY <1>1 DEF Alone
<1>3. at' \in [Processes -> Places]
  BY <1>2 DEF Alone, Shape, Local
<1> QED
  BY <1>2, <1>3 DEF Shape, Alone

-----------------------------------------------------------------------------
(* The steps of one process                                                  *)

\* A step of p with nothing in hand, that is no delivery and no answer of a relay.
Quiet(p) ==
  /\ Alone(p) /\ Local(at'[p], job'[p])
  /\ {at[p], at'[p]} \cap {"deliver", "withdraw"} = {}
  /\ UNCHANGED <<objects, handed, astray, clipboard>>

LEMMA FinishesQuiet ==
  ASSUME Shape, NEW p \in Processes, Finishes(p), UNCHANGED <<objects, handed, astray, clipboard>>,
         at[p] \notin {"deliver", "withdraw"}
  PROVE  Quiet(p)
BY FinishesIs DEF Quiet

LEMMA ReadingQuiet ==
  ASSUME Shape, NEW p \in Processes,
         Begin(p) \/ ReadText(p) \/ ReadFiles(p) \/ ReadImage(p) \/ NotConverted(p)
  PROVE  Quiet(p)
<1>0. Local(at[p], job[p])
  BY DEF Shape
<1>1. CASE Begin(p)
  <2>1. PICK delivery :
          job' = [job EXCEPT ![p] = [NoJob EXCEPT !.delivery = delivery, !.chosen = Attachment(clipboard)]]
    BY <1>1 DEF Begin
  <2> DEFINE j == [NoJob EXCEPT !.delivery = delivery, !.chosen = Attachment(clipboard)]
  <2>2. /\ DOMAIN j = Fields /\ DOMAIN j.snapshot = Parts /\ j.slot = None
        /\ j.object = None /\ j.mode = None /\ j.snapshot.text = None
    BY NoJobIs DEF Fields
  <2>3. job' = [job EXCEPT ![p] = j]
    BY <2>1
  <2> HIDE DEF j
  <2>4. Local("text", j)
    BY <2>2, NewLocal
  <2>5. Goes(p, "text") /\ at[p] = "idle" /\ UNCHANGED <<objects, handed, astray, clipboard>>
    BY <1>1 DEF Begin, fates
  <2>6. Alone(p) /\ Local(at'[p], job'[p]) /\ at'[p] = "text"
    BY <2>3, <2>4, <2>5, BecomesIs
  <2> QED
    BY <2>5, <2>6 DEF Quiet
<1>2. CASE ReadText(p)
  <2> DEFINE j == [job[p] EXCEPT !.snapshot.text = clipboard.text]
  <2>1. job' = [job EXCEPT ![p] = j] /\ Goes(p, "files") /\ at[p] = "text"
        /\ UNCHANGED <<objects, handed, astray, clipboard>>
    BY <1>2 DEF ReadText, fates
  <2>2. /\ DOMAIN j = Fields /\ DOMAIN j.snapshot = Parts /\ j.snapshot.text = clipboard.text
        /\ j.slot = job[p].slot /\ j.object = job[p].object
    BY <1>0 DEF Local, Fields, Parts
  <2> HIDE DEF j
  <2>3. Local("files", j)
    BY <1>0, <2>1, <2>2 DEF Local, Places, Before, Early, Shape
  <2> QED
    BY <2>1, <2>3, BecomesIs DEF Quiet
<1>3. CASE ReadFiles(p)
  <2> DEFINE j == [job[p] EXCEPT !.snapshot.files = clipboard.files]
  <2>1. PICK place \in {"image", "decide"} : Goes(p, place)
    BY <1>3 DEF ReadFiles
  <2>2. job' = [job EXCEPT ![p] = j] /\ at[p] = "files" /\ UNCHANGED <<objects, handed, astray, clipboard>>
    BY <1>3 DEF ReadFiles, fates
  <2>3. /\ DOMAIN j = Fields /\ DOMAIN j.snapshot = Parts /\ j.snapshot.text = job[p].snapshot.text
        /\ j.slot = job[p].slot /\ j.object = job[p].object
    BY <1>0 DEF Local, Fields, Parts
  <2> HIDE DEF j
  <2>4. Local(place, j)
    BY <1>0, <2>2, <2>3 DEF Local, Places, Before, Early
  <2> QED
    BY <2>1, <2>2, <2>4, BecomesIs DEF Quiet
<1>4. CASE ReadImage(p)
  <2> DEFINE j == [job[p] EXCEPT !.snapshot.image = clipboard.image]
  <2>1. PICK place \in {"create", "decide"} : Goes(p, place)
    BY <1>4 DEF ReadImage
  <2>2. job' = [job EXCEPT ![p] = j] /\ at[p] = "image" /\ UNCHANGED <<objects, handed, astray, clipboard>>
    BY <1>4 DEF ReadImage, fates
  <2>3. /\ DOMAIN j = Fields /\ DOMAIN j.snapshot = Parts /\ j.snapshot.text = job[p].snapshot.text
        /\ j.slot = job[p].slot /\ j.object = job[p].object
    BY <1>0 DEF Local, Fields, Parts
  <2> HIDE DEF j
  <2>4. Local(place, j)
    BY <1>0, <2>2, <2>3 DEF Local, Places, Before, Early
  <2> QED
    BY <2>1, <2>2, <2>4, BecomesIs DEF Quiet
<1>5. CASE NotConverted(p)
  BY <1>5, FinishesQuiet DEF NotConverted, fates
<1> QED
  BY <1>1, <1>2, <1>3, <1>4, <1>5

LEMMA ScratchQuiet ==
  ASSUME Shape, NEW p \in Processes,
         Create(p) \/ Write(p) \/ Drop(p) \/ Forget(p)
  PROVE  Quiet(p)
<1>0. Local(at[p], job[p])
  BY DEF Shape
<1>1. CASE Create(p)
  <2>1. at[p] = "create" /\ UNCHANGED <<objects, handed, astray, clipboard>>
    BY <1>1 DEF Create, fates
  <2>2. CASE Finishes(p)
    BY <2>1, <2>2, FinishesQuiet
  <2>3. ASSUME NEW s \in Slots, Job(p, "slot", s), Goes(p, "write") PROVE Quiet(p)
    <3> DEFINE j == [job[p] EXCEPT !.slot = s]
    <3>1. job' = [job EXCEPT ![p] = j]
      BY <2>3 DEF Job
    <3>2. /\ DOMAIN j = Fields /\ j.snapshot = job[p].snapshot
          /\ j.slot = s /\ j.object = job[p].object
      BY <1>0 DEF Local, Fields
    <3> HIDE DEF j
    <3>3. Local("write", j)
      BY <1>0, <2>1, <3>2 DEF Local, Places, Before, Early
    <3> QED
      BY <2>1, <2>3, <3>1, <3>3, BecomesIs DEF Quiet
  <2> QED
    BY <1>1, <2>2, <2>3 DEF Create
<1>2. ASSUME Goes(p, "idle"), job' = [job EXCEPT ![p] = NoJob], at[p] \in {"write", "forgetting"},
             UNCHANGED <<objects, handed, astray, clipboard>>
      PROVE  Quiet(p)
  <2>1. Local("idle", NoJob)
    BY NewLocal, NoJobIs
  <2>2. Alone(p) /\ Local(at'[p], job'[p]) /\ at'[p] = "idle"
    BY <1>2, <2>1, BecomesIs
  <2> QED
    BY <1>2, <2>2 DEF Quiet
<1>3. CASE Write(p)
  <2>1. at[p] = "write" /\ UNCHANGED <<objects, handed, astray, clipboard>>
    BY <1>3 DEF Write, fates
  <2>2. CASE Goes(p, "decide") /\ UNCHANGED job
    <3>1. Local("decide", job[p])
      BY <1>0, <2>1 DEF Local, Places, Before, Early
    <3> QED
      BY <2>1, <2>2, <3>1, GoesIs DEF Quiet
  <2> QED
    BY <1>2, <1>3, <2>1, <2>2 DEF Write
<1>4. CASE Drop(p)
  <2>1. Local("forgetting", job[p])
    BY <1>0, <1>4 DEF Drop, Local, Places, Before, Early
  <2> QED
    BY <1>4, <2>1, GoesIs DEF Drop, Quiet, desk, fates
<1>5. CASE Forget(p)
  BY <1>2, <1>5 DEF Forget, desk, fates
<1> QED
  BY <1>1, <1>3, <1>4, <1>5

\* A step of p that tells the user nothing new and changes no object of ours. What
\* it had in hand it has still, or that goes astray.
Light(p) ==
  /\ Alone(p) /\ Local(at'[p], job'[p])
  /\ Holding(p)' => Holding(p) /\ job'[p].object = job[p].object
  /\ Holding(p) => Holding(p)' \/ job[p].object \in astray'
  /\ handed' = handed /\ astray \subseteq astray' /\ DOMAIN objects' = DOMAIN objects
  /\ \A o \in Ours : /\ objects'[o] = objects[o] /\ clipboard'.text # Token(o)
                     /\ clipboard'.text = Instruction(o) => clipboard.text = Instruction(o)

LEMMA QuietLight ==
  ASSUME Shape, NEW p \in Processes, Quiet(p)
  PROVE  Light(p)
BY DEF Quiet, Light, Holding, Shape

LEMMA FinishesLight ==
  ASSUME Shape, NEW p \in Processes, Finishes(p), UNCHANGED <<objects, handed>>,
         astray' = astray \/ astray' = astray \cup Published(p),
         Holding(p) => astray' = astray \cup Published(p),
         clipboard' = clipboard \/ clipboard'.text \in {Words, Path, None}
  PROVE  Light(p)
<1>1. Alone(p) /\ Local(at'[p], job'[p]) /\ ~Holding(p)'
  BY FinishesIs DEF Holding
<1>2. \A o \in Ours : /\ clipboard'.text # Token(o)
                      /\ clipboard'.text = Instruction(o) => clipboard.text = Instruction(o)
  BY TextsDiffer, NoneIsApart DEF Shape
<1>3. Holding(p) => job[p].object \in astray'
  BY DEF Published, Holding, Shape, Local
<1> QED
  BY <1>1, <1>2, <1>3 DEF Light

\* A process that ends leaves what it had in hand astray.
LEMMA EndsLight ==
  ASSUME Shape, NEW p \in Processes, Dies(p) \/ Killed(p)
  PROVE  Light(p)
<1>1. /\ Goes(p, "idle") /\ job' = [job EXCEPT ![p] = NoJob] /\ UNCHANGED <<objects, handed, clipboard>>
      /\ astray' = astray \cup (Ours \cap {job[p].object})
  BY DEF Dies, Killed, Ends
<1>2. Local("idle", NoJob)
  BY NewLocal, NoJobIs
<1>3. Alone(p) /\ Local(at'[p], job'[p]) /\ ~Holding(p)'
  BY <1>1, <1>2, BecomesIs DEF Holding
<1>4. Holding(p) => job[p].object \in astray'
  BY <1>1 DEF Holding, Shape, Local
<1> QED
  BY <1>1, <1>3, <1>4 DEF Light, Shape

LEMMA LightKeeps ==
  ASSUME Shape, Kept, NEW p \in Processes, Light(p)
  PROVE  Shape' /\ Kept'
<1>1. Shape'
  BY AloneKeeps DEF Light
<1>2. \A o \in Ours : Unsaid(o) => Unsaid(o)'
  BY DEF Light, Unsaid
<1>3. \A q \in Processes : Holding(q)' => Holding(q) /\ job'[q].object = job[q].object
                                          /\ job[q].object \in Ours
  BY DEF Light, Alone, Holding, Shape, Local
<1>4. \A o \in Ours : objects'[o] = objects[o]
  BY DEF Light
<1>5. ASSUME NEW o \in Ours, Accounted(o) PROVE Accounted(o)'
  <2>1. CASE o \in handed \cup astray
    BY <2>1 DEF Light, Accounted
  <2>2. ASSUME NEW q \in Processes, Holding(q), job[q].object = o PROVE Accounted(o)'
    BY <1>3, <2>2 DEF Light, Alone, Accounted, Holding
  <2> QED
    BY <1>5, <2>1, <2>2 DEF Accounted
<1>6. Kept'
  BY <1>2, <1>3, <1>4, <1>5 DEF Kept
<1> QED
  BY <1>1, <1>6

LEMMA OutwardsLight ==
  ASSUME Shape, NEW p \in Processes,
         Decide(p) \/ ReadBytes(p) \/ NotCopied(p) \/ NotTyped(p) \/ Redeem(p) \/ Offer(p)
  PROVE  Light(p)
<1>0. Local(at[p], job[p])
  BY DEF Shape
<1>1. ASSUME NEW place, Goes(p, place), {at[p], place} \cap {"deliver", "withdraw"} = {}, NEW j,
             job' = [job EXCEPT ![p] = j], Local(place, j), UNCHANGED <<objects, handed, astray, clipboard>>
      PROVE  Light(p)
  <2>1. Alone(p) /\ Local(at'[p], job'[p]) /\ at'[p] = place
    BY <1>1, BecomesIs
  <2> QED
    BY <1>1, <2>1, QuietLight DEF Quiet
<1>2. CASE Decide(p)
  <2>1. at[p] = "decide" /\ UNCHANGED <<objects, handed, astray, clipboard>>
    BY <1>2 DEF Decide, desk, fates
  <2>2. CASE Finishes(p)
    BY <2>1, <2>2, FinishesLight DEF Holding
  <2>3. ASSUME NEW o \in TokenIn(job[p].snapshot), Job(p, "object", o), Goes(p, "redeem")
        PROVE  Light(p)
    <3> DEFINE j == [job[p] EXCEPT !.object = o]
    <3>1. o \in Theirs
      BY <1>0 DEF TokenIn, Local
    <3>2. job' = [job EXCEPT ![p] = j]
      BY <2>3 DEF Job
    <3>3. DOMAIN j = Fields /\ j.snapshot = job[p].snapshot /\ j.slot = job[p].slot /\ j.object = o
      BY <1>0 DEF Local, Fields
    <3> HIDE DEF j
    <3>4. Local("redeem", j)
      BY <1>0, <3>1, <3>3 DEF Local, Places, Before, Early
    <3> QED
      BY <1>1, <2>1, <2>3, <3>2, <3>4
  <2>4. ASSUME NEW mode \in {"universal", "fast"}, Job(p, "mode", mode), Goes(p, "read")
        PROVE  Light(p)
    <3> DEFINE j == [job[p] EXCEPT !.mode = mode]
    <3>2. job' = [job EXCEPT ![p] = j]
      BY <2>4 DEF Job
    <3>3. /\ DOMAIN j = Fields /\ j.snapshot = job[p].snapshot /\ j.slot = job[p].slot
          /\ j.object = job[p].object /\ j.mode = mode
      BY <1>0 DEF Local, Fields
    <3> HIDE DEF j
    <3>4. Local("read", j)
      BY <1>0, <2>1, <3>3 DEF Local, Places, Before, Early
    <3> QED
      BY <1>1, <2>1, <2>4, <3>2, <3>4
  <2> QED
    BY <1>2, <2>2, <2>3, <2>4 DEF Decide
<1>3. CASE ReadBytes(p)
  <2>1. at[p] = "read" /\ UNCHANGED <<objects, handed, astray, clipboard>>
    BY <1>3 DEF ReadBytes, desk, fates
  <2>2. CASE Finishes(p)
    BY <2>1, <2>2, FinishesLight DEF Holding
  <2>3. CASE Job(p, "content", Found(p)) /\ Goes(p, "send")
    <3> DEFINE j == [job[p] EXCEPT !.content = Found(p)]
    <3>1. job' = [job EXCEPT ![p] = j]
      BY <2>3 DEF Job
    <3>2. /\ DOMAIN j = Fields /\ j.snapshot = job[p].snapshot /\ j.slot = job[p].slot
          /\ j.object = job[p].object /\ j.mode = job[p].mode
      BY <1>0 DEF Local, Fields
    <3> HIDE DEF j
    <3>3. Local("send", j)
      BY <1>0, <2>1, <3>2 DEF Local, Places, Before, Early
    <3> QED
      BY <1>1, <2>1, <2>3, <3>1, <3>3
  <2> QED
    BY <1>3, <2>2, <2>3 DEF ReadBytes
<1>5. CASE NotCopied(p) \/ NotTyped(p)
  <2>1. at[p] = "deliver" /\ Fails(p) /\ UNCHANGED <<objects, handed, astray>>
    BY <1>5 DEF NotCopied, NotTyped, By, NotDelivered
  <2>2. clipboard' = clipboard \/ clipboard'.text \in {Words, Path, None}
    BY <1>5 DEF NotCopied, NotTyped, Empty, Holds, desk
  <2>3. CASE job[p].mode = "fast" /\ Finishes(p)
    BY <2>1, <2>2, <2>3, FinishesLight DEF Holding
  <2>4. CASE job[p].mode # "fast" /\ Goes(p, "withdraw") /\ UNCHANGED job
    <3>1. job[p].mode = "universal"
      BY <1>0, <2>1, <2>4 DEF Local
    <3>2. Local("withdraw", job[p])
      BY <1>0, <2>1, <3>1 DEF Local, Places, Before, Early
    <3>3. Alone(p) /\ Local(at'[p], job'[p])
      BY <2>4, <3>2, GoesIs
    <3>4. Holding(p) /\ Holding(p)' /\ job'[p].object = job[p].object
      BY <2>1, <2>4, <3>1 DEF Holding, Goes, Shape
    <3>5. \A o \in Ours : /\ clipboard'.text # Token(o)
                          /\ clipboard'.text = Instruction(o) => clipboard.text = Instruction(o)
      BY <2>2, TextsDiffer, NoneIsApart DEF Shape
    <3> QED
      BY <2>1, <3>3, <3>4, <3>5 DEF Light
  <2> QED
    BY <2>1, <2>3, <2>4 DEF Fails
<1>6. CASE Redeem(p)
  <2>1. at[p] = "redeem" /\ UNCHANGED <<handed, astray, clipboard>> /\ job[p].object \in Theirs
    BY <1>0, <1>6 DEF Redeem, desk, fates, Local
  <2>2. DOMAIN objects' = DOMAIN objects /\ \A o \in Ours : objects'[o] = objects[o]
    BY <1>6, <2>1, PasteAssumption DEF Redeem, Shape
  <2>3. Alone(p) /\ Local(at'[p], job'[p]) /\ ~Holding(p)'
    <3>1. CASE Finishes(p)
      BY <3>1, FinishesIs DEF Holding
    <3>2. ASSUME NEW form, Job(p, "content", form), Goes(p, "offer")
          PROVE  Alone(p) /\ Local(at'[p], job'[p]) /\ ~Holding(p)'
      <4> DEFINE j == [job[p] EXCEPT !.content = form]
      <4>1. job' = [job EXCEPT ![p] = j]
        BY <3>2 DEF Job
      <4>2. /\ DOMAIN j = Fields /\ j.snapshot = job[p].snapshot /\ j.slot = job[p].slot
        BY <1>0 DEF Local, Fields
      <4> HIDE DEF j
      <4>3. Local("offer", j)
        BY <1>0, <2>1, <4>2 DEF Local, Places, Before, Early
      <4> QED
        BY ZenonT(30), <3>2, <4>1, <4>3, BecomesIs DEF Holding
    <3> QED
      BY <1>6, <3>1, <3>2 DEF Redeem
  <2> QED
    BY <2>1, <2>2, <2>3 DEF Light, Shape, Holding
<1>7. CASE Offer(p)
  BY <1>7, FinishesLight DEF Offer, Forms, Holds, fates, Holding
<1> QED
  BY <1>2, <1>3, <1>5, <1>6, <1>7

-----------------------------------------------------------------------------
(* The steps that publish, hand over and take back                           *)

\* An object of ours is published: nobody was handed it and nobody has it, and if
\* the answer is lost, nobody will.
LEMMA SendKeeps ==
  ASSUME Shape, Kept, NEW p \in Processes, Send(p)
  PROVE  Shape' /\ Kept'
<1>0. Local(at[p], job[p]) /\ at[p] = "send" /\ UNCHANGED <<handed, clipboard>> /\ ~Holding(p)
  BY DEF Shape, Send, desk, Holding
<1>1. CASE Finishes(p) /\ UNCHANGED <<objects, astray>>
  BY <1>0, <1>1, FinishesLight, LightKeeps
<1>2. CASE job[p].mode = "fast" /\ Goes(p, "deliver") /\ UNCHANGED <<objects, job, astray>>
  <2>1. Local("deliver", job[p])
    BY <1>0, <1>2 DEF Local, Places, Before, Early
  <2>2. Alone(p) /\ Local(at'[p], job'[p]) /\ ~Holding(p)'
    BY <1>2, <2>1, GoesIs DEF Holding
  <2> QED
    BY <1>0, <1>2, <2>2, LightKeeps DEF Light, Shape
<1>3. ASSUME job[p].mode = "universal", NEW o \in Ours, objects[o] = "unused",
             objects' = [objects EXCEPT ![o] = "open"], Job(p, "object", o), Goes(p, "deliver"),
             UNCHANGED astray
      PROVE  Shape' /\ Kept'
  <2> DEFINE j == [job[p] EXCEPT !.object = o]
  <2>1. job' = [job EXCEPT ![p] = j]
    BY <1>3 DEF Job
  <2>2. /\ DOMAIN j = Fields /\ j.snapshot = job[p].snapshot /\ j.slot = job[p].slot
        /\ j.object = o /\ j.mode = "universal"
    BY <1>0, <1>3 DEF Local, Fields
  <2> HIDE DEF j
  <2>3. Local("deliver", j)
    BY <1>0, <2>2 DEF Local, Places, Before, Early
  <2>4. Alone(p) /\ Local(at'[p], job'[p]) /\ job'[p].object = o /\ Holding(p)'
    <3>1. Alone(p) /\ Local(at'[p], job'[p]) /\ job'[p] = j /\ at'[p] = "deliver"
      BY <1>3, <2>1, <2>3, BecomesIs
    <3> QED
      BY <2>2, <3>1 DEF Holding
  <2>5. Shape'
    BY <1>0, <1>3, <2>4, AloneKeeps DEF Shape
  <2>6. objects'[o] = "open" /\ \A x \in Ours : x # o => objects'[x] = objects[x]
    BY <1>3 DEF Shape
  <2>7. \A x \in Ours : Unsaid(x) => Unsaid(x)'
    BY <1>0 DEF Unsaid
  <2>8. Unsaid(o)
    BY <1>3 DEF Kept
  <2>9. \A q \in Processes : q # p /\ Holding(q)' =>
           /\ Holding(q) /\ job'[q].object = job[q].object /\ job[q].object \in Ours
           /\ job[q].object # o
    BY <1>3, <2>4 DEF Alone, Holding, Shape, Local, Kept
  <2>10. Accounted(o)' /\ \A x \in Ours : Accounted(x) => Accounted(x)'
    BY <1>0, <1>3, <2>4 DEF Accounted, Alone, Holding
  <2>11. Kept'
    BY <2>4, <2>6, <2>7, <2>8, <2>9, <2>10 DEF Kept
  <2> QED
    BY <2>5, <2>11
<1>4. ASSUME NEW o \in Ours, objects[o] = "unused", objects' = [objects EXCEPT ![o] = "open"],
             Finishes(p), astray' = astray \cup {o}
      PROVE  Shape' /\ Kept'
  <2>1. Alone(p) /\ Local(at'[p], job'[p]) /\ ~Holding(p)'
    BY <1>4, FinishesIs DEF Holding
  <2>2. Shape'
    BY <1>0, <1>4, <2>1, AloneKeeps DEF Shape
  <2>3. objects'[o] = "open" /\ \A x \in Ours : x # o => objects'[x] = objects[x]
    BY <1>4 DEF Shape
  <2>4. \A x \in Ours : Unsaid(x) => Unsaid(x)'
    BY <1>0 DEF Unsaid
  <2>5. \A q \in Processes : Holding(q)' =>
           /\ Holding(q) /\ job'[q].object = job[q].object /\ job[q].object \in Ours
           /\ job[q].object # o
    BY <1>4, <2>1 DEF Alone, Holding, Shape, Local, Kept
  <2>6. Accounted(o)' /\ \A x \in Ours : Accounted(x) => Accounted(x)'
    BY <1>0, <1>4, <2>1 DEF Accounted, Alone, Holding
  <2>7. Kept'
    BY <2>1, <2>3, <2>4, <2>5, <2>6 DEF Kept
  <2> QED
    BY <2>2, <2>7
<1> QED
  BY <1>1, <1>2, <1>3, <1>4 DEF Send

\* The instruction is typed, printed or put on the clipboard: from then on it is
\* the user's, and the run that held it ends.
LEMMA HandOverKeeps ==
  ASSUME Shape, Kept, NEW p \in Processes, Delivered(p), PrintOut(p) \/ CopyOut(p) \/ Inject(p)
  PROVE  Shape' /\ Kept'
<1>0. /\ Local(at[p], job[p]) /\ at[p] = "deliver" /\ UNCHANGED <<objects, astray>> /\ Finishes(p)
      /\ handed' = handed \cup Published(p)
  BY DEF Shape, PrintOut, CopyOut, Inject, By, Delivered
<1>1. Alone(p) /\ Local(at'[p], job'[p]) /\ ~Holding(p)'
  BY <1>0, FinishesIs DEF Holding
<1>2. CASE job[p].mode = "fast"
  <2>1. handed' = handed
    BY <1>0, <1>2, PasteAssumption DEF Published, Local
  <2>2. clipboard' = clipboard \/ clipboard'.text \in {Words, Path, None}
    BY <1>2 DEF PrintOut, CopyOut, Inject, Text, Holds, desk
  <2> QED
    BY <1>0, <1>2, <2>1, <2>2, FinishesLight, LightKeeps DEF Holding
<1>3. CASE job[p].mode = "universal"
  <2> DEFINE o == job[p].object
  <2>1. o \in Ours /\ Holding(p)
    BY <1>0, <1>3 DEF Local, Holding
  <2>2. objects[o] = "open"
    BY <2>1 DEF Kept
  <2>3. handed' = handed \cup {o}
    BY <1>0, <2>1 DEF Published
  <2>4. clipboard' = clipboard \/ clipboard'.text = Instruction(o)
    BY <1>3 DEF PrintOut, CopyOut, Inject, Text, Holds, desk
  <2> HIDE DEF o
  <2>5. \A x \in Ours : clipboard'.text # Token(x)
    BY <2>4, TextsDiffer DEF Shape
  <2>6. Shape'
    BY <1>0, <1>1, <2>5, AloneKeeps
  <2>7. \A x \in Ours : x # o /\ Unsaid(x) => Unsaid(x)'
    BY <2>3, <2>4, TokensDiffer DEF Unsaid
  <2>8. \A q \in Processes : Holding(q)' =>
           /\ q # p /\ Holding(q) /\ job'[q].object = job[q].object /\ job[q].object \in Ours
    BY <1>1 DEF Alone, Holding, Shape, Local
  <2>9. \A q \in Processes : Holding(q)' => job[q].object # o
    BY <2>1, <2>8 DEF Kept, o
  <2>10. \A x \in Ours : Accounted(x) => Accounted(x)'
    BY <1>0, <1>1, <2>3 DEF Accounted, Alone, Holding, o
  <2>11. Kept'
    BY <1>0, <2>2, <2>7, <2>8, <2>9, <2>10 DEF Kept
  <2> QED
    BY <2>6, <2>11
<1> QED
  BY <1>0, <1>2, <1>3 DEF Local

\* What could not be printed is not taken back.
LEMMA PrintKeeps ==
  ASSUME Shape, Kept, NEW p \in Processes, PrintOut(p)
  PROVE  Shape' /\ Kept'
<1>1. CASE Delivered(p)
  BY <1>1, HandOverKeeps
<1>2. CASE Finishes(p) /\ astray' = astray \cup Published(p) /\ UNCHANGED handed
  BY <1>2, FinishesLight, LightKeeps DEF PrintOut, desk
<1> QED
  BY <1>1, <1>2 DEF PrintOut

\* What is taken back was held, so nobody was handed it; what is not goes astray.
LEMMA WithdrawKeeps ==
  ASSUME Shape, Kept, NEW p \in Processes, Withdraw(p)
  PROVE  Shape' /\ Kept'
<1>0. /\ Local(at[p], job[p]) /\ at[p] = "withdraw" /\ UNCHANGED <<handed, clipboard>>
      /\ Finishes(p)
  BY DEF Shape, Withdraw, desk
<1>1. CASE astray' = astray \cup Published(p) /\ UNCHANGED objects
  BY <1>0, <1>1, FinishesLight, LightKeeps
<1>2. CASE objects' = [objects EXCEPT ![job[p].object] = "withdrawn"] /\ UNCHANGED astray
  <2> DEFINE o == job[p].object
  <2>1. o \in Ours /\ Holding(p)
    BY <1>0 DEF Local, Holding
  <2>2. Unsaid(o)
    BY <2>1 DEF Kept
  <2>3. Alone(p) /\ Local(at'[p], job'[p]) /\ ~Holding(p)'
    BY <1>0, FinishesIs DEF Holding
  <2>4. objects'[o] = "withdrawn" /\ \A x \in Ours : x # o => objects'[x] = objects[x]
    BY <1>2, <2>1 DEF Shape
  <2>5. DOMAIN objects' = DOMAIN objects
    BY <1>2
  <2>6. Shape'
    BY <1>0, <2>3, <2>5, AloneKeeps DEF Shape
  <2>7. \A q \in Processes : Holding(q)' =>
           /\ q # p /\ Holding(q) /\ job'[q].object = job[q].object /\ job[q].object \in Ours
    BY <2>3 DEF Alone, Holding, Shape, Local
  <2>8. \A q \in Processes : Holding(q)' => job[q].object # o
    BY <2>1, <2>7 DEF Kept
  <2>9. \A x \in Ours : Unsaid(x) => Unsaid(x)'
    BY <1>0 DEF Unsaid
  <2>10. \A x \in Ours : x # o /\ Accounted(x) => Accounted(x)'
    BY <1>0, <1>2, <2>3 DEF Accounted, Alone, Holding
  <2> HIDE DEF o
  <2>11. Kept'
    BY <2>2, <2>4, <2>7, <2>8, <2>9, <2>10 DEF Kept
  <2> QED
    BY <2>6, <2>11
<1> QED
  BY <1>1, <1>2 DEF Withdraw

\* The user copies, and never an instruction of this machine.
LEMMA UserKeeps ==
  ASSUME Shape, Kept, (\E held \in Copyable : Copy(held)) \/ Permission
  PROVE  Shape' /\ Kept'
<1>1. UNCHANGED <<at, job, objects, handed, astray>>
  BY DEF Copy, Permission, fates
<1>2. clipboard' = clipboard \/ clipboard'.text \in {Words, None} \cup {Token(o) : o \in Theirs}
  BY DEF Copy, Permission, Copyable, Holds
<1>3. \A o \in Ours : /\ clipboard'.text # Token(o)
                      /\ clipboard'.text = Instruction(o) => clipboard.text = Instruction(o)
  BY <1>2, TextsDiffer, TokensDiffer, NoneIsApart, PasteAssumption DEF Shape
<1>4. Shape'
  BY <1>1, <1>3 DEF Shape
<1>5. Kept'
  <2>1. \A o \in Ours : Unsaid(o) => Unsaid(o)'
    BY <1>1, <1>3 DEF Unsaid
  <2>2. \A p \in Processes : (Holding(p)' <=> Holding(p)) /\ (Holding(p) => job[p].object \in Ours)
    BY <1>1 DEF Holding, Shape, Local
  <2>3. \A o \in Ours : Accounted(o) => Accounted(o)'
    BY <1>1, <2>2 DEF Accounted
  <2> QED
    BY <1>1, <2>1, <2>2, <2>3 DEF Kept
<1> QED
  BY <1>4, <1>5

-----------------------------------------------------------------------------
LEMMA InitKept == Init => Shape /\ Kept
<1> SUFFICES ASSUME Init PROVE Shape /\ Kept
  OBVIOUS
<1>1. Local("idle", NoJob)
  BY NoJobIs, NewLocal
<1>2. clipboard.text = None
  BY DEF Init, Empty, Holds
<1>3. Shape
  BY <1>1, <1>2, NoneIsApart DEF Init, Shape, Places
<1>4. Kept
  BY <1>2, NoneIsApart DEF Init, Kept, Unsaid, Holding
<1> QED
  BY <1>3, <1>4

LEMMA NextKept == Shape /\ Kept /\ [Next]_vars => Shape' /\ Kept'
<1> SUFFICES ASSUME Shape, Kept, [Next]_vars PROVE Shape' /\ Kept'
  OBVIOUS
<1>2. ASSUME UNCHANGED <<at, job, objects, handed, astray, clipboard>> PROVE Shape' /\ Kept'
  BY <1>2 DEF Shape, Kept, Unsaid, Accounted, Holding
<1>1. CASE UNCHANGED vars
  BY <1>1, <1>2 DEF vars, desk, fates
<1>3. ASSUME NEW p \in Processes, Begin(p) \/ Steps(p) \/ Catch(p) \/ Dies(p) \/ Killed(p)
      PROVE  Shape' /\ Kept'
  <2>1. CASE Begin(p) \/ ReadText(p) \/ ReadFiles(p) \/ ReadImage(p) \/ NotConverted(p)
    BY <2>1, ReadingQuiet, QuietLight, LightKeeps
  <2>2. CASE Create(p) \/ Write(p) \/ Drop(p) \/ Forget(p)
    BY <2>2, ScratchQuiet, QuietLight, LightKeeps
  <2>3. CASE Catch(p)
    BY <1>2, <2>3 DEF Catch, desk, fates
  <2>4. CASE Dies(p) \/ Killed(p)
    BY <2>4, EndsLight, LightKeeps
  <2>5. CASE Decide(p) \/ ReadBytes(p) \/ NotCopied(p) \/ NotTyped(p) \/ Redeem(p) \/ Offer(p)
    BY <2>5, OutwardsLight, LightKeeps
  <2>6. CASE CopyOut(p) \/ Inject(p)
    BY <2>6, HandOverKeeps DEF CopyOut, Inject
  <2> QED
    BY <1>3, <2>1, <2>2, <2>3, <2>4, <2>5, <2>6, SendKeeps, PrintKeeps, WithdrawKeeps DEF Steps
<1> QED
  BY <1>1, <1>3, UserKeeps DEF Next

LEMMA Invariance == Spec => [](Shape /\ Kept)
<1> QED
  BY InitKept, NextKept, PTL DEF Spec

\* A press never redeems what this machine has published, whatever the user
\* copies and however the runs overlap (token_in_clipboard, cmd/hotkey.rs).
THEOREM NeverSpentByHabit == Spec => []NotSpentByHabit
<1>1. Kept => NotSpentByHabit
  BY DEF Kept, NotSpentByHabit
<1> QED
  BY <1>1, Invariance, PTL

\* What was published is handed to the user or taken back, never both; and
\* nothing stays published that nobody was handed and nobody has in hand, but for
\* what a step could do nothing about (deliver, cmd/universal.rs).
THEOREM HandedOrTakenBackHolds == Spec => []HandedOrTakenBack
<1>1. Kept => HandedOrTakenBack
  BY DEF Kept, HandedOrTakenBack, Unsaid, Accounted
<1> QED
  BY <1>1, Invariance, PTL

-----------------------------------------------------------------------------
(* Scratch files                                                             *)

\* Where a process owns a scratch file that its signal handler knows of.
Late == Places \ (Early \cup {"idle", "forgetting"})

\* A file has an owner that will remove it, the handler of a signal knows what
\* its process owns, and what it read before that is excused or there still.
Owned(s) ==
  scratch[s] # None =>
    s \in left \/ \E p \in Processes : job[p].slot = s /\ at[p] \notin {"idle", "forgetting"}
Listed(p) == at[p] \in Late /\ job[p].slot # None => job[p].slot \in live[p]
Noted(p) ==
  caught[p] # None =>
    \/ caught[p].early
    \/ at[p] \notin Early
       /\ (job[p].slot = None \/ at[p] = "forgetting" \/ job[p].slot \in caught[p].list)

FilesOK ==
  /\ DOMAIN scratch = Slots /\ DOMAIN live = Processes /\ DOMAIN caught = Processes
  /\ \A s \in Slots : Owned(s)
  /\ \A p \in Processes : Listed(p) /\ Noted(p)

\* A step of p that has nothing to do with the files.
Carries(p) ==
  /\ Alone(p) /\ UNCHANGED files /\ job'[p].slot = job[p].slot
  /\ job[p].slot # None => at[p] \in Late /\ at'[p] \in Late
  /\ at'[p] \in Early => at[p] \in Early \/ caught[p] = None

LEMMA CarriesKeeps ==
  ASSUME Shape, FilesOK, NEW p \in Processes, Carries(p)
  PROVE  FilesOK'
<1>1. UNCHANGED <<scratch, live, caught, left>>
  BY DEF Carries, files
<1>2. \A q \in Processes : q # p => at'[q] = at[q] /\ job'[q] = job[q]
  BY DEF Carries, Alone
<1>3. \A s \in Slots : Owned(s)'
  BY <1>1, <1>2, PasteAssumption DEF FilesOK, Owned, Carries, Late
<1>4. \A q \in Processes : Listed(q)'
  BY <1>1, <1>2 DEF FilesOK, Listed, Carries
<1>5. \A q \in Processes : Noted(q)'
  BY <1>1, <1>2 DEF FilesOK, Noted, Carries, Late
<1> QED
  BY <1>1, <1>3, <1>4, <1>5 DEF FilesOK

LEMMA FinishesCarries ==
  ASSUME Shape, NEW p \in Processes, Finishes(p), UNCHANGED files,
         at[p] \in Late \cup {"text", "files", "image", "create"}
  PROVE  Carries(p)
BY FinishesIs DEF Carries, Late, Shape, Local, Places, Before, Early

\* Every step of p but those of the scratch file.
LEMMA RestCarries ==
  ASSUME Shape, NEW p \in Processes,
         \/ Begin(p) \/ ReadText(p) \/ ReadFiles(p) \/ ReadImage(p) \/ NotConverted(p)
         \/ Decide(p) \/ ReadBytes(p) \/ Send(p) \/ PrintOut(p) \/ CopyOut(p) \/ NotCopied(p)
         \/ Inject(p) \/ NotTyped(p) \/ Withdraw(p) \/ Redeem(p) \/ Offer(p)
  PROVE  Carries(p)
<1>0. Local(at[p], job[p])
  BY DEF Shape
<1>1. ASSUME UNCHANGED files, NEW place, Goes(p, place), NEW j, job' = [job EXCEPT ![p] = j],
             j.slot = job[p].slot, job[p].slot # None => at[p] \in Late /\ place \in Late,
             at[p] \in Early \/ caught[p] = None \/ place \notin Early
      PROVE  Carries(p)
  BY <1>1 DEF Carries, Alone, Goes, Shape
<1>2. \A f \in Fields \ {"slot"} : \A v : [job[p] EXCEPT ![f] = v].slot = job[p].slot
  BY <1>0 DEF Local, Fields
<1>3. CASE Begin(p)
  <2>1. PICK delivery :
          job' = [job EXCEPT ![p] = [NoJob EXCEPT !.delivery = delivery, !.chosen = Attachment(clipboard)]]
    BY <1>3 DEF Begin
  <2>2. [NoJob EXCEPT !.delivery = delivery, !.chosen = Attachment(clipboard)].slot = None
    BY NoJobIs DEF Fields
  <2>3. Goes(p, "text") /\ UNCHANGED files /\ job[p].slot = None /\ caught[p] = None
    BY <1>0, <1>3 DEF Begin, Local
  <2> QED
    BY <1>1, <2>1, <2>2, <2>3
<1>4. CASE ReadText(p)
  <2>1. job' = [job EXCEPT ![p] = [job[p] EXCEPT !.snapshot.text = clipboard.text]]
        /\ Goes(p, "files") /\ UNCHANGED files /\ job[p].slot = None /\ at[p] \in Early
    BY <1>0, <1>4 DEF ReadText, Local, Early
  <2>2. [job[p] EXCEPT !.snapshot.text = clipboard.text].slot = job[p].slot
    BY <1>0 DEF Local, Fields
  <2> QED
    BY <1>1, <2>1, <2>2
<1>5. CASE ReadFiles(p)
  <2>1. job' = [job EXCEPT ![p] = [job[p] EXCEPT !.snapshot.files = clipboard.files]]
        /\ (\E place : Goes(p, place)) /\ UNCHANGED files /\ job[p].slot = None /\ at[p] \in Early
    BY <1>0, <1>5 DEF ReadFiles, Local, Early
  <2>2. [job[p] EXCEPT !.snapshot.files = clipboard.files].slot = job[p].slot
    BY <1>0 DEF Local, Fields
  <2> QED
    BY <1>1, <2>1, <2>2
<1>6. CASE ReadImage(p)
  <2>1. job' = [job EXCEPT ![p] = [job[p] EXCEPT !.snapshot.image = clipboard.image]]
        /\ (\E place : Goes(p, place)) /\ UNCHANGED files /\ job[p].slot = None /\ at[p] \in Early
    BY <1>0, <1>6 DEF ReadImage, Local, Early
  <2>2. [job[p] EXCEPT !.snapshot.image = clipboard.image].slot = job[p].slot
    BY <1>0 DEF Local, Fields
  <2> QED
    BY <1>1, <2>1, <2>2
<1>7. CASE Finishes(p) /\ UNCHANGED files /\ at[p] \in Late \cup {"image"}
  BY <1>7, FinishesCarries
<1>8. CASE NotConverted(p) \/ PrintOut(p) \/ CopyOut(p) \/ Inject(p) \/ Withdraw(p) \/ Offer(p)
  BY <1>7, <1>8 DEF NotConverted, PrintOut, CopyOut, Inject, Withdraw, Offer, Delivered, By,
     Late, Places, Before, Early
<1>9. ASSUME NEW place \in Late, Goes(p, place), UNCHANGED files, at[p] \in Late,
             UNCHANGED job \/ \E f \in Fields \ {"slot"} : \E v : Job(p, f, v)
      PROVE  Carries(p)
  <2>1. CASE UNCHANGED job
    BY <1>9, <2>1 DEF Carries, Alone, Goes, Shape, Late
  <2>2. ASSUME NEW f \in Fields \ {"slot"}, NEW v, Job(p, f, v) PROVE Carries(p)
    <3>1. job' = [job EXCEPT ![p] = [job[p] EXCEPT ![f] = v]]
      BY <2>2 DEF Job
    <3> QED
      BY <1>1, <1>2, <1>9, <3>1 DEF Late
  <2> QED
    BY <1>9, <2>1, <2>2
<1>10. CASE Decide(p) \/ ReadBytes(p) \/ Send(p) \/ NotCopied(p) \/ NotTyped(p) \/ Redeem(p)
  <2>1. at[p] \in Late /\ UNCHANGED files
    BY <1>10 DEF Decide, ReadBytes, Send, NotCopied, NotTyped, Redeem, By, Late, Places, Before, Early
  <2>2. \/ Finishes(p)
        \/ \E place \in {"redeem", "read", "send", "deliver", "withdraw", "offer"} :
             /\ Goes(p, place)
             /\ UNCHANGED job \/ \E f \in {"object", "mode", "content"} : \E v : Job(p, f, v)
    BY <1>10 DEF Decide, ReadBytes, Send, NotCopied, NotTyped, Redeem, NotDelivered, Fails
  <2> QED
    BY <1>7, <1>9, <2>1, <2>2 DEF Late, Places, Before, Early, Fields
<1> QED
  BY <1>3, <1>4, <1>5, <1>6, <1>8, <1>10

\* p alone moves, so the files of the others stay theirs.
LEMMA OthersKeep ==
  ASSUME Shape, FilesOK, NEW p \in Processes, Alone(p),
         \A q \in Processes : q # p => live'[q] = live[q] /\ caught'[q] = caught[q],
         DOMAIN scratch' = Slots, DOMAIN live' = Processes, DOMAIN caught' = Processes,
         Listed(p)', Noted(p)', \A s \in Slots : Owned(s)'
  PROVE  FilesOK'
<1>1. \A q \in Processes : Listed(q)'
  BY DEF FilesOK, Listed, Alone
<1>2. \A q \in Processes : Noted(q)'
  BY DEF FilesOK, Noted, Alone
<1> QED
  BY <1>1, <1>2 DEF FilesOK

\* A file keeps an owner other than p.
LEMMA OtherOwners ==
  ASSUME FilesOK, NEW p \in Processes, Alone(p), NEW s \in Slots, scratch[s] # None,
         s \notin left, job[p].slot # s \/ at[p] \in {"idle", "forgetting"}
  PROVE  \E q \in Processes : job'[q].slot = s /\ at'[q] \notin {"idle", "forgetting"}
<1>1. PICK q \in Processes : job[q].slot = s /\ at[q] \notin {"idle", "forgetting"}
  BY DEF FilesOK, Owned
<1>2. q # p
  BY <1>1
<1> QED
  BY <1>1, <1>2 DEF Alone

LEMMA CreateFiles ==
  ASSUME Shape, FilesOK, NEW p \in Processes, Create(p)
  PROVE  FilesOK'
<1>0. Local(at[p], job[p]) /\ at[p] = "create" /\ job[p].slot = None /\ UNCHANGED <<live, caught, left>>
  BY DEF Shape, Create, Local
<1>1. CASE Finishes(p) /\ UNCHANGED scratch
  BY <1>0, <1>1, FinishesCarries, CarriesKeeps DEF files
<1>2. ASSUME NEW s \in Slots, scratch[s] = None,
             scratch' = [scratch EXCEPT ![s] = [by |-> p, image |-> job[p].snapshot.image]],
             Job(p, "slot", s), Goes(p, "write")
      PROVE  FilesOK'
  <2>1. Alone(p) /\ job'[p].slot = s /\ at'[p] = "write"
    BY <1>0, <1>2 DEF Alone, Job, Goes, Shape, Local, Fields
  <2>2. \A t \in Slots : t # s => scratch'[t] = scratch[t]
    BY <1>2
  <2>3. ASSUME NEW t \in Slots PROVE Owned(t)'
    <3>1. CASE t = s
      BY <2>1, <3>1 DEF Owned
    <3>2. CASE t # s
      BY <1>0, <2>1, <2>2, <3>2, OtherOwners, PasteAssumption DEF Owned
    <3> QED
      BY <3>1, <3>2
  <2>4. Listed(p)'
    BY <2>1 DEF Listed, Late, Early
  <2>5. Noted(p)'
    BY <1>0 DEF FilesOK, Noted, Early
  <2>6. DOMAIN scratch' = Slots /\ DOMAIN live' = Processes /\ DOMAIN caught' = Processes
    BY <1>0, <1>2 DEF FilesOK
  <2> QED
    BY <1>0, <2>1, <2>3, <2>4, <2>5, <2>6, OthersKeep
<1> QED
  BY <1>1, <1>2 DEF Create

LEMMA WriteFiles ==
  ASSUME Shape, FilesOK, NEW p \in Processes, Write(p)
  PROVE  FilesOK'
<1>0. Local(at[p], job[p]) /\ at[p] = "write" /\ UNCHANGED <<scratch, caught>>
  BY DEF Shape, Write, Local
<1>1. CASE live' = [live EXCEPT ![p] = Remembered(p)] /\ Goes(p, "decide") /\ UNCHANGED <<job, left>>
  <2>1. Alone(p) /\ at'[p] = "decide" /\ job'[p] = job[p]
    BY <1>1 DEF Alone, Goes, Shape
  <2>2. job[p].slot \in live'[p] /\ \A q \in Processes : q # p => live'[q] = live[q]
    BY <1>1 DEF FilesOK, Remembered
  <2>3. ASSUME NEW s \in Slots PROVE Owned(s)'
    BY <1>0, <1>1, <2>1 DEF FilesOK, Owned, Alone
  <2>4. Listed(p)' /\ Noted(p)'
    BY <1>0, <2>1, <2>2 DEF FilesOK, Listed, Noted, Early
  <2> QED
    BY <1>0, <1>1, <2>1, <2>2, <2>3, <2>4, OthersKeep DEF FilesOK
<1>2. CASE /\ left' = left \cup {job[p].slot} /\ Goes(p, "idle")
           /\ job' = [job EXCEPT ![p] = NoJob] /\ UNCHANGED live
  <2>1. Alone(p) /\ at'[p] = "idle" /\ job'[p].slot = None
    BY <1>2, NoJobIs DEF Alone, Goes, Shape
  <2>2. ASSUME NEW s \in Slots PROVE Owned(s)'
    <3>1. CASE job[p].slot = s
      BY <1>2, <3>1 DEF Owned
    <3>2. CASE job[p].slot # s
      BY <1>0, <1>2, <2>1, <3>2, OtherOwners DEF Owned
    <3> QED
      BY <3>1, <3>2
  <2>3. Listed(p)' /\ Noted(p)'
    BY <2>1 DEF Listed, Noted, Early
  <2> QED
    BY <1>0, <1>2, <2>1, <2>2, <2>3, OthersKeep DEF FilesOK
<1> QED
  BY <1>1, <1>2 DEF Write

\* The file goes before the entry does: in between the name may be another's.
LEMMA DropFiles ==
  ASSUME Shape, FilesOK, NEW p \in Processes, Drop(p) \/ Forget(p)
  PROVE  FilesOK'
<1>1. CASE Drop(p)
  <2>1. Alone(p) /\ at'[p] = "forgetting" /\ job'[p] = job[p] /\ UNCHANGED <<live, caught>>
    BY <1>1 DEF Drop, Alone, Goes, Shape
  <2>2. ASSUME NEW s \in Slots PROVE Owned(s)'
    <3>1. CASE job[p].slot = s
      BY <1>1, <3>1 DEF Owned, Drop, Removed
    <3>2. CASE job[p].slot # s
      <4>1. scratch'[s] = scratch[s] /\ (s \in left => s \in left')
        BY <1>1, <3>2 DEF Drop, Removed
      <4> QED
        BY <2>1, <3>2, <4>1, OtherOwners DEF Owned
    <3> QED
      BY <3>1, <3>2
  <2>3. Listed(p)' /\ Noted(p)'
    BY <2>1 DEF FilesOK, Listed, Noted, Late, Early
  <2> QED
    BY <1>1, <2>1, <2>2, <2>3, OthersKeep DEF FilesOK, Drop, Removed
<1>2. CASE Forget(p)
  <2>1. Alone(p) /\ at'[p] = "idle" /\ job'[p].slot = None /\ UNCHANGED <<scratch, caught, left>>
    BY <1>2, NoJobIs DEF Forget, Alone, Goes, Shape
  <2>2. DOMAIN live' = Processes /\ \A q \in Processes : q # p => live'[q] = live[q]
    BY <1>2 DEF Forget, FilesOK
  <2>3. ASSUME NEW s \in Slots PROVE Owned(s)'
    BY <1>2, <2>1, OtherOwners DEF Owned, Forget
  <2>4. Listed(p)' /\ Noted(p)'
    BY <2>1 DEF Listed, Noted, Late, Early
  <2> QED
    BY <2>1, <2>2, <2>3, <2>4, OthersKeep DEF FilesOK
<1> QED
  BY <1>1, <1>2

\* The handler reads the list when the file is in it, or is excused.
LEMMA CatchFiles ==
  ASSUME Shape, FilesOK, NEW p \in Processes, Catch(p)
  PROVE  FilesOK'
<1>0. UNCHANGED <<scratch, live, left, at, job>> /\ at[p] # "idle" /\ Local(at[p], job[p])
  BY DEF Catch, Shape
<1>1. /\ DOMAIN caught' = Processes /\ \A q \in Processes : q # p => caught'[q] = caught[q]
      /\ caught'[p] = [list |-> live[p], early |-> at[p] \in Early]
  BY DEF Catch, FilesOK, Early
<1>2. caught'[p].list = live[p]
  BY <1>1
<1>3. CASE at[p] \in Early
  <2>1. caught'[p].early
    <3>1. (at[p] \in Early) = TRUE
      BY <1>3
    <3>2. caught'[p] = [list |-> live[p], early |-> TRUE]
      BY <1>1, <3>1, Zenon
    <3>3. [list |-> live[p], early |-> TRUE].early = TRUE
      OBVIOUS
    <3> QED
      BY <3>2, <3>3, Zenon
  <2>2. Noted(p)'
    BY <2>1 DEF Noted
  <2> QED
    BY <1>0, <1>1, <2>2 DEF FilesOK, Owned, Listed, Noted
<1>4. CASE at[p] \notin Early
  <2>1. job[p].slot = None \/ at[p] = "forgetting" \/ job[p].slot \in live[p]
    BY <1>0, <1>4 DEF FilesOK, Listed, Late, Local
  <2>2. Noted(p)'
    BY <1>0, <1>2, <1>4, <2>1 DEF Noted
  <2> QED
    BY <1>0, <1>1, <2>2 DEF FilesOK, Owned, Listed, Noted
<1> QED
  BY <1>3, <1>4

\* A process ends: what it owned is gone, or excused.
LEMMA EndFiles ==
  ASSUME Shape, FilesOK, NEW p \in Processes, Dies(p) \/ Killed(p)
  PROVE  FilesOK'
<1>0. Local(at[p], job[p])
  BY DEF Shape
<1>1. Alone(p) /\ at'[p] = "idle" /\ job'[p].slot = None
  BY NoJobIs DEF Dies, Killed, Ends, Alone, Goes, Shape
<1>2. /\ DOMAIN live' = Processes /\ DOMAIN caught' = Processes
      /\ \A q \in Processes : q # p => live'[q] = live[q] /\ caught'[q] = caught[q]
  BY DEF Dies, Killed, Ends, FilesOK
<1>3. DOMAIN scratch' = Slots
  BY DEF Dies, Killed, FilesOK
<1>4. ASSUME NEW s \in Slots PROVE Owned(s)'
  <2> SUFFICES ASSUME scratch'[s] # None, s \notin left'
               PROVE  \E q \in Processes : job'[q].slot = s /\ at'[q] \notin {"idle", "forgetting"}
    BY DEF Owned
  <2>1. CASE Killed(p)
    <3>1. scratch[s] # None /\ s \notin left /\ job[p].slot # s
      BY <2>1 DEF Killed
    <3> QED
      BY <1>1, <3>1, OtherOwners
  <2>2. CASE Dies(p)
    <3>0. PICK stuck \in SUBSET {t \in caught[p].list : scratch[t] # None} :
            /\ scratch' = [t \in Slots |-> IF t \in caught[p].list \ stuck THEN None ELSE scratch[t]]
            /\ left' = (left \ caught[p].list) \cup stuck
                       \cup (IF caught[p].early THEN Slots \cap {job[p].slot} ELSE {})
      BY <2>2 DEF Dies
    <3>1. scratch[s] # None /\ s \notin caught[p].list
      BY <3>0
    <3>2. s \notin left
      BY <3>0, <3>1
    <3>3. caught[p].early => job[p].slot # s
      BY <3>0
    <3>4. job[p].slot # s \/ at[p] \in {"idle", "forgetting"}
      BY <2>2, <3>1, <3>3, PasteAssumption DEF Dies, FilesOK, Noted
    <3> QED
      BY <1>1, <3>1, <3>2, <3>4, OtherOwners
  <2> QED
    BY <2>1, <2>2
<1>5. Listed(p)' /\ Noted(p)'
  BY <1>1 DEF Listed, Noted, Late, Early
<1> QED
  BY <1>1, <1>2, <1>3, <1>4, <1>5, OthersKeep

LEMMA FilesKept == Shape /\ FilesOK /\ [Next]_vars => FilesOK'
<1> SUFFICES ASSUME Shape, FilesOK, [Next]_vars PROVE FilesOK'
  OBVIOUS
<1>1. CASE UNCHANGED vars \/ (\E held \in Copyable : Copy(held)) \/ Permission
  <2>1. UNCHANGED <<scratch, live, caught, left, at, job>>
    BY <1>1 DEF vars, files, Copy, Permission
  <2> QED
    BY <2>1 DEF FilesOK, Owned, Listed, Noted
<1>2. ASSUME NEW p \in Processes, Begin(p) \/ Steps(p) \/ Catch(p) \/ Dies(p) \/ Killed(p)
      PROVE  FilesOK'
  BY <1>2, RestCarries, CarriesKeeps, CreateFiles, WriteFiles, DropFiles, CatchFiles, EndFiles
     DEF Steps
<1> QED
  BY <1>1, <1>2 DEF Next

\* A scratch file is somebody's who will remove it, unless its process was
\* killed, could not write or remove it, or was signalled before it was in the list
\* (ScratchFile and live_files, clift-core, runtime.rs).
THEOREM ScratchIsOwned == Spec => []NothingLeft
<1>1. Init => FilesOK
  BY DEF Init, FilesOK, Owned, Listed, Noted, Late, NoJob
<1>2. FilesOK => NothingLeft
  BY DEF FilesOK, Owned, NothingLeft
<1> QED
  BY <1>1, <1>2, Invariance, FilesKept, PTL DEF Spec

-----------------------------------------------------------------------------
(* What is sent                                                              *)

\* On Windows: what a process takes along, the file that it wrote, and what it
\* has looked at while it keeps the clipboard open.
TakesAlong(place, j) ==
  /\ place \in Early \cup {"decide"} => j.mode = None /\ j.content = None
  /\ place \in {"redeem", "offer", "idle", "dropping", "forgetting"} => j.mode = None
  /\ j.mode # None => j.content \in {None, j.chosen}
  /\ place \in {"decide", "read"} /\ j.slot = None => j.snapshot.files \in {None, j.chosen}
  /\ place = "create" => j.snapshot.image = j.chosen /\ j.chosen \in Pictures
  /\ place = "write" => j.slot # None

Wrote(p) ==
  at[p] \notin {"idle", "forgetting"} /\ job[p].slot # None =>
    /\ scratch[job[p].slot] # None /\ scratch[job[p].slot].by = p
    /\ at[p] # "dropping" => scratch[job[p].slot].image = job[p].chosen

LooksAt(p) ==
  /\ at[p] \in Early => session = p
  /\ at[p] \in {"text", "files", "image"} => job[p].chosen = Attachment(clipboard)
  /\ at[p] = "image" => clipboard.files = None /\ job[p].snapshot.files = None

Undisturbed ==
  /\ DOMAIN scratch = Slots /\ clipboard.image \in Pictures
  /\ caught = [p \in Processes |-> None]
  /\ \A p \in Processes : TakesAlong(at[p], job[p]) /\ Wrote(p) /\ LooksAt(p)

\* No step of p disturbs the others.
LEMMA Undisturbing ==
  ASSUME Shape, Undisturbed, NEW p \in Processes, Alone(p), UNCHANGED caught,
         TakesAlong(at'[p], job'[p]), Wrote(p)', LooksAt(p)',
         DOMAIN scratch' = Slots, clipboard'.image \in Pictures,
         \A q \in Processes :
           q # p /\ at[q] \notin {"idle", "forgetting"} /\ job[q].slot # None =>
             scratch'[job[q].slot] = scratch[job[q].slot],
         session' = session \/ session \in {p, None},
         clipboard' = clipboard \/ session \in {p, None}
  PROVE  Undisturbed'
<1>1. ASSUME NEW q \in Processes, q # p
      PROVE  TakesAlong(at'[q], job'[q]) /\ Wrote(q)' /\ LooksAt(q)'
  <2>1. at'[q] = at[q] /\ job'[q] = job[q]
    BY <1>1 DEF Alone
  <2>2. TakesAlong(at'[q], job'[q])
    BY <2>1 DEF Undisturbed
  <2>3. Wrote(q)'
    BY <1>1, <2>1 DEF Undisturbed, Wrote
  <2>4. CASE at[q] \in Early
    <3>1. session = q
      BY <2>4 DEF Undisturbed, LooksAt
    <3>2. session' = session /\ clipboard' = clipboard
      BY <1>1, <2>4, <3>1, PasteAssumption
    <3> QED
      BY <2>1, <2>2, <2>3, <3>2 DEF Undisturbed, LooksAt
  <2>5. CASE at[q] \notin Early
    BY <2>1, <2>2, <2>3, <2>5 DEF LooksAt, Early
  <2> QED
    BY <2>4, <2>5
<1> QED
  BY <1>1 DEF Undisturbed

\* What a step may do that touches no file.
Elsewhere(p) ==
  /\ UNCHANGED <<scratch, caught>>
  /\ session' = session \/ session \in {p, None}
  /\ clipboard' = clipboard \/ session \in {p, None}
  /\ clipboard'.image \in Pictures

LEMMA ElsewhereKeeps ==
  ASSUME Shape, Undisturbed, NEW p \in Processes, Alone(p), Elsewhere(p),
         TakesAlong(at'[p], job'[p]), Wrote(p)', LooksAt(p)'
  PROVE  Undisturbed'
BY Undisturbing DEF Elsewhere, Undisturbed

LEMMA FinishesKeeps ==
  ASSUME Shape, Undisturbed, NEW p \in Processes, Finishes(p), Elsewhere(p),
         at[p] \notin {"idle", "forgetting"}
  PROVE  Undisturbed'
<1> DEFINE j == [NoJob EXCEPT !.slot = job[p].slot]
<1>1. job'[p] = j
  BY DEF Finishes, Shape
<1>2. j.mode = None /\ j.content = None /\ j.slot = job[p].slot
  BY DEF NoJob
<1> HIDE DEF j
<1>3. Alone(p) /\ at'[p] \in {"idle", "dropping"}
  BY FinishesIs
<1>4. TakesAlong(at'[p], job'[p])
  BY <1>1, <1>2, <1>3 DEF TakesAlong, Early
<1>5. Wrote(p)'
  BY <1>1, <1>2, <1>3 DEF Elsewhere, Wrote, Undisturbed
<1>6. LooksAt(p)'
  BY <1>3 DEF LooksAt, Early
<1> QED
  BY <1>3, <1>4, <1>5, <1>6, ElsewhereKeeps

\* On from `decide`, with a job that has the same file, choice and snapshot.
LEMMA GoesOnKeeps ==
  ASSUME Shape, Undisturbed, NEW p \in Processes, Elsewhere(p), Alone(p),
         at'[p] \in {"read", "send", "deliver", "withdraw", "redeem", "offer"},
         at[p] \notin {"idle", "forgetting", "dropping"},
         job'[p].slot = job[p].slot, job'[p].chosen = job[p].chosen,
         TakesAlong(at'[p], job'[p])
  PROVE  Undisturbed'
<1>1. Wrote(p)'
  BY DEF Elsewhere, Wrote, Undisturbed
<1>2. LooksAt(p)'
  BY DEF LooksAt, Early
<1> QED
  BY <1>1, <1>2, ElsewhereKeeps

LEMMA LookingKeeps ==
  ASSUME Shape, Undisturbed, platform = "windows", NEW p \in Processes,
         Begin(p) \/ ReadText(p) \/ ReadFiles(p) \/ ReadImage(p) \/ NotConverted(p)
  PROVE  Undisturbed'
<1>0. /\ Local(at[p], job[p]) /\ TakesAlong(at[p], job[p]) /\ Wrote(p) /\ LooksAt(p)
      /\ clipboard.image \in Pictures
  BY DEF Shape, Undisturbed
<1>1. CASE Begin(p)
  <2>1. PICK delivery :
          job' = [job EXCEPT ![p] = [NoJob EXCEPT !.delivery = delivery, !.chosen = Attachment(clipboard)]]
    BY <1>1 DEF Begin
  <2> DEFINE j == [NoJob EXCEPT !.delivery = delivery, !.chosen = Attachment(clipboard)]
  <2>2. j.slot = None /\ j.mode = None /\ j.content = None /\ j.chosen = Attachment(clipboard)
    BY DEF NoJob
  <2>3. job' = [job EXCEPT ![p] = j]
    BY <2>1
  <2> HIDE DEF j
  <2>4. Alone(p) /\ at'[p] = "text" /\ job'[p] = j
    BY <1>1, <2>3 DEF Begin, Alone, Goes, Shape
  <2>5. /\ UNCHANGED <<clipboard, scratch, caught>> /\ session' = p /\ session = None
    BY <1>1 DEF Begin, files
  <2>6. TakesAlong(at'[p], job'[p]) /\ Wrote(p)' /\ LooksAt(p)'
    BY <2>2, <2>4, <2>5 DEF TakesAlong, Wrote, LooksAt, Early
  <2> QED
    BY <1>0, <2>4, <2>5, <2>6, ElsewhereKeeps DEF Elsewhere
<1>2. CASE ReadText(p)
  <2> DEFINE j == [job[p] EXCEPT !.snapshot.text = clipboard.text]
  <2>1. j.slot = job[p].slot /\ j.mode = job[p].mode /\ j.content = job[p].content /\ j.chosen = job[p].chosen
    BY <1>0 DEF Local, Fields
  <2>2. job' = [job EXCEPT ![p] = j]
    BY <1>2 DEF ReadText
  <2> HIDE DEF j
  <2>3. Alone(p) /\ at'[p] = "files" /\ job'[p] = j /\ at[p] = "text"
    BY <1>2, <2>2 DEF ReadText, Alone, Goes, Shape
  <2>4. UNCHANGED <<clipboard, scratch, caught>> /\ session' = p /\ session = p
    BY <1>0, <1>2 DEF ReadText, files, Keeps, LooksAt, Early
  <2>5. TakesAlong(at'[p], job'[p]) /\ Wrote(p)' /\ LooksAt(p)'
    BY <1>0, <2>1, <2>3, <2>4 DEF TakesAlong, Wrote, LooksAt, Early, Local
  <2> QED
    BY <1>0, <2>3, <2>4, <2>5, ElsewhereKeeps DEF Elsewhere
<1>3. CASE ReadFiles(p)
  <2> DEFINE j == [job[p] EXCEPT !.snapshot.files = clipboard.files]
  <2>1. j.slot = job[p].slot /\ j.mode = job[p].mode /\ j.content = job[p].content
        /\ j.chosen = job[p].chosen /\ j.snapshot.files = clipboard.files
    BY <1>0 DEF Local, Fields, Parts
  <2>2. job' = [job EXCEPT ![p] = j]
    BY <1>3 DEF ReadFiles
  <2> HIDE DEF j
  <2>3. Alone(p) /\ job'[p] = j /\ at[p] = "files"
        /\ at'[p] = (IF clipboard.files = None THEN "image" ELSE "decide")
    BY <1>3, <2>2 DEF ReadFiles, Alone, Goes, Shape
  <2>4. UNCHANGED <<clipboard, scratch, caught>> /\ session = p
        /\ (at'[p] = "image" => session' = session)
    BY <1>0, <1>3, <2>3 DEF ReadFiles, files, LooksAt, Early
  <2>5. job[p].chosen = Attachment(clipboard) /\ job[p].slot = None
    BY <1>0, <2>3 DEF LooksAt, Local
  <2>6. TakesAlong(at'[p], job'[p]) /\ Wrote(p)' /\ LooksAt(p)'
    BY <1>0, <2>1, <2>3, <2>4, <2>5 DEF TakesAlong, Wrote, LooksAt, Early, Attachment
  <2> QED
    BY <1>0, <2>3, <2>4, <2>6, ElsewhereKeeps DEF Elsewhere
<1>4. CASE ReadImage(p)
  <2> DEFINE j == [job[p] EXCEPT !.snapshot.image = clipboard.image]
  <2>1. j.slot = job[p].slot /\ j.mode = job[p].mode /\ j.content = job[p].content
        /\ j.chosen = job[p].chosen /\ j.snapshot.files = job[p].snapshot.files
        /\ j.snapshot.image = clipboard.image
    BY <1>0 DEF Local, Fields, Parts
  <2>2. job' = [job EXCEPT ![p] = j]
    BY <1>4 DEF ReadImage
  <2> HIDE DEF j
  <2>3. Alone(p) /\ job'[p] = j /\ at[p] = "image"
        /\ at'[p] = (IF clipboard.image = None THEN "decide" ELSE "create")
    BY <1>4, <2>2 DEF ReadImage, Alone, Goes, Shape
  <2>4. UNCHANGED <<clipboard, scratch, caught>> /\ session = p
        /\ (at'[p] = "create" => session' = session)
    BY <1>0, <1>4, <2>3 DEF ReadImage, files, LooksAt, Early
  <2>5. /\ job[p].chosen = Attachment(clipboard) /\ job[p].slot = None
        /\ clipboard.files = None /\ job[p].snapshot.files = None
    BY <1>0, <2>3 DEF LooksAt, Local
  <2>6. TakesAlong(at'[p], job'[p]) /\ Wrote(p)' /\ LooksAt(p)'
    BY <1>0, <2>1, <2>3, <2>4, <2>5 DEF TakesAlong, Wrote, LooksAt, Early, Attachment
  <2> QED
    BY <1>0, <2>3, <2>4, <2>6, ElsewhereKeeps DEF Elsewhere
<1>5. CASE NotConverted(p)
  <2>1. at[p] = "image" /\ Finishes(p) /\ UNCHANGED <<clipboard, scratch, caught>> /\ session = p
    BY <1>0, <1>5 DEF NotConverted, files, LooksAt, Early
  <2> QED
    BY <1>0, <2>1, FinishesKeeps DEF Elsewhere
<1> QED
  BY <1>1, <1>2, <1>3, <1>4, <1>5

\* Nobody else removes or takes over a file that a process still owns.
LEMMA WritingKeeps ==
  ASSUME Shape, Undisturbed, NEW p \in Processes,
         Create(p) \/ Write(p) \/ Drop(p) \/ Forget(p) \/ Killed(p)
  PROVE  Undisturbed'
<1>0. /\ Local(at[p], job[p]) /\ TakesAlong(at[p], job[p]) /\ Wrote(p) /\ LooksAt(p)
      /\ clipboard.image \in Pictures
  BY DEF Shape, Undisturbed
<1>1. CASE Create(p)
  <2>1. at[p] = "create" /\ UNCHANGED <<clipboard, caught>> /\ session = p
    BY <1>0, <1>1 DEF Create, LooksAt, Early
  <2>2. CASE Finishes(p) /\ UNCHANGED scratch
    BY <1>0, <2>1, <2>2, FinishesKeeps DEF Elsewhere
  <2>3. ASSUME NEW s \in Slots, scratch[s] = None, UNCHANGED session,
               scratch' = [scratch EXCEPT ![s] = [by |-> p, image |-> job[p].snapshot.image]],
               Job(p, "slot", s), Goes(p, "write")
        PROVE  Undisturbed'
    <3> DEFINE j == [job[p] EXCEPT !.slot = s]
    <3>1. /\ j.slot = s /\ j.mode = job[p].mode /\ j.content = job[p].content
          /\ j.chosen = job[p].chosen
      BY <1>0 DEF Local, Fields
    <3>2. job' = [job EXCEPT ![p] = j]
      BY <2>3 DEF Job
    <3> HIDE DEF j
    <3>3. Alone(p) /\ job'[p] = j /\ at'[p] = "write"
      BY <2>3, <3>2 DEF Alone, Goes, Shape
    <3> DEFINE record == [by |-> p, image |-> job[p].snapshot.image]
    <3>4. record.by = p /\ record.image = job[p].chosen /\ record # None
      BY <1>0, <2>1, NoneIsApart DEF TakesAlong
    <3>5. DOMAIN scratch' = Slots /\ scratch'[s] = record
          /\ \A t \in Slots : t # s => scratch'[t] = scratch[t]
      BY <2>3 DEF Undisturbed
    <3> HIDE DEF record
    <3>6. TakesAlong(at'[p], job'[p]) /\ Wrote(p)' /\ LooksAt(p)'
      BY <1>0, <2>1, <2>3, <3>1, <3>3, <3>4, <3>5, PasteAssumption
         DEF TakesAlong, Wrote, LooksAt, Early
    <3>7. \A q \in Processes :
            q # p /\ at[q] \notin {"idle", "forgetting"} /\ job[q].slot # None =>
              scratch'[job[q].slot] = scratch[job[q].slot]
      BY <2>3, <3>5 DEF Undisturbed, Wrote, Shape, Local
    <3> QED
      BY <1>0, <2>1, <2>3, <3>3, <3>5, <3>6, <3>7, Undisturbing
  <2> QED
    BY <1>1, <2>2, <2>3 DEF Create
<1>2. ASSUME Goes(p, "idle"), job' = [job EXCEPT ![p] = NoJob], Elsewhere(p)
      PROVE  Undisturbed'
  <2>1. Alone(p) /\ at'[p] = "idle" /\ job'[p] = NoJob
    BY <1>2 DEF Alone, Goes, Shape
  <2>2. TakesAlong(at'[p], job'[p]) /\ Wrote(p)' /\ LooksAt(p)'
    BY <2>1 DEF TakesAlong, Wrote, LooksAt, Early, NoJob
  <2> QED
    BY <1>2, <2>1, <2>2, ElsewhereKeeps
<1>3. CASE Write(p)
  <2>1. at[p] = "write" /\ session = p /\ Elsewhere(p)
    BY <1>0, <1>3 DEF Write, LooksAt, Early, Elsewhere
  <2>2. CASE Goes(p, "decide") /\ UNCHANGED job
    <3>1. Alone(p) /\ at'[p] = "decide" /\ job'[p] = job[p]
      BY <2>2 DEF Alone, Goes, Shape
    <3>2. UNCHANGED scratch
      BY <2>1 DEF Elsewhere
    <3>3. TakesAlong("decide", job[p])
      BY <1>0, <1>3, <2>1 DEF TakesAlong, Early
    <3>4. Wrote(p)' /\ LooksAt(p)'
      BY <1>0, <2>1, <3>1, <3>2 DEF Wrote, LooksAt, Early
    <3> QED
      BY <2>1, <3>1, <3>3, <3>4, ElsewhereKeeps
  <2> QED
    BY <1>2, <1>3, <2>1, <2>2 DEF Write
<1>4. CASE Drop(p)
  <2>1. Alone(p) /\ job'[p] = job[p] /\ at[p] = "dropping" /\ at'[p] = "forgetting"
        /\ UNCHANGED <<clipboard, session, caught>>
    BY <1>4 DEF Drop, Alone, Goes, Shape, desk
  <2>2. DOMAIN scratch' = Slots /\ \A t \in Slots : t # job[p].slot => scratch'[t] = scratch[t]
    BY <1>4 DEF Drop, Removed, Undisturbed
  <2>3. TakesAlong(at'[p], job'[p]) /\ Wrote(p)' /\ LooksAt(p)'
    BY <1>0, <2>1 DEF TakesAlong, Wrote, LooksAt, Early
  <2>4. \A q \in Processes :
          q # p /\ at[q] \notin {"idle", "forgetting"} /\ job[q].slot # None =>
            scratch'[job[q].slot] = scratch[job[q].slot]
    BY <2>1, <2>2 DEF Undisturbed, Wrote, Shape, Local
  <2> QED
    BY <1>0, <2>1, <2>2, <2>3, <2>4, Undisturbing
<1>5. CASE Forget(p)
  BY <1>0, <1>2, <1>5 DEF Forget, desk, Elsewhere
<1>6. CASE Killed(p)
  <2>1. caught' = caught
    BY <1>6 DEF Killed, Ends, Undisturbed
  <2> QED
    BY <1>0, <1>2, <1>6, <2>1 DEF Killed, Ends, Frees, Elsewhere
<1> QED
  BY <1>1, <1>3, <1>4, <1>5, <1>6

LEMMA OnwardsKeeps ==
  ASSUME Shape, Undisturbed, NEW p \in Processes,
         \/ Decide(p) \/ ReadBytes(p) \/ Send(p) \/ PrintOut(p) \/ CopyOut(p) \/ NotCopied(p)
         \/ Inject(p) \/ NotTyped(p) \/ Withdraw(p) \/ Redeem(p) \/ Offer(p)
  PROVE  Undisturbed'
<1>0. /\ Local(at[p], job[p]) /\ TakesAlong(at[p], job[p]) /\ Wrote(p)
      /\ clipboard.image \in Pictures
  BY DEF Shape, Undisturbed
<1>1. Elsewhere(p) /\ at[p] \in {"decide", "read", "send", "deliver", "withdraw", "redeem", "offer"}
  <2>1. /\ UNCHANGED <<session, scratch, caught>> /\ (clipboard' = clipboard \/ session = None)
        /\ at[p] \in {"decide", "read", "send", "deliver", "withdraw", "redeem", "offer"}
    BY DEF Decide, ReadBytes, Send, PrintOut, CopyOut, NotCopied, Inject, NotTyped, Withdraw,
           Redeem, Offer, By, desk, files
  <2>2. clipboard' = clipboard \/ clipboard'.image \in Pictures
    BY DEF Decide, ReadBytes, Send, PrintOut, CopyOut, NotCopied, Inject, NotTyped, Withdraw,
           Redeem, Offer, desk, Holds, Empty, Forms, Pictures
  <2> QED
    BY <1>0, <2>1, <2>2 DEF Elsewhere
<1>2. CASE Finishes(p)
  BY <1>1, <1>2, FinishesKeeps
<1>3. ASSUME NEW place, Goes(p, place), UNCHANGED job, TakesAlong(place, job[p]),
             place \in {"read", "send", "deliver", "withdraw", "redeem", "offer"}
      PROVE  Undisturbed'
  <2>1. Alone(p) /\ at'[p] = place /\ job'[p] = job[p]
    BY <1>3 DEF Goes, Alone, Shape
  <2> QED
    BY <1>1, <1>3, <2>1, GoesOnKeeps
<1>4. ASSUME NEW f \in {"object", "mode", "content"}, NEW v, Job(p, f, v),
             NEW place \in {"read", "send", "deliver", "withdraw", "redeem", "offer"},
             Goes(p, place), TakesAlong(place, [job[p] EXCEPT ![f] = v])
      PROVE  Undisturbed'
  <2> DEFINE j == [job[p] EXCEPT ![f] = v]
  <2>1. job' = [job EXCEPT ![p] = j] /\ TakesAlong(place, j)
    BY <1>4 DEF Job
  <2>2. j.slot = job[p].slot /\ j.chosen = job[p].chosen
    BY <1>0 DEF Local, Fields
  <2> HIDE DEF j
  <2>3. Alone(p) /\ at'[p] = place /\ job'[p] = j
    BY <1>4, <2>1 DEF Goes, Alone, Shape
  <2> QED
    BY <1>1, <1>4, <2>1, <2>2, <2>3, GoesOnKeeps
<1>5. CASE PrintOut(p) \/ CopyOut(p) \/ Inject(p) \/ Withdraw(p) \/ Offer(p)
  BY <1>2, <1>5 DEF PrintOut, CopyOut, Inject, Withdraw, Offer, Delivered
<1>6. CASE NotCopied(p) \/ NotTyped(p)
  <2>1. Fails(p) /\ at[p] = "deliver"
    BY <1>6 DEF NotCopied, NotTyped, NotDelivered, By
  <2>2. TakesAlong("withdraw", job[p])
    BY <1>0, <2>1 DEF TakesAlong, Early
  <2> QED
    BY <1>2, <1>3, <2>1, <2>2 DEF Fails
<1>7. ASSUME NEW f \in {"object", "mode", "content"}, NEW v
      PROVE  /\ [job[p] EXCEPT ![f] = v].slot = job[p].slot
             /\ [job[p] EXCEPT ![f] = v].chosen = job[p].chosen
             /\ [job[p] EXCEPT ![f] = v].snapshot = job[p].snapshot
             /\ [job[p] EXCEPT ![f] = v].mode = (IF f = "mode" THEN v ELSE job[p].mode)
             /\ [job[p] EXCEPT ![f] = v].content = (IF f = "content" THEN v ELSE job[p].content)
  BY <1>0 DEF Local, Fields
<1>8. CASE Decide(p)
  <2>1. at[p] = "decide"
    BY <1>8 DEF Decide
  <2>2. ASSUME NEW o, Job(p, "object", o), Goes(p, "redeem") PROVE Undisturbed'
    <3>1. TakesAlong("redeem", [job[p] EXCEPT !["object"] = o])
      BY <1>0, <1>7, <2>1 DEF TakesAlong, Early
    <3> QED
      BY <1>4, <2>2, <3>1
  <2>3. ASSUME NEW mode, Job(p, "mode", mode), Goes(p, "read") PROVE Undisturbed'
    <3>1. TakesAlong("read", [job[p] EXCEPT !["mode"] = mode])
      BY <1>0, <1>7, <2>1 DEF TakesAlong, Early
    <3> QED
      BY <1>4, <2>3, <3>1
  <2> QED
    BY <1>2, <1>8, <2>2, <2>3 DEF Decide
<1>9. CASE ReadBytes(p)
  <2>1. at[p] = "read"
    BY <1>9 DEF ReadBytes
  <2>2. Found(p) \in {None, job[p].chosen}
    BY <1>0, <2>1 DEF Found, TakesAlong, Wrote
  <2>3. TakesAlong("send", [job[p] EXCEPT !["content"] = Found(p)])
    BY <1>0, <1>7, <2>1, <2>2 DEF TakesAlong, Early
  <2> QED
    BY <1>2, <1>4, <1>9, <2>3 DEF ReadBytes
<1>10. CASE Send(p)
  <2>1. at[p] = "send"
    BY <1>10 DEF Send
  <2>2. TakesAlong("deliver", job[p])
    BY <1>0, <2>1 DEF TakesAlong, Early
  <2>3. \A o : TakesAlong("deliver", [job[p] EXCEPT !["object"] = o])
    BY <1>0, <1>7, <2>1 DEF TakesAlong, Early
  <2> QED
    BY <1>2, <1>3, <1>4, <1>10, <2>2, <2>3 DEF Send
<1>11. CASE Redeem(p)
  <2>1. at[p] = "redeem"
    BY <1>11 DEF Redeem
  <2>2. \A form : TakesAlong("offer", [job[p] EXCEPT !["content"] = form])
    BY <1>0, <1>7, <2>1 DEF TakesAlong, Early
  <2> QED
    BY <1>2, <1>4, <1>11, <2>2 DEF Redeem
<1> QED
  BY <1>5, <1>6, <1>8, <1>9, <1>10, <1>11

WindowsOK == platform = "windows" => Undisturbed

LEMMA WindowsKeeps == Shape /\ WindowsOK /\ [Next]_vars => WindowsOK'
<1> SUFFICES ASSUME Shape, WindowsOK, [Next]_vars, platform' = "windows" PROVE Undisturbed'
  BY DEF WindowsOK
<1>1. platform = "windows" /\ Undisturbed
  BY DEF WindowsOK, Next, vars, desk, Copy, Permission, Begin, Steps, Catch, Dies, Killed, ReadText,
         ReadFiles, ReadImage, NotConverted, Create, Write, Decide, ReadBytes, Send, PrintOut,
         CopyOut, NotCopied, Inject, NotTyped, Withdraw, Redeem, Offer, Drop, Forget
<1>2. CASE UNCHANGED vars
  BY <1>1, <1>2 DEF vars, desk, files, Undisturbed, TakesAlong, Wrote, LooksAt
<1>3. ASSUME NEW held \in Copyable, Copy(held) PROVE Undisturbed'
  <2>1. \A p \in Processes : at[p] \notin Early
    BY <1>1, <1>3, PasteAssumption DEF Copy, Undisturbed, LooksAt
  <2>2. clipboard'.image \in Pictures
    BY <1>3 DEF Copy, Copyable, Holds, Pictures, Icon
  <2>3. UNCHANGED <<files, at, job>>
    BY <1>3 DEF Copy
  <2> QED
    BY <1>1, <2>1, <2>2, <2>3 DEF files, Undisturbed, TakesAlong, Wrote, LooksAt, Early
<1>4. ASSUME NEW p \in Processes, Begin(p) \/ Steps(p) \/ Catch(p) \/ Dies(p) \/ Killed(p)
      PROVE  Undisturbed'
  <2>1. ~Catch(p) /\ ~Dies(p)
    BY <1>1 DEF Catch, Dies, Undisturbed
  <2> QED
    BY <1>1, <1>4, <2>1, LookingKeeps, WritingKeeps, OnwardsKeeps DEF Steps
<1>5. ~Permission
  BY <1>1 DEF Permission
<1> QED
  BY <1>2, <1>3, <1>4, <1>5 DEF Next

\* On Windows, what a run sends is what was on the clipboard when it looked: the
\* clipboard stays open until the snapshot is complete, and a scratch file is
\* read before anybody else may have its name (session.rs, read_snapshot).
THEOREM AlwaysSentAsCopied == Spec => []SentAsCopied
<1>1. Init => WindowsOK
  <2> SUFFICES ASSUME Init PROVE Undisturbed
    BY DEF WindowsOK
  <2>1. \A p \in Processes : TakesAlong(at[p], job[p]) /\ Wrote(p) /\ LooksAt(p)
    BY DEF Init, TakesAlong, Wrote, LooksAt, Early, NoJob
  <2> QED
    BY <2>1 DEF Init, Undisturbed, Empty, Holds, Pictures
<1>2. WindowsOK => SentAsCopied
  BY DEF WindowsOK, Undisturbed, TakesAlong, SentAsCopied
<1> QED
  BY <1>1, <1>2, Invariance, WindowsKeeps, PTL DEF Spec

-----------------------------------------------------------------------------
(* The helper of the hotkey                                                  *)

HelperShape ==
  /\ state \in [Helpers -> States] /\ login \in [Helpers -> BOOLEAN]
  /\ combination \in [Helpers -> Combinations \cup {Unread}]
  /\ queue \in [Helpers -> Nat] /\ fresh \in [Helpers -> BOOLEAN]

\* A press is in the queue of a helper that has the key, and one that came
\* since it last looked is news to it.
QueueKept ==
  \A h \in Helpers :
    /\ state[h] \notin Registered => queue[h] = 0
    /\ state[h] = "waiting" /\ queue[h] > 0 => fresh[h]

HelperAwake == HelperShape /\ QueueKept

LEMMA StopsAwake ==
  ASSUME HelperAwake, NEW gone, Stops(gone)
  PROVE  HelperAwake'
BY DEF HelperAwake, HelperShape, QueueKept, Stops, States, Registered

LEMMA StartsAwake ==
  ASSUME HelperAwake, NEW h \in Helpers, NEW atLogin \in BOOLEAN, Starts(h, atLogin),
         UNCHANGED input
  PROVE  HelperAwake'
BY DEF HelperAwake, HelperShape, QueueKept, Starts, States, Registered, input

LEMMA SameAwake ==
  ASSUME HelperAwake, UNCHANGED <<state, login, combination, input>>
  PROVE  HelperAwake'
BY DEF HelperAwake, HelperShape, QueueKept, input

LEMMA LivesAwake ==
  ASSUME HelperAwake, NEW h \in Helpers, Lives(h)
  PROVE  HelperAwake'
<1>1. CASE KeepAlive(h)
  BY <1>1, StartsAwake DEF KeepAlive
<1>2. CASE Login(h)
  BY <1>2, StartsAwake DEF Login
<1>3. CASE Foreground(h)
  BY <1>3, StartsAwake DEF Foreground
<1>4. CASE HelperDies(h)
  BY <1>4, StopsAwake DEF HelperDies, HelperEnds
<1>5. CASE Press(h)
  BY <1>5 DEF HelperAwake, HelperShape, QueueKept, Press, helper
<1> QED
  BY <1>1, <1>2, <1>3, <1>4, <1>5 DEF Lives

LEMMA WorksAwake ==
  ASSUME HelperAwake, NEW h \in Helpers, configured \in Combinations, Works(h)
  PROVE  HelperAwake'
<1> USE DEF HelperAwake, HelperShape, QueueKept, Moves, States, Registered, input
<1>1. CASE ReadFile(h)
  BY <1>1 DEF ReadFile
<1>2. CASE CreateEvent(h)
  <2>1. CASE HelperEnds(h)
    BY <2>1, StopsAwake DEF HelperEnds
  <2> QED
    BY <1>2, <2>1 DEF CreateEvent
<1>3. CASE Register(h)
  <2>1. CASE HelperEnds(h)
    BY <2>1, StopsAwake DEF HelperEnds
  <2> QED
    BY <1>3, <2>1 DEF Register
<1>4. CASE SeesStop(h)
  BY <1>4, StopsAwake DEF SeesStop, HelperEnds
<1>5. CASE Wakes(h)
  BY <1>5 DEF Wakes
<1>6. CASE Takes(h)
  BY <1>6 DEF Takes
<1>7. CASE PressDone(h)
  BY <1>7 DEF PressDone, AfterPress
<1>8. CASE Drained(h)
  BY <1>8 DEF Drained
<1> QED
  BY <1>1, <1>2, <1>3, <1>4, <1>5, <1>6, <1>7, <1>8 DEF Works

\* What a command does to the helpers: nothing, or it stops or starts some.
LEMMA RunsAwake ==
  ASSUME HelperAwake, Runs
  PROVE  HelperAwake'
<1>1. CASE Define \/ Bootstrap \/ StopOld \/ OldStopped \/ Seen \/ NotSeen
           \/ NothingInstalled \/ StopFirst \/ Delete
  BY <1>1, SameAwake
     DEF Define, Bootstrap, StopOld, OldStopped, Seen, NotSeen, NothingInstalled, StopFirst, Delete,
         helper
<1>2. CASE Bootout \/ Unload
  BY <1>2, StopsAwake, SameAwake DEF Bootout, Unload, Unloaded, helper
<1>3. CASE \E h \in Helpers : Spawn(h)
  BY <1>3, StartsAwake DEF Spawn
<1>4. CASE \E place \in {"defining", "replacing", "spawning", "stopping", "deleting"} : CommandFails(place)
  BY <1>4, SameAwake DEF CommandFails, helper
<1> QED
  BY <1>1, <1>2, <1>3, <1>4 DEF Runs

ConfiguredOK == configured \in Combinations

LEMMA ConfiguredKept == ASSUME ConfiguredOK, [HelperNext]_helperVars PROVE ConfiguredOK'
<1> USE DEF ConfiguredOK
<1>1. CASE \E c \in Combinations : Save(c)
  BY <1>1 DEF Save
<1>2. CASE \E h \in Helpers : Lives(h)
  BY <1>2 DEF Lives, KeepAlive, Login, Foreground, HelperDies, Press, entry
<1>3. CASE \E h \in Helpers : Works(h)
  BY <1>3 DEF Works, ReadFile, CreateEvent, Register, SeesStop, Wakes, Takes, PressDone, Drained, entry
<1>4. CASE Logout \/ BeginInstall \/ BeginUninstall
  BY <1>4 DEF Logout, BeginInstall, BeginUninstall, entry
<1>5. CASE Runs
  BY <1>5 DEF Runs, Define, Bootout, Bootstrap, StopOld, OldStopped, Spawn, Seen, NotSeen,
              NothingInstalled, Unload, StopFirst, Delete, CommandFails, entry
<1>6. CASE UNCHANGED helperVars
  BY <1>6 DEF helperVars, entry
<1> QED
  BY <1>1, <1>2, <1>3, <1>4, <1>5, <1>6 DEF HelperNext, Asks

LEMMA NextAwake ==
  ASSUME HelperAwake, ConfiguredOK, [HelperNext]_helperVars
  PROVE  HelperAwake'
<1>1. CASE \E h \in Helpers : Lives(h)
  BY <1>1, LivesAwake
<1>2. CASE \E h \in Helpers : Works(h)
  BY <1>2, WorksAwake DEF ConfiguredOK
<1>3. CASE Logout
  BY <1>3, StopsAwake DEF Logout
<1>4. CASE Asks
  BY <1>4, SameAwake DEF Asks, Save, BeginInstall, BeginUninstall, helper
<1>5. CASE Runs
  BY <1>5, RunsAwake
<1>6. CASE UNCHANGED helperVars
  BY <1>6, SameAwake DEF helperVars, helper
<1> QED
  BY <1>1, <1>2, <1>3, <1>4, <1>5, <1>6 DEF HelperNext

\* The helper never sleeps on a press in its queue, whatever is pressed while
\* it works (hotkey.rs, listen).
THEOREM AwakeHolds == HelperSpec => []NeverAsleep
<1>1. HelperInit => HelperAwake /\ ConfiguredOK
  BY DEF HelperInit, HelperAwake, HelperShape, QueueKept, ConfiguredOK, States, Registered
<1>2. HelperAwake /\ ConfiguredOK /\ [HelperNext]_helperVars => (HelperAwake /\ ConfiguredOK)'
  BY NextAwake, ConfiguredKept
<1>3. HelperAwake => NeverAsleep
  BY DEF HelperAwake, QueueKept, NeverAsleep
<1> QED
  BY <1>1, <1>2, <1>3, PTL DEF HelperSpec

-----------------------------------------------------------------------------
(* What the user was told of it                                              *)

\* A helper reads the file once, and only a login entry's outlives its command.
Unstarted ==
  \A h \in Helpers :
    /\ state[h] = "none" => ~login[h] /\ combination[h] = Unread
    /\ state[h] = "starting" => combination[h] = Unread

\* Between stopping the old helper and starting the new one there is none, but
\* one that was only starting then; and what launchd has let go of does not run.
NoneBetween ==
  /\ system = "macos" /\ ~loaded => \A h \in Helpers : ~login[h]
  /\ command = "stopping" => \A h \in Helpers \ late : ~OnItsWay(h)
  /\ command = "spawning" /\ system = "windows" => \A h \in Helpers \ late : ~Alive(h)

ReadsNow(h) == combination[h] # Unread => combination[h] = configured

\* Whoever reads the file while the installer watches reads what it has now.
NewOnly ==
  /\ command = "watching" => \A h \in Helpers \ late : ReadsNow(h)
  /\ word = "running" => command = "idle" /\ \A h \in Helpers \ late : login[h] => ReadsNow(h)

ByItself ==
  /\ system \in {"macos", "windows"} /\ (system = "windows" => ~loaded)
  /\ command \in {"stopping", "watching"} => system = "windows"

Promised == HelperShape /\ Unstarted /\ ByItself /\ NoneBetween /\ NewOnly

LEMMA StopsPromised ==
  ASSUME Promised, NEW gone, Stops(gone), UNCHANGED <<system, configured, loaded, command, word>>
  PROVE  Promised'
<1> USE DEF Promised, HelperShape, Stops
<1>1. HelperShape'
  BY DEF States
<1>2. Unstarted'
  BY DEF Unstarted
<1>3. ByItself'
  BY DEF ByItself
<1>4. NoneBetween'
  BY DEF NoneBetween, OnItsWay, Alive
<1>5. NewOnly'
  BY DEF NewOnly, ReadsNow
<1> QED
  BY <1>1, <1>2, <1>3, <1>4, <1>5

LEMMA SamePromised ==
  ASSUME Promised, UNCHANGED <<system, configured, loaded, helper, queue, fresh, command, word>>
  PROVE  Promised'
BY DEF Promised, HelperShape, Unstarted, ByItself, NoneBetween, NewOnly, ReadsNow, OnItsWay, Alive,
       helper

LEMMA LivesPromised ==
  ASSUME Promised, NEW h \in Helpers, Lives(h)
  PROVE  Promised'
<1> USE DEF Promised, HelperShape
<1>1. CASE KeepAlive(h)
  <2> USE <1>1 DEF KeepAlive, Starts, input, entry
  <2>1. HelperShape' /\ Unstarted' /\ ByItself'
    BY DEF States, Unstarted, ByItself
  <2>2. NoneBetween'
    BY DEF NoneBetween, ByItself, OnItsWay, Alive
  <2>3. NewOnly'
    BY DEF NewOnly, ReadsNow, Unstarted
  <2> QED
    BY <2>1, <2>2, <2>3
<1>2. CASE Login(h)
  BY <1>2 DEF Login, Starts, States, Unstarted, ByItself, NoneBetween, NewOnly, ReadsNow, OnItsWay,
              Alive, input, entry
<1>3. CASE Foreground(h)
  BY <1>3 DEF Foreground, Starts, States, Unstarted, ByItself, NoneBetween, NewOnly, ReadsNow,
              OnItsWay, Alive, input, entry
<1>4. CASE HelperDies(h)
  BY <1>4, StopsPromised DEF HelperDies, HelperEnds, entry
<1>5. CASE Press(h)
  BY <1>5 DEF Press, Unstarted, ByItself, NoneBetween, NewOnly, ReadsNow, OnItsWay, Alive,
              helper, entry
<1> QED
  BY <1>1, <1>2, <1>3, <1>4, <1>5 DEF Lives

LEMMA WorksPromised ==
  ASSUME Promised, ConfiguredOK, NEW h \in Helpers, Works(h)
  PROVE  Promised'
<1> DEFINE Placed(place) ==
      /\ Moves(h, place) /\ place \in States \ {"none", "starting"}
      /\ state[h] \notin {"none", "starting"}
      /\ (place = "read" => state[h] = "read")
      /\ queue' \in [Helpers -> Nat] /\ fresh' \in [Helpers -> BOOLEAN]
      /\ UNCHANGED <<system, entry, combination, command, word>>
<1>a. ASSUME NEW place, Placed(place) PROVE Promised'
  <2> USE <1>a DEF Promised, HelperShape, Moves, entry
  <2>1. HelperShape' /\ Unstarted' /\ ByItself'
    BY DEF Unstarted, ByItself
  <2>2. NoneBetween'
    BY DEF NoneBetween, OnItsWay, Alive
  <2>3. NewOnly'
    BY DEF NewOnly, ReadsNow
  <2> QED
    BY <2>1, <2>2, <2>3
<1>b. ASSUME HelperEnds(h), UNCHANGED <<system, entry, command, word>> PROVE Promised'
  BY <1>b, StopsPromised DEF HelperEnds, entry
<1>c. queue \in [Helpers -> Nat] /\ fresh \in [Helpers -> BOOLEAN]
  BY DEF Promised, HelperShape
<1>1. CASE ReadFile(h)
  <2> USE <1>1 DEF ReadFile, Moves, Promised, HelperShape, input, entry
  <2>1. HelperShape' /\ Unstarted' /\ ByItself'
    BY DEF States, Unstarted, ByItself, ConfiguredOK
  <2>2. NoneBetween'
    BY DEF NoneBetween, OnItsWay, Alive
  <2>3. NewOnly'
    BY DEF NewOnly, ReadsNow
  <2> QED
    BY <2>1, <2>2, <2>3
<1>2. CASE CreateEvent(h)
  <2>1. HelperEnds(h) \/ Placed("owner")
    BY <1>2, <1>c DEF CreateEvent, States, input
  <2> QED
    BY <1>2, <1>a, <1>b, <2>1 DEF CreateEvent
<1>3. CASE Register(h)
  <2>1. HelperEnds(h) \/ Placed("waiting")
    BY <1>3, <1>c DEF Register, States, input
  <2> QED
    BY <1>3, <1>a, <1>b, <2>1 DEF Register
<1>4. CASE SeesStop(h)
  BY <1>4, <1>b DEF SeesStop
<1>5. CASE Wakes(h)
  <2>1. Placed("draining")
    BY <1>5, <1>c DEF Wakes, States, input
  <2> QED
    BY <1>a, <2>1
<1>6. CASE Takes(h)
  <2>1. Placed("pressing")
    BY <1>6, <1>c DEF Takes, States
  <2> QED
    BY <1>a, <2>1
<1>7. CASE PressDone(h)
  <2>1. Placed("draining")
    BY <1>7, <1>c DEF PressDone, AfterPress, States, input
  <2> QED
    BY <1>a, <2>1
<1>8. CASE Drained(h)
  <2>1. Placed("waiting")
    BY <1>8, <1>c DEF Drained, States
  <2> QED
    BY <1>a, <2>1
<1> QED
  BY <1>1, <1>2, <1>3, <1>4, <1>5, <1>6, <1>7, <1>8 DEF Works

LEMMA AsksPromised ==
  ASSUME Promised, Asks
  PROVE  Promised'
BY DEF Promised, HelperShape, Unstarted, ByItself, NoneBetween, NewOnly, Asks, Save, BeginInstall,
       BeginUninstall, CommandGoes, helper, input, entry

LEMMA LogoutPromised ==
  ASSUME Promised, Logout
  PROVE  Promised'
<1> USE DEF Promised, HelperShape, Logout, Stops
<1>1. HelperShape' /\ Unstarted' /\ ByItself'
  BY DEF States, Unstarted, ByItself
<1>2. NoneBetween' /\ NewOnly'
  BY DEF NoneBetween, NewOnly, ReadsNow
<1> QED
  BY <1>1, <1>2

\* A command that does nothing to the helpers and starts none.
LEMMA QuietRunsPromised ==
  ASSUME Promised, command # "idle",
         UNCHANGED <<system, configured, loaded, state, login, combination, queue, fresh>>,
         command' \in {"idle", "replacing", "deleting"},
         word' = word \/ word' # "running"
  PROVE  Promised'
BY DEF Promised, HelperShape, Unstarted, ByItself, NoneBetween, NewOnly, ReadsNow

LEMMA RunsPromised ==
  ASSUME Promised, Runs
  PROVE  Promised'
<1>1. CASE Define
  BY <1>1, QuietRunsPromised DEF Define, CommandGoes, input, entry, helper
<1>2. CASE NotSeen \/ NothingInstalled \/ StopFirst \/ Delete
  BY <1>2, QuietRunsPromised
     DEF NotSeen, NothingInstalled, StopFirst, Delete, CommandGoes, input, entry, helper
<1>3. CASE \E place \in {"defining", "replacing", "spawning", "stopping", "deleting"} : CommandFails(place)
  BY <1>3, QuietRunsPromised DEF CommandFails, CommandGoes, input, entry, helper
<1>4. CASE Bootout
  <2> USE <1>4 DEF Bootout, CommandGoes, Promised, HelperShape
  <2>1. CASE loaded' = FALSE /\ Stops(LoginHelpers)
    <3> USE <2>1 DEF Stops
    <3>1. HelperShape' /\ Unstarted' /\ ByItself'
      BY DEF States, Unstarted, ByItself
    <3>2. NoneBetween'
      BY DEF NoneBetween, LoginHelpers, Alive, Unstarted
    <3>3. NewOnly'
      BY DEF NewOnly
    <3> QED
      BY <3>1, <3>2, <3>3
  <2>2. CASE UNCHANGED <<loaded, helper, stop, input>>
    BY <2>2 DEF Unstarted, ByItself, NoneBetween, NewOnly, helper, input
  <2> QED
    BY <2>1, <2>2 DEF Unloaded
<1>5. CASE Bootstrap
  BY <1>5 DEF Bootstrap, CommandGoes, Promised, HelperShape, Unstarted, ByItself, NoneBetween,
              NewOnly, helper, input
<1>6. CASE StopOld
  BY <1>6 DEF StopOld, CommandGoes, Promised, HelperShape, Unstarted, ByItself, NoneBetween,
              NewOnly, ReadsNow, EventExists, OnItsWay, Alive, States, Registered, helper, input,
              entry
<1>7. CASE OldStopped
  BY <1>7 DEF OldStopped, Stopped, CommandGoes, Promised, HelperShape, Unstarted, ByItself,
              NoneBetween, NewOnly, ReadsNow, EventExists, OnItsWay, Alive, States, Registered,
              helper, input, entry
<1>8. CASE \E h \in Helpers : Spawn(h)
  BY <1>8 DEF Spawn, Starts, CommandGoes, Promised, HelperShape, Unstarted, ByItself,
              NoneBetween, NewOnly, ReadsNow, Alive, States, input, entry
<1>9. CASE Seen
  BY <1>9 DEF Seen, CommandGoes, Promised, HelperShape, Unstarted, ByItself, NoneBetween,
              NewOnly, ReadsNow, helper, input, entry
<1>10. CASE Unload
  <2> USE <1>10 DEF Unload, CommandGoes, Promised, HelperShape
  <2>1. CASE loaded' = FALSE /\ Stops(LoginHelpers)
    <3> USE <2>1 DEF Stops
    <3>1. HelperShape' /\ Unstarted' /\ ByItself'
      BY DEF States, Unstarted, ByItself
    <3>2. NoneBetween' /\ NewOnly'
      BY DEF NoneBetween, NewOnly, LoginHelpers, Alive, Unstarted
    <3> QED
      BY <3>1, <3>2
  <2>2. CASE UNCHANGED <<loaded, helper, stop, input>>
    BY <2>2 DEF Unstarted, ByItself, NoneBetween, NewOnly, helper, input
  <2> QED
    BY <2>1, <2>2 DEF Unloaded
<1> QED
  BY <1>1, <1>2, <1>3, <1>4, <1>5, <1>6, <1>7, <1>8, <1>9, <1>10 DEF Runs

LEMMA NextPromised ==
  ASSUME Promised, ConfiguredOK, [HelperNext]_helperVars
  PROVE  Promised'
<1>1. CASE \E h \in Helpers : Lives(h)
  BY <1>1, LivesPromised
<1>2. CASE \E h \in Helpers : Works(h)
  BY <1>2, WorksPromised
<1>3. CASE Logout
  BY <1>3, LogoutPromised
<1>4. CASE Asks
  BY <1>4, AsksPromised
<1>5. CASE Runs
  BY <1>5, RunsPromised
<1>6. CASE UNCHANGED helperVars
  BY <1>6, SamePromised DEF helperVars, entry, input
<1> QED
  BY <1>1, <1>2, <1>3, <1>4, <1>5, <1>6 DEF HelperNext

\* After `running now`, the helper the login entry started listens for the
\* combination in the file, not for the one it replaced (autostart.rs,
\* install; hotkey.rs, stop_running_helper).
THEOREM RunsAsSaidHolds == HelperSpec => []RunsAsSaid
<1>1. HelperInit => Promised /\ ConfiguredOK
  BY DEF HelperInit, Promised, HelperShape, Unstarted, ByItself, NoneBetween, NewOnly, ReadsNow,
         OnItsWay, Alive, ConfiguredOK, States
<1>2. Promised /\ ConfiguredOK /\ [HelperNext]_helperVars => (Promised /\ ConfiguredOK)'
  BY NextPromised, ConfiguredKept
<1>3. Promised => RunsAsSaid
  BY DEF Promised, NewOnly, ReadsNow, RunsAsSaid
<1> QED
  BY <1>1, <1>2, <1>3, PTL DEF HelperSpec

=============================================================================
