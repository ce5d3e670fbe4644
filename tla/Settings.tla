------------------------------ MODULE Settings ------------------------------
(***************************************************************************)
(* config.toml, the only state Clift keeps (clift-core/src/config), and the *)
(* commands that change it. A command is a process of its own: it reads the *)
(* file once, works out the next one, and puts it in place by a rename.     *)
(* Nothing locks the file, `setup` takes as long as its checks take, a      *)
(* process can be killed and the machine can lose power at any step.        *)
(***************************************************************************)
EXTENDS Naturals, FiniteSets

CONSTANTS Names,      \* target aliases
          Processes,  \* clift processes
          Slots,      \* names for a temporary file beside the target (64)
          None

ASSUME SettingsAssumption == None \notin Names \cup Processes \cup {"named", "checked"}

VARIABLES
  file,      \* config.toml: None or a Document
  settled,   \* what `file` holds has reached the disk
  before,    \* the directory as it was last written to the disk, which a power
             \* loss may bring back: the file, and the names that were taken
  folder,    \* the directory exists
  slots,     \* per slot None, or a temporary file: the process whose TempFile stands
             \* for it, what it holds, and whether that has reached the disk
  pc, op,    \* per process: where it is, and the command it runs
  base,      \* per process: the document it read
  next       \* per process: the document it is to write

disk == <<file, settled, before, folder, slots>>
process == <<pc, op, base, next>>
vars == <<disk, process>>

\* `targets` has the aliases, each with what is known of the host: "named" by
\* `target add`, "checked" by setup. `health` stands for every value that is
\* neither a target nor the route: "wrong" is one that parse refuses, "torn"
\* is no TOML. `odd` says that there are keys this build does not know.
Documents ==
  [version : 0..2, mode : {"fast", "universal", None}, relay : BOOLEAN,
   targets : [Names -> {"named", "checked", None}], default : Names \cup {None},
   health : {"fine", "wrong", "torn"}, odd : BOOLEAN]

Blank == [version |-> 1, mode |-> None, relay |-> FALSE, targets |-> [n \in Names |-> None],
          default |-> None, health |-> "fine", odd |-> FALSE]
Torn == [Blank EXCEPT !.health = "torn"]

Has(document, n) == document.targets[n] # None

Commands ==
  [kind : {"add", "use", "remove", "setup"}, name : Names]
  \cup [kind : {"rename"}, name : Names, to : Names]
  \cup [kind : {"set", "purge"}]

-----------------------------------------------------------------------------
(* Reading (parse, migrate_to_current, build).                              *)

Readable(document) == document.health # "torn" /\ document.version =< 1
Coherent(document) == document.default # None => Has(document, document.default)
Parses(document) ==
  /\ Readable(document) /\ document.health = "fine"
  /\ Coherent(document)

\* A document without a version is brought to version 1.
Migrated(document) == [document EXCEPT !.version = IF @ = 0 THEN 1 ELSE @]

\* A missing file is an empty document.
Read == IF file = None THEN Blank ELSE file

Mode(document) ==
  CASE document.mode # None -> document.mode
    [] document.mode = None /\ document.relay -> "universal"
    [] OTHER -> "fast"

\* Where the next send goes when it is not told (resolve_send_target).
Route(document) ==
  CASE Mode(document) = "universal" -> "relay"
    [] Mode(document) = "fast" /\ document.default # None -> document.default
    [] OTHER -> "undecided"

-----------------------------------------------------------------------------
(* The next document. A Config has no place for keys it does not know, so   *)
(* rendering one leaves them out; an edit of the document keeps them.       *)

Rendered_NoRelay(document) == [document EXCEPT !.version = 1, !.odd = FALSE, !.relay = FALSE]
Rendered(document) == [document EXCEPT !.version = 1, !.odd = FALSE]

WithTarget(document, n, entry) ==
  [document EXCEPT !.targets[n] = entry, !.default = IF @ = None THEN n ELSE @]

Without_Default(document, n) == [document EXCEPT !.targets[n] = None]
Without(document, n) ==
  [document EXCEPT !.targets[n] = None, !.default = IF @ = n THEN None ELSE @]

Renamed(document, n, to) ==
  IF n = to THEN document
  ELSE [document EXCEPT !.targets[n] = None, !.targets[to] = document.targets[n],
                        !.default = IF @ = n THEN to ELSE @]

\* Refused by the use case: the name is taken, or it is not there.
Refuses(command, document) ==
  \/ command.kind = "add" /\ Has(document, command.name)
  \/ command.kind \in {"use", "rename", "remove"} /\ ~Has(document, command.name)
  \/ command.kind = "rename" /\ command.to # command.name /\ Has(document, command.to)

Outcome(command, document) ==
  CASE command.kind = "add" -> WithTarget(document, command.name, "named")
    [] command.kind = "setup" -> WithTarget(document, command.name, "checked")
    [] command.kind = "use" -> [document EXCEPT !.default = command.name]
    [] command.kind = "remove" -> Without(document, command.name)
    [] command.kind = "rename" -> Renamed(document, command.name, command.to)

\* What one key of `config set` may make of a document: any value in its
\* place, one that parse will refuse included.
Edited(document) ==
  {[document EXCEPT !.mode = mode] : mode \in {"fast", "universal"}}
  \cup {[document EXCEPT !.relay = relay] : relay \in BOOLEAN}
  \cup {[document EXCEPT !.default = n] : n \in Names}
  \cup {[document EXCEPT !.targets[n] = IF @ = None THEN "named" ELSE @] : n \in Names}
  \cup {[document EXCEPT !.health = health] : health \in {"fine", "wrong"}}

\* What a write-back puts on the disk.
Taken == {s \in Slots : slots[s] # None}
Directory == [file |-> file, taken |-> Taken]

\* A temporary file that no TempFile stands for: its mode could not be set, so
\* there never was one, or its removal failed, or it was there after a power loss.
Stray == [of |-> None, holds |-> Torn, synced |-> FALSE]

Temporary(p, document, synced) == [of |-> p, holds |-> document, synced |-> synced]

Init ==
  /\ \/ file = None
     \/ \E v \in {0, 1, 2}, r \in BOOLEAN, o \in BOOLEAN, h \in {"fine", "wrong"},
           known \in SUBSET Names, d \in Names \cup {None} :
          file = [Blank EXCEPT !.version = v, !.relay = r, !.odd = o, !.health = h,
                               !.targets = [n \in Names |-> IF n \in known THEN "checked" ELSE None],
                               !.default = d]
  /\ settled = TRUE
  /\ folder \in BOOLEAN /\ (file # None => folder)
  /\ slots = [s \in Slots |-> None]
  /\ before = Directory
  /\ pc = [p \in Processes |-> "idle"]
  /\ op = [p \in Processes |-> [kind |-> "set"]]
  /\ base = [p \in Processes |-> Blank]
  /\ next = [p \in Processes |-> Blank]

TypeOK ==
  /\ {file, before.file} \subseteq Documents \cup {None}
  /\ settled \in BOOLEAN /\ folder \in BOOLEAN
  /\ before.taken \subseteq Slots
  /\ slots \in [Slots -> {None} \cup [of : Processes \cup {None}, holds : Documents,
                                     synced : BOOLEAN]]
  /\ pc \in [Processes -> {"idle", "asking", "checking", "saving", "creating", "writing",
                           "renaming", "removing", "done", "failed", "killed"}]
  /\ op \in [Processes -> Commands]
  /\ base \in [Processes -> Documents] /\ next \in [Processes -> Documents]

-----------------------------------------------------------------------------
Goes(p, place) == pc' = [pc EXCEPT ![p] = place]

Reads(p, command) ==
  /\ pc[p] = "idle"
  /\ op' = [op EXCEPT ![p] = command]
  /\ base' = [base EXCEPT ![p] = Read]
  /\ UNCHANGED disk

\* clift target ...
Target(p, command) ==
  /\ command.kind \in {"add", "use", "rename", "remove"}
  /\ Reads(p, command)
  /\ IF Parses(Read) /\ ~Refuses(command, Read)
     THEN /\ next' = [next EXCEPT ![p] = Rendered(Outcome(command, Read))]
          /\ Goes(p, "saving")
     ELSE UNCHANGED next /\ Goes(p, "failed")

\* clift setup <host>: read before anything is asked or connected.
Setup(p, n) ==
  /\ Reads(p, [kind |-> "setup", name |-> n])
  /\ Goes(p, IF Parses(Read) THEN "asking" ELSE "failed")
  /\ UNCHANGED next

\* Each of the four checks can fail, and nothing is written then.
Checked(p) ==
  /\ pc[p] = "checking"
  /\ \/ Goes(p, "failed") /\ UNCHANGED next
     \/ /\ next' = [next EXCEPT ![p] = Rendered(Outcome(op[p], base[p]))]
        /\ Goes(p, "saving")
  /\ UNCHANGED <<disk, op, base>>

\* clift config set, and the relay and the combination that the first-time
\* setup saves: the edited document must parse.
Validated_Not(document) == TRUE
Validated(document) == Parses(document)

Set(p) ==
  /\ Reads(p, [kind |-> "set"])
  /\ \/ /\ Readable(Read)
        /\ \E document \in Edited(Migrated(Read)) :
             /\ Validated(document)
             /\ next' = [next EXCEPT ![p] = document]
        /\ Goes(p, "saving")
     \/ UNCHANGED next /\ Goes(p, "failed")

\* clift uninstall --purge: a file that does not parse may be removed too.
\* Whether there is one is looked up once.
Purge(p) ==
  /\ Reads(p, [kind |-> "purge"])
  /\ Goes(p, IF file = None THEN "done" ELSE "asking")
  /\ UNCHANGED next

Confirmed(p) ==
  /\ pc[p] = "asking"
  /\ \/ Goes(p, IF op[p].kind = "purge" THEN "removing" ELSE "checking")
     \/ Goes(p, "failed")
  /\ UNCHANGED <<disk, op, base, next>>

\* The directory goes along when nothing else is in it.
Remove(p) ==
  /\ pc[p] = "removing"
  /\ \/ Goes(p, "failed") /\ UNCHANGED disk
     \/ /\ file # None
        /\ file' = None /\ settled' = TRUE
        /\ folder' = (Taken # {})
        /\ Goes(p, "done")
        /\ UNCHANGED <<slots, before>>
  /\ UNCHANGED <<op, base, next>>

-----------------------------------------------------------------------------
(* save_source.                                                             *)

EnsureDirectory(p) ==
  /\ pc[p] = "saving"
  /\ \/ folder' = TRUE /\ Goes(p, "creating")
     \/ UNCHANGED folder /\ Goes(p, "failed")
  /\ UNCHANGED <<file, settled, before, slots, op, base, next>>

\* create_new on one name after the other, and the mode once more.
CreateBeside(p) ==
  /\ pc[p] = "creating"
  /\ \/ /\ folder
        /\ \E s \in Slots :
             /\ slots[s] = None
             /\ \/ /\ slots' = [slots EXCEPT ![s] = Temporary(p, Torn, FALSE)]
                   /\ Goes(p, "writing")
                \/ /\ slots' = [slots EXCEPT ![s] = Stray]
                   /\ Goes(p, "failed")
     \/ UNCHANGED slots /\ Goes(p, "failed")
  /\ UNCHANGED <<file, settled, before, folder, op, base, next>>

\* p has a TempFile for the file at s.
Of(p, s) == slots[s] # None /\ slots[s].of = p

\* TempFile is dropped: what becomes of the slots. A remove_file that fails is
\* ignored.
Drop_Not(s) == {slots}
Drop(s) == {[slots EXCEPT ![s] = left] : left \in {None, Stray}}

WriteAll_NoSync(p, s) == Temporary(p, next[p], FALSE)
WriteAll(p, s) == Temporary(p, next[p], TRUE)

Write(p) ==
  /\ pc[p] = "writing"
  /\ \E s \in Slots :
       /\ Of(p, s)
       /\ \/ slots' = [slots EXCEPT ![s] = WriteAll(p, s)] /\ Goes(p, "renaming")
          \/ slots' \in Drop(s) /\ Goes(p, "failed")
  /\ UNCHANGED <<file, settled, before, folder, op, base, next>>

Persist(p, s) ==
  /\ pc[p] = "renaming" /\ Of(p, s)
  /\ file' = slots[s].holds /\ settled' = slots[s].synced
  /\ slots' = [slots EXCEPT ![s] = None]
  /\ Goes(p, "done")
  /\ UNCHANGED <<before, folder, op, base, next>>

NotRenamed(p, s) ==
  /\ pc[p] = "renaming" /\ Of(p, s)
  /\ slots' \in Drop(s) /\ Goes(p, "failed")
  /\ UNCHANGED <<file, settled, before, folder, op, base, next>>

-----------------------------------------------------------------------------
Running(p) == pc[p] \notin {"idle", "done", "failed", "killed"}

Kill(p) ==
  /\ Running(p) /\ Goes(p, "killed")
  /\ UNCHANGED <<disk, op, base, next>>

\* Nobody syncs the directory, so what changed in it since it was last written may
\* be undone, renames included, whose temporary files are back then; and contents
\* that were never synced may be lost. What is there afterwards is on the disk.
PowerLoss ==
  /\ \E p \in Processes : pc[p] # "idle"
  /\ \E directory \in {[Directory EXCEPT !.file = IF settled THEN @ ELSE Torn], before} :
       /\ file' = directory.file
       /\ slots' = [s \in Slots |-> IF s \in directory.taken THEN Stray ELSE None]
  /\ settled' = TRUE /\ before' = Directory'
  /\ folder' = (folder \/ file' # None \/ Taken' # {})
  /\ pc' = [p \in Processes |-> IF Running(p) THEN "killed" ELSE pc[p]]
  /\ UNCHANGED <<op, base, next>>

\* The file system writes back on its own.
Settle ==
  /\ before # Directory /\ settled
  /\ before' = Directory
  /\ UNCHANGED <<file, settled, folder, slots, process>>

Command(p) ==
  \/ \E command \in Commands : Target(p, command)
  \/ \E n \in Names : Setup(p, n)
  \/ Set(p) \/ Purge(p)

Save(p) ==
  \/ EnsureDirectory(p) \/ CreateBeside(p) \/ Write(p)
  \/ \E s \in Slots : Persist(p, s) \/ NotRenamed(p, s)

Next ==
  \/ \E p \in Processes : Command(p) \/ Confirmed(p) \/ Checked(p) \/ Remove(p) \/ Save(p) \/ Kill(p)
  \/ PowerLoss \/ Settle

Spec == Init /\ [][Next]_vars

-----------------------------------------------------------------------------
\* A file that Clift can load stays one, whatever commands run at once, fail,
\* are killed or lose power (io.rs:5, "a crash part way through must never
\* leave the user with a truncated config").
Usable(document) == document = None \/ Parses(document)
NeverUnreadable == [][Usable(file) /\ Usable(before.file) => Usable(file')]_vars

\* What the command of p was asked to make of the route.
Asked(p) ==
  CASE op[p].kind \in {"use", "add", "setup"} -> {op[p].name}
    [] op[p].kind = "remove" -> {"undecided"}
    [] op[p].kind = "rename" -> {op[p].to}
    [] OTHER -> Names \cup {"relay", "undecided"}

\* A command that found the file as it still is changes where the next send
\* goes only to where it was asked to: a relay is not dropped, no other target
\* is promoted and a second setup does not steal the default (io.rs, render;
\* mod.rs, without_target; setup.rs, prepare_target).
Stolen(p) == op[p].kind \in {"add", "setup"} /\ file.default # None
RouteKept ==
  [][\A p \in Processes, s \in Slots :
       Persist(p, s) /\ file # None /\ file = base[p] /\ Parses(file) =>
         \/ Route(file') = Route(file)
         \/ Route(file') \in Asked(p) /\ ~Stolen(p)]_vars

\* No save that fails half way leaves its temporary file: one that a TempFile
\* stands for is being written, or its process was killed. The others could not be
\* removed, never had a TempFile, or are back after a power loss.
NoLitter ==
  \A s \in Slots :
    slots[s] \notin {None, Stray} => pc[slots[s].of] \in {"writing", "renaming", "killed"}

\* The first host set up becomes the default, later ones do not silently steal
\* it (setup.rs:140).
DefaultNotStolen ==
  [][\A p \in Processes, s \in Slots :
       Persist(p, s) /\ op[p].kind = "setup" /\ file # None /\ file.default # None =>
         file'.default = file.default]_vars

=============================================================================
