------------------------------- MODULE Helper -------------------------------
(***************************************************************************)
(* The hotkey helper: how the first-time setup, `clift hotkey` and `clift   *)
(* uninstall` register, start and stop it (first_run.rs, cmd/hotkey.rs,     *)
(* clift-inject/src/autostart.rs), and how it waits for its key             *)
(* (clift-inject/src/hotkey.rs). On macOS launchd owns the process; on      *)
(* Windows a named event is all there is to find and stop it by.            *)
(***************************************************************************)
EXTENDS Naturals, FiniteSets

CONSTANTS Helpers,     \* processes that may run `clift hotkey`
          Combinations,
          MaxPresses,  \* presses of the key that are explored
          Unread

ASSUME HelperAssumption == MaxPresses \in Nat /\ Unread \notin Combinations

VARIABLES
  system,      \* "macos" or "windows"
  taken,       \* combinations another program has registered
  configured,  \* hotkey.combination, or the default
  definition,  \* the login entry exists
  loaded,      \* launchd has the job
  state,       \* per helper: where it is
  login,       \* per helper: started by the login entry, not from a terminal
  combination, \* per helper: what it read from the file
  stop,        \* the stop event is set
  queue,       \* per helper: presses in its queue
  fresh,       \* per helper: input has arrived since it last looked
  presses,     \* presses so far
  command,     \* what the user has asked for, and how far it is
  word,        \* what the user was last told, while nothing has changed since
  late         \* helpers that were only starting when the running one was looked for

entry == <<configured, definition, loaded>>
helper == <<state, login, combination, late>>
input == <<queue, fresh, presses>>
helperVars == <<system, taken, entry, helper, stop, input, command, word>>

States == {"none", "starting", "read", "owner", "waiting", "draining", "pressing"}
Registered == {"waiting", "draining", "pressing"}
Commands == {"idle", "defining", "replacing", "stopping", "spawning", "watching",
             "removing", "deleting"}

HelperTypeOK ==
  /\ system \in {"macos", "windows"} /\ taken \subseteq Combinations
  /\ configured \in Combinations /\ {definition, loaded, stop} \subseteq BOOLEAN
  /\ state \in [Helpers -> States] /\ login \in [Helpers -> BOOLEAN]
  /\ combination \in [Helpers -> Combinations \cup {Unread}]
  /\ queue \in [Helpers -> 0..MaxPresses] /\ fresh \in [Helpers -> BOOLEAN]
  /\ presses \in 0..MaxPresses /\ command \in Commands
  /\ word \in {"nothing", "running", "removed"} /\ late \subseteq Helpers

HelperInit ==
  /\ system \in {"macos", "windows"} /\ taken \in SUBSET Combinations
  /\ configured \in Combinations
  /\ definition = FALSE /\ loaded = FALSE /\ stop = FALSE
  /\ state = [h \in Helpers |-> "none"]
  /\ login = [h \in Helpers |-> FALSE]
  /\ combination = [h \in Helpers |-> Unread]
  /\ queue = [h \in Helpers |-> 0]
  /\ fresh = [h \in Helpers |-> FALSE]
  /\ presses = 0 /\ command = "idle" /\ word = "nothing" /\ late = {}

Alive(h) == state[h] # "none"
OnItsWay(h) == state[h] \in {"starting", "read"}

\* The event exists for as long as a helper has it open, and is set for as
\* long as it exists.
EventExists ==
  system = "windows" /\ \E h \in Helpers : state[h] = "owner" \/ state[h] \in Registered

-----------------------------------------------------------------------------
(* Processes that start and end.                                            *)

Starts(h, atLogin) ==
  /\ state[h] = "none"
  /\ state' = [state EXCEPT ![h] = "starting"]
  /\ login' = [login EXCEPT ![h] = atLogin]
  /\ UNCHANGED <<combination, late>>

\* The operating system gives up the registration, the queue and the handles
\* of processes that are gone.
Stops(gone) ==
  /\ state' = [h \in Helpers |-> IF h \in gone THEN "none" ELSE state[h]]
  /\ combination' = [h \in Helpers |-> IF h \in gone THEN Unread ELSE combination[h]]
  /\ login' = [h \in Helpers |-> IF h \in gone THEN FALSE ELSE login[h]]
  /\ queue' = [h \in Helpers |-> IF h \in gone THEN 0 ELSE queue[h]]
  /\ fresh' = [h \in Helpers |-> IF h \in gone THEN FALSE ELSE fresh[h]]
  /\ stop' = (stop /\ \E h \in Helpers \ gone : state[h] = "owner" \/ state[h] \in Registered)
  /\ late' = late \ gone
  /\ UNCHANGED presses

HelperEnds(h) == Alive(h) /\ Stops({h})

\* launchd starts what it has loaded and what has ended (KeepAlive).
KeepAlive(h) ==
  /\ loaded /\ \A other \in Helpers : ~(Alive(other) /\ login[other])
  /\ Starts(h, TRUE)
  /\ UNCHANGED <<system, taken, entry, stop, input, command, word>>

Login(h) ==
  /\ definition /\ system = "windows" /\ \A other \in Helpers : ~Alive(other)
  /\ command = "idle"
  /\ Starts(h, TRUE) /\ word' = "nothing"
  /\ UNCHANGED <<system, taken, entry, stop, input, command>>

Logout ==
  /\ command = "idle" /\ \E h \in Helpers : Alive(h)
  /\ Stops(Helpers)
  /\ loaded' = (definition /\ system = "macos")
  /\ word' = IF loaded' THEN "nothing" ELSE word
  /\ UNCHANGED <<system, taken, configured, definition, command>>

\* `clift hotkey` in a terminal.
Foreground(h) ==
  /\ command = "idle" /\ Starts(h, FALSE) /\ word' = "nothing"
  /\ UNCHANGED <<system, taken, entry, stop, input, command>>

\* Ctrl+C, a crash, an event queue that stops answering.
HelperDies(h) == HelperEnds(h) /\ UNCHANGED <<system, taken, entry, command, word>>

-----------------------------------------------------------------------------
(* The helper itself (cmd/hotkey.rs and hotkey.rs, listen).                 *)

Moves(h, place) == state' = [state EXCEPT ![h] = place] /\ UNCHANGED <<login, late>>

ReadFile(h) ==
  /\ state[h] = "starting"
  /\ Moves(h, "read")
  /\ combination' = [combination EXCEPT ![h] = configured]
  /\ UNCHANGED <<system, taken, entry, stop, input, command, word>>

\* CreateEventW: a second helper gives up here.
CreateEvent(h) ==
  /\ system = "windows" /\ state[h] = "read"
  /\ IF EventExists THEN HelperEnds(h)
     ELSE Moves(h, "owner") /\ UNCHANGED <<combination, stop, input>>
  /\ UNCHANGED <<system, taken, entry, command, word>>

Free(h) ==
  /\ combination[h] \notin taken
  /\ \A other \in Helpers \ {h} : state[other] \in Registered => combination[other] # combination[h]

Register(h) ==
  /\ state[h] = IF system = "windows" THEN "owner" ELSE "read"
  /\ IF Free(h) THEN Moves(h, "waiting") /\ UNCHANGED <<combination, stop, input>>
     ELSE HelperEnds(h)
  /\ UNCHANGED <<system, taken, entry, command, word>>

Press(h) ==
  /\ state[h] \in Registered /\ presses < MaxPresses
  /\ queue' = [queue EXCEPT ![h] = @ + 1]
  /\ fresh' = [fresh EXCEPT ![h] = TRUE]
  /\ presses' = presses + 1
  /\ UNCHANGED <<system, taken, entry, helper, stop, command, word>>

\* MsgWaitForMultipleObjects: the event first, then input that is new.
SeesStop(h) ==
  /\ system = "windows" /\ state[h] = "waiting" /\ stop
  /\ HelperEnds(h)
  /\ UNCHANGED <<system, taken, entry, command, word>>

Wakes(h) ==
  /\ state[h] = "waiting" /\ fresh[h] /\ ~stop
  /\ Moves(h, "draining")
  /\ UNCHANGED <<system, taken, entry, combination, stop, input, command, word>>

\* PeekMessageW takes one message and looks at the queue: nothing in it is
\* new any more. ReceiveNextEvent takes one event and returns at once while
\* there is another.
Takes(h) ==
  /\ state[h] = "draining" /\ queue[h] > 0
  /\ Moves(h, "pressing")
  /\ queue' = [queue EXCEPT ![h] = @ - 1]
  /\ fresh' = [fresh EXCEPT ![h] = FALSE]
  /\ UNCHANGED <<system, taken, entry, combination, presses, stop, command, word>>

\* on_press returns; whatever is left in the queue is next.
AfterPress_Wait(h) == "waiting"
AfterPress(h) == "draining"

PressDone(h) ==
  /\ state[h] = "pressing"
  /\ Moves(h, AfterPress(h))
  /\ UNCHANGED <<system, taken, entry, combination, input, stop, command, word>>

Drained(h) ==
  /\ state[h] = "draining" /\ queue[h] = 0
  /\ Moves(h, "waiting")
  /\ fresh' = [fresh EXCEPT ![h] = FALSE]
  /\ UNCHANGED <<system, taken, entry, combination, queue, presses, stop, command, word>>

-----------------------------------------------------------------------------
(* Commands, one at a time.                                                 *)

CommandGoes(place) == command' = place

\* clift config set hotkey.combination, or the first-time setup, which saves
\* the combination before it registers the entry that reads it.
Save(c) ==
  /\ command = "idle" /\ c # configured
  /\ configured' = c
  /\ \/ CommandGoes("idle") \/ CommandGoes("defining")
  /\ word' = "nothing"
  /\ UNCHANGED <<system, taken, definition, loaded, helper, stop, input>>

BeginInstall ==
  /\ command = "idle" /\ CommandGoes("defining") /\ word' = "nothing"
  /\ UNCHANGED <<system, taken, entry, helper, stop, input>>

CommandFails(place) ==
  /\ command = place /\ CommandGoes("idle")
  /\ UNCHANGED <<system, taken, entry, helper, stop, input, word>>

\* The file is written whole and moved into place.
Define ==
  /\ command = "defining"
  /\ definition' = TRUE
  /\ CommandGoes("replacing")
  /\ UNCHANGED <<system, taken, configured, loaded, helper, stop, input, word>>

LoginHelpers == {h \in Helpers : Alive(h) /\ login[h]}

\* launchctl bootout. Whether it failed is not looked at.
Unloaded ==
  \/ loaded' = FALSE /\ Stops(LoginHelpers)
  \/ UNCHANGED <<loaded, helper, stop, input>>

Bootout ==
  /\ system = "macos" /\ command = "replacing"
  /\ Unloaded
  /\ CommandGoes("spawning")
  /\ UNCHANGED <<system, taken, configured, definition, word>>

\* launchd refuses a label it still has. The helper starts from what is loaded
\* then (KeepAlive).
Bootstrap ==
  /\ system = "macos" /\ command = "spawning" /\ ~loaded
  /\ loaded' = TRUE /\ word' = "running"
  /\ CommandGoes("idle")
  /\ UNCHANGED <<system, taken, configured, definition, helper, stop, input>>

\* stop_running_helper. A helper that is only starting has no event to be found
\* by, and comes too late to be stopped.
SetStop_Not == FALSE
SetStop == EventExists

StopOld ==
  /\ system = "windows" /\ command = "replacing"
  /\ stop' = (stop \/ SetStop)
  /\ CommandGoes(IF EventExists THEN "stopping" ELSE "spawning")
  /\ late' = {h \in Helpers : OnItsWay(h)}
  /\ UNCHANGED <<system, taken, entry, state, login, combination, input, word>>

Stopped_Unseen == TRUE
Stopped == ~EventExists

OldStopped ==
  /\ command = "stopping" /\ Stopped
  /\ CommandGoes("spawning")
  /\ UNCHANGED <<system, taken, entry, helper, stop, input, word>>

Spawn(h) ==
  /\ system = "windows" /\ command = "spawning"
  /\ Starts(h, TRUE)
  /\ CommandGoes("watching")
  /\ UNCHANGED <<system, taken, entry, stop, input, word>>

Seen ==
  /\ command = "watching" /\ EventExists
  /\ CommandGoes("idle")
  /\ word' = "running"
  /\ UNCHANGED <<system, taken, entry, helper, stop, input>>

NotSeen ==
  /\ command = "watching" /\ CommandGoes("idle") /\ word' = "nothing"
  /\ UNCHANGED <<system, taken, entry, helper, stop, input>>

\* clift hotkey --uninstall, and `clift uninstall` where there is an entry.
BeginUninstall ==
  /\ command = "idle" /\ CommandGoes("removing") /\ word' = "nothing"
  /\ UNCHANGED <<system, taken, entry, helper, stop, input>>

NothingInstalled ==
  /\ system = "macos" /\ command = "removing" /\ ~definition
  /\ CommandGoes("idle")
  /\ UNCHANGED <<system, taken, entry, helper, stop, input, word>>

\* Where the user's id cannot be found, launchd is not even asked.
Unload ==
  /\ system = "macos" /\ command = "removing" /\ definition
  /\ Unloaded
  /\ CommandGoes("deleting")
  /\ UNCHANGED <<system, taken, configured, definition, word>>

StopFirst ==
  /\ system = "windows" /\ command = "removing"
  /\ stop' = (stop \/ SetStop)
  /\ CommandGoes("deleting")
  /\ late' = {h \in Helpers : OnItsWay(h)}
  /\ UNCHANGED <<system, taken, entry, state, login, combination, input, word>>

Delete ==
  /\ command = "deleting"
  /\ definition' = FALSE
  /\ CommandGoes("idle")
  /\ word' = IF definition THEN "removed" ELSE word
  /\ UNCHANGED <<system, taken, configured, loaded, helper, stop, input>>

-----------------------------------------------------------------------------
Lives(h) == KeepAlive(h) \/ Login(h) \/ Foreground(h) \/ HelperDies(h) \/ Press(h)
Works(h) ==
  \/ ReadFile(h) \/ CreateEvent(h) \/ Register(h)
  \/ SeesStop(h) \/ Wakes(h) \/ Takes(h) \/ PressDone(h) \/ Drained(h)
Asks == (\E c \in Combinations : Save(c)) \/ BeginInstall \/ BeginUninstall
Runs ==
  \/ Define \/ Bootout \/ Bootstrap \/ StopOld \/ OldStopped \/ (\E h \in Helpers : Spawn(h))
  \/ Seen \/ NotSeen \/ NothingInstalled \/ Unload \/ StopFirst \/ Delete
  \/ \E place \in {"defining", "replacing", "spawning", "stopping", "deleting"} : CommandFails(place)

HelperNext == (\E h \in Helpers : Lives(h) \/ Works(h)) \/ Logout \/ Asks \/ Runs

\* A press ends (every wait in it has a limit) and a started helper gets on.
HelperSpec == HelperInit /\ [][HelperNext]_helperVars /\ \A h \in Helpers : WF_helperVars(Works(h))

-----------------------------------------------------------------------------
\* After `running now`, the helper that the login entry started listens for
\* the combination in the file: not for the one it replaced. Excepted is a helper
\* that came too late to be replaced.
RunsAsSaid ==
  word = "running" =>
    \A h \in Helpers \ late :
      login[h] /\ combination[h] # Unread => combination[h] = configured

\* The helper never sleeps on a press that is in its queue (hotkey.rs, "a
\* message left behind here would be waited on forever").
NeverAsleep == \A h \in Helpers : state[h] = "waiting" /\ queue[h] > 0 => fresh[h]

\* Once the user was told that it is removed, every helper of a login entry that
\* could be found stops, in the middle of a press or not (hotkey.rs, the stop
\* event). What keeps running is what launchd would not let go of, and a helper
\* that was only starting.
GoneAsSaid ==
  <>[](word = "removed" /\ command = "idle") => <>[](loaded \/ LoginHelpers \subseteq late)

\* Does not hold: once the user was told so, no helper of a login entry keeps
\* running (uninstall.rs, "the helper it started is stopped").
StoppedAsSaid == <>[](word = "removed" /\ command = "idle") => <>[](LoginHelpers = {})

\* Only a helper that is listening counts as running (autostart.rs, "the
\* helper owns a named event once it is listening").
ClaimIsTrue ==
  [][system = "windows" /\ word' = "running" /\ word # "running" =>
       \E h \in Helpers : state[h] \in Registered]_helperVars

=============================================================================
