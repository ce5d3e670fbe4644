---------------------------- MODULE SessionPool ----------------------------
(***************************************************************************)
(* The sessions an SshRunner keeps (clift-transport/src/proc.rs), as the    *)
(* hotkey helper uses them: one SFTP session per host behind one mutex,     *)
(* operations that put it to work, and the thread of cmd/hotkey.rs that     *)
(* closes what has been idle and checks what has been quiet.                *)
(*                                                                         *)
(* Time is relative: every record has the age the code computes from an     *)
(* Instant, cut off at the threshold it is compared with.                   *)
(***************************************************************************)
EXTENDS Naturals, FiniteSets

CONSTANTS Hosts, Threads,   \* hosts, and threads that hold a clone of the runner
          Edited,           \* hosts whose ssh configuration the user changes meanwhile
          Idle,             \* connection.persist, the idle limit
          Quiet,            \* QUIET_BEFORE_CHECK
          CheckLimit,       \* CHECK_LIMIT
          Timeout,          \* DEFAULT_TIMEOUT
          TendEvery,        \* TEND_EVERY
          Nothing

ASSUME SessionPoolAssumption ==
  /\ Edited \subseteq Hosts
  /\ {Idle, Quiet, CheckLimit, Timeout, TendEvery} \subseteq Nat \ {0}
  /\ Nothing \notin Hosts \cup Threads \cup {"tender"} /\ "tender" \notin Threads
  /\ IsFiniteSet(Hosts) /\ Hosts \cap {"sleeping", "waiting", "passing"} = {}

VARIABLES
  kept,       \* sessions: per host Nothing or a Kept
  answered,   \* cache_homes: hosts with a Remembered younger than the limit
  configured, \* hosts whose ControlMaster or ControlPath the user has set
  consulted,  \* consulted: per host, may Clift add its own options?
  lock,       \* who holds the mutex of sessions: Nothing, a thread, or "tender"
  phase,      \* per thread, where its operation is
  host,       \* per thread, the host of its operation
  left,       \* per thread, what is left of the limit of this phase
  tending,    \* the tending thread: sleeping, waiting or its pass
  due,        \* hosts of this pass not yet looked at
  timer,      \* its sleep, or the limit of its check
  gone        \* per host, how long its kept link has been dead and the lock free

threads == <<phase, host, left>>
tender == <<tending, due, timer>>
optionVars == <<configured, consulted>>
poolVars == <<kept, answered, optionVars, lock, threads, tender, gone>>

Links == {"up", "severed", "exited"}
Choices == {"unknown", "add", "leave"}
Sessions == [link : Links, idle : 0..Idle, quiet : 0..Quiet, options : Choices]

ASSUME NothingAssumption == Nothing \notin Sessions

\* The longest a pass can take, and the longest a dead link goes unnoticed: a
\* pass that comes just too early for it and checks all others, one sleep, and
\* the pass that checks it last.
PassAtMost == Cardinality(Hosts) * CheckLimit
DeadAtMost == (Quiet - 1) + (PassAtMost - CheckLimit) + TendEvery + PassAtMost

Older(age, limit) == IF age < limit THEN age + 1 ELSE limit
Kept(link, options) == [link |-> link, idle |-> 0, quiet |-> 0, options |-> options]

PoolTypeOK ==
  /\ kept \in [Hosts -> Sessions \cup {Nothing}]
  /\ answered \subseteq Hosts
  /\ configured \subseteq Hosts
  /\ consulted \in [Hosts -> Choices]
  /\ lock \in Threads \cup {"tender", Nothing}
  /\ phase \in [Threads -> {"idle", "asking", "waiting", "opening", "acting"}]
  /\ host \in [Threads -> Hosts \cup {Nothing}]
  /\ left \in [Threads -> 0..Timeout]
  /\ tending \in {"sleeping", "waiting", "passing"} \cup Hosts
  /\ due \in [Hosts -> {"no", "expired", "recent", "quiet"}]
  /\ timer \in 0..(TendEvery + CheckLimit)
  /\ gone \in [Hosts -> 0..(DeadAtMost + 1)]

PoolInit ==
  /\ kept = [h \in Hosts |-> Nothing]
  /\ answered = {}
  /\ configured \in SUBSET Edited
  /\ consulted = [h \in Hosts |-> "unknown"]
  /\ lock = Nothing
  /\ phase = [t \in Threads |-> "idle"]
  /\ host = [t \in Threads |-> Nothing]
  /\ left = [t \in Threads |-> 0]
  /\ tending = "sleeping"
  /\ due = [h \in Hosts |-> "no"]
  /\ timer = TendEvery
  /\ gone = [h \in Hosts |-> 0]

-----------------------------------------------------------------------------
(* The options of a connection (user_multiplexes, reuse_args): what the     *)
(* user has set is asked once per host and process, of ssh -G.              *)

\* multiplexes_already of what ssh -G prints now; an ssh -G that fails counts as
\* a setting that might be there.
Dump(h) == (IF h \in configured THEN {} ELSE {"add"}) \cup {"leave"}

\* The answers user_multiplexes may give now, and what it then remembers.
MayAdd(h) == IF consulted[h] = "unknown" THEN Dump(h) ELSE {consulted[h]}

Consults(h, choice) ==
  /\ choice \in MayAdd(h)
  /\ consulted' = [consulted EXCEPT ![h] = choice]
  /\ UNCHANGED configured

-----------------------------------------------------------------------------
(* An operation.                                                            *)

Advances(t, stage, limit) ==
  /\ phase' = [phase EXCEPT ![t] = stage]
  /\ left' = [left EXCEPT ![t] = limit]
  /\ host' = [host EXCEPT ![t] = IF stage = "idle" THEN Nothing ELSE @]

\* OpenSshTransport::resolve_cache_home with an answer that is fresh: the age
\* starts again.
RecallHome(t, h) ==
  /\ phase[t] = "idle" /\ h \in answered
  /\ UNCHANGED poolVars

\* ... and with none, or with one that has gone unused for the limit, which is
\* as good as none: ssh is asked, without the lock.
AskHome(t, h) ==
  /\ phase[t] = "idle" /\ h \notin answered
  /\ \E choice \in MayAdd(h) : Consults(h, choice)
  /\ host' = [host EXCEPT ![t] = h]
  /\ phase' = [phase EXCEPT ![t] = "asking"]
  /\ left' = [left EXCEPT ![t] = Timeout]
  /\ UNCHANGED <<kept, answered, lock, tender, gone>>

\* ssh ended by itself or was killed at the limit. printenv's status says
\* whether there is an answer to remember; a failure is never remembered.
HomeAnswered(t) ==
  /\ phase[t] = "asking"
  /\ \/ left[t] > 0 /\ answered' = answered \cup {host[t]}
     \/ UNCHANGED answered
  /\ Advances(t, "idle", 0)
  /\ UNCHANGED <<kept, optionVars, lock, tender, gone>>

\* SshRunner::sftp: the whole operation holds the mutex.
BeginOperation(t, h) ==
  /\ phase[t] = "idle"
  /\ phase' = [phase EXCEPT ![t] = "waiting"]
  /\ host' = [host EXCEPT ![t] = h]
  /\ UNCHANGED <<kept, answered, optionVars, lock, left, tender, gone>>

Usable(session) == session.idle < Idle /\ session.link # "exited"

UseKept(t) ==
  /\ phase[t] = "waiting" /\ lock = Nothing
  /\ kept[host[t]] # Nothing /\ Usable(kept[host[t]])
  /\ lock' = t
  /\ Advances(t, "acting", Timeout)
  /\ UNCHANGED <<kept, answered, optionVars, tender, gone>>

\* No session, or one past its limit or whose ssh has exited: open another.
\* The old one stays in the map until the new one is there.
Open(t) ==
  /\ phase[t] = "waiting" /\ lock = Nothing
  /\ kept[host[t]] # Nothing => ~Usable(kept[host[t]])
  /\ lock' = t
  /\ \E choice \in MayAdd(host[t]) : Consults(host[t], choice)
  /\ Advances(t, "opening", Timeout)
  /\ UNCHANGED <<kept, answered, tender, gone>>

SessionOpened(t) ==
  LET h == host[t] IN
  /\ phase[t] = "opening" /\ left[t] > 0
  /\ kept' = [kept EXCEPT ![h] = Kept("up", consulted[h])]
  /\ gone' = [gone EXCEPT ![h] = 0]
  /\ Advances(t, "acting", Timeout)
  /\ UNCHANGED <<answered, optionVars, lock, tender>>

OpenFailed(t) ==
  /\ phase[t] = "opening"
  /\ lock' = Nothing
  /\ Advances(t, "idle", 0)
  /\ UNCHANGED <<kept, answered, optionVars, tender, gone>>

\* The action returned anything but Broken: the session was put to work just
\* now. It stays, even when ssh has exited since.
Served(t) ==
  LET h == host[t] IN
  /\ phase[t] = "acting" /\ kept[h].link = "up" /\ left[t] > 0
  /\ kept' = [kept EXCEPT ![h] = [@ EXCEPT !.idle = 0, !.quiet = 0]]
  /\ lock' = Nothing
  /\ Advances(t, "idle", 0)
  /\ UNCHANGED <<answered, optionVars, tender, gone>>

\* The action returned Broken: ssh exited, or the limit passed.
Broke(t) ==
  LET h == host[t] IN
  /\ phase[t] = "acting" /\ (kept[h].link = "exited" \/ left[t] = 0)
  /\ kept' = [kept EXCEPT ![h] = Nothing]
  /\ gone' = [gone EXCEPT ![h] = 0]
  /\ lock' = Nothing
  /\ Advances(t, "idle", 0)
  /\ UNCHANGED <<answered, optionVars, tender>>

-----------------------------------------------------------------------------
(* SshRunner::tend_sessions, called by start_tending every TEND_EVERY.      *)

Wake ==
  /\ tending = "sleeping" /\ timer = 0
  /\ tending' = "waiting"
  /\ UNCHANGED <<kept, answered, optionVars, lock, threads, due, timer, gone>>

\* `now` is read once, so every session is judged by its age at this moment.
Judged(session) ==
  CASE session = Nothing -> "no"
    [] session # Nothing /\ session.idle = Idle -> "expired"
    [] session # Nothing /\ session.idle < Idle /\ session.quiet < Quiet -> "recent"
    [] OTHER -> "quiet"

\* Mutant: the map is looked through whoever works on its sessions
BeginPass_Unlocked ==
  /\ tending = "waiting"
  /\ lock' = "tender" /\ tending' = "passing"
  /\ due' = [h \in Hosts |-> Judged(kept[h])]
  /\ UNCHANGED <<kept, answered, optionVars, threads, timer, gone>>

BeginPass ==
  /\ tending = "waiting" /\ lock = Nothing
  /\ lock' = "tender" /\ tending' = "passing"
  /\ due' = [h \in Hosts |-> Judged(kept[h])]
  /\ UNCHANGED <<kept, answered, optionVars, threads, timer, gone>>

Retains(h) == due[h] # "expired" /\ kept[h].link # "exited"

\* Closed without a request, or kept without one.
Look(h) ==
  /\ tending = "passing" /\ due[h] # "no"
  /\ due[h] = "quiet" => ~Retains(h)
  /\ due' = [due EXCEPT ![h] = "no"]
  /\ IF Retains(h) THEN UNCHANGED <<kept, gone>>
     ELSE /\ kept' = [kept EXCEPT ![h] = Nothing]
          /\ gone' = [gone EXCEPT ![h] = 0]
  /\ UNCHANGED <<answered, optionVars, lock, threads, tending, timer>>

Check(h) ==
  /\ tending = "passing" /\ due[h] = "quiet" /\ Retains(h)
  /\ tending' = h /\ timer' = CheckLimit
  /\ UNCHANGED <<kept, answered, optionVars, lock, threads, due, gone>>

\* The answer to realpath(".") counts as a look, not as a use.
Checked_Used(session) == [session EXCEPT !.quiet = 0, !.idle = 0]
Checked(session) == [session EXCEPT !.quiet = 0]

Alive(h) ==
  /\ tending = h /\ kept[h].link = "up" /\ timer > 0
  /\ kept' = [kept EXCEPT ![h] = Checked(kept[h])]
  /\ tending' = "passing"
  /\ due' = [due EXCEPT ![h] = "no"]
  /\ UNCHANGED <<answered, optionVars, lock, threads, timer, gone>>

\* No answer within the limit, ssh exited, or the server refused.
NotAlive_Kept(h) == Checked(kept[h])
NotAlive(h) == Nothing

Dead(h) ==
  /\ tending = h
  /\ kept' = [kept EXCEPT ![h] = NotAlive(h)]
  /\ gone' = [gone EXCEPT ![h] = IF NotAlive(h) = Nothing THEN 0 ELSE gone[h]]
  /\ tending' = "passing"
  /\ due' = [due EXCEPT ![h] = "no"]
  /\ UNCHANGED <<answered, optionVars, lock, threads, timer>>

EndPass ==
  /\ tending = "passing" /\ \A h \in Hosts : due[h] = "no"
  /\ lock' = Nothing /\ tending' = "sleeping" /\ timer' = TendEvery
  /\ UNCHANGED <<kept, answered, optionVars, threads, due, gone>>

-----------------------------------------------------------------------------
(* The world: a middlebox drops a link without a word, ssh exits, and time  *)
(* passes. Nobody sleeps past a timer, and a free mutex is taken at once.   *)

Sever(h) ==
  /\ kept[h] # Nothing /\ kept[h].link = "up"
  /\ kept' = [kept EXCEPT ![h] = [@ EXCEPT !.link = "severed"]]
  /\ UNCHANGED <<answered, optionVars, lock, threads, tender, gone>>

Exit(h) ==
  /\ kept[h] # Nothing /\ kept[h].link # "exited"
  /\ kept' = [kept EXCEPT ![h] = [@ EXCEPT !.link = "exited"]]
  /\ UNCHANGED <<answered, optionVars, lock, threads, tender, gone>>

\* The user edits the configuration ssh reads.
Configure(h) ==
  /\ h \in Edited
  /\ \/ configured' = configured \cup {h}
     \/ configured' = configured \ {h}
  /\ UNCHANGED <<kept, answered, consulted, lock, threads, tender, gone>>

SomeoneReady ==
  \/ lock = Nothing /\ (tending = "waiting" \/ \E t \in Threads : phase[t] = "waiting")
  \/ tending = "passing"
  \/ tending \in {"sleeping"} \cup Hosts /\ timer = 0
  \/ \E t \in Threads : phase[t] \in {"asking", "opening", "acting"} /\ left[t] = 0

Aged(h) ==
  IF kept[h] = Nothing THEN Nothing
  ELSE [kept[h] EXCEPT !.idle = Older(@, Idle), !.quiet = Older(@, Quiet)]

Tick ==
  /\ ~SomeoneReady
  /\ kept' = [h \in Hosts |-> Aged(h)]
  /\ answered' \in SUBSET answered
  /\ left' = [t \in Threads |-> IF left[t] = 0 THEN 0 ELSE left[t] - 1]
  /\ timer' = IF timer = 0 THEN 0 ELSE timer - 1
  /\ gone' = [h \in Hosts |->
       IF kept[h] # Nothing /\ kept[h].link = "severed" /\ lock \notin Threads
       THEN Older(gone[h], DeadAtMost + 1) ELSE gone[h]]
  /\ UNCHANGED <<optionVars, lock, phase, host, tending, due>>

Start(t) == \E h \in Hosts : RecallHome(t, h) \/ AskHome(t, h) \/ BeginOperation(t, h)
Operation(t) ==
  \/ HomeAnswered(t) \/ UseKept(t) \/ Open(t) \/ SessionOpened(t) \/ OpenFailed(t)
  \/ Served(t) \/ Broke(t)
Tend == Wake \/ BeginPass \/ EndPass \/ \E h \in Hosts : Look(h) \/ Check(h) \/ Alive(h) \/ Dead(h)
World == \E h \in Hosts : Sever(h) \/ Exit(h) \/ Configure(h)

PoolNext == (\E t \in Threads : Start(t) \/ Operation(t)) \/ Tend \/ World \/ Tick

\* Threads are scheduled, the clock runs and a wait ends at its limit; nothing
\* says that a key is pressed or that a link dies.
PoolFairness ==
  WF_poolVars(Tick) /\ WF_poolVars(Tend) /\ \A t \in Threads : WF_poolVars(Operation(t))

PoolSpec == PoolInit /\ [][PoolNext]_poolVars /\ PoolFairness

-----------------------------------------------------------------------------
\* A kept link that died without ssh noticing is found by the tending thread
\* within a quiet period, a sleep and two passes, not counting the time in
\* which an operation has the lock: a press later than that never waits out
\* the whole timeout on it (proc.rs, tend_sessions).
FoundInTime == \A h \in Hosts : gone[h] =< DeadAtMost

\* The connection of a host that the user multiplexes never carries Clift's
\* options (reuse.rs, rule 2).  It does not hold of a process that outlives an
\* edit of the configuration, as the hotkey helper does: the answer it remembers
\* is not asked again (proc.rs:412).
UserLeftAlone ==
  \A h \in Hosts : kept[h] # Nothing /\ kept[h].options = "add" => h \notin configured

\* One operation at a time works on the sessions, and none is working without
\* a session in the map: what the tending thread drops is never in use.
NotUnderHand ==
  \A t \in Threads : phase[t] = "acting" => lock = t /\ kept[host[t]] # Nothing

\* Once nobody uses the runner any more, every session it keeps is closed: the
\* checks that keep a link alive do not count as use (with_idle_limit).
Unused == \A t \in Threads : phase[t] = "idle"
NothingKept == \A h \in Hosts : kept[h] = Nothing
ClosedWhenUnused == <>[]Unused => <>[]NothingKept

=============================================================================
