----------------------------- MODULE CloudRelay -----------------------------
(***************************************************************************)
(* The hosted relay, relay/cloudflare/src/index.ts: one Durable Object     *)
(* with a SQL table, an alarm and a table of request windows in memory.    *)
(*                                                                         *)
(* The object runs one event at a time and lets another in only where a    *)
(* handler awaits.  There are two such places, both in `publish`: while    *)
(* the body is read anything may run; while the storage is asked for the   *)
(* alarm, and told the new one, the platform delivers no event             *)
(* (`GateOpen`).  The object may be evicted or die at any moment; its      *)
(* table and its alarm outlive it, its memory does not.                    *)
(***************************************************************************)
EXTENDS RateLimit, FiniteSetsExt

CONSTANTS
  Requests,     \* uploads that may be under way at the same time
  Ids,          \* the 128-bit random ids that will be drawn, all different
  Sizes,        \* sizes of the bodies clients send
  Ttls,         \* lifetimes clients ask for, in ticks
  MaxObject,    \* per-object ceiling
  MaxTotal,     \* ceiling on what is held in total
  MaxTtl,       \* longest lifetime granted
  Horizon       \* bound of the model: the clock stops here

ASSUME CloudRelayAssumption ==
  /\ None \notin Nat /\ None \notin Ids
  /\ None \notin [size : Nat, expires : Nat]
  /\ Sizes \subseteq Nat \ {0}      \* an empty body is refused
  /\ Ttls \subseteq Nat
  /\ MaxTtl \in Nat \ {0}
  /\ MaxObject \in Nat /\ MaxTotal \in Nat
  /\ MaxObject <= MaxTotal          \* every request is refused otherwise
  /\ Horizon \in Nat

VARIABLES
  now,          \* Date.now()
  windows,      \* CliftRelay.windows, in memory
  rows,         \* the tables: [size, expires] or None for every id
  alarm,        \* when the platform will call alarm(), or None
  reading,      \* lifetime granted to each upload whose body is being read
  arming,       \* the id inserted whose alarm is being scheduled, or None
  told,         \* ids some client has been told
  drawn,        \* history: ids that have been inserted
  handed,       \* history: ids whose bytes have been handed to the platform
  cut           \* history: ids whose publish died with the alarm unscheduled

vars == <<now, windows, rows, alarm, reading, arming, told, drawn, handed, cut>>

Objects == [size : Nat, expires : Nat]

TypeOK ==
  /\ now \in Nat
  /\ windows \in Windows
  /\ rows \in [Ids -> Objects \cup {None}]
  /\ alarm \in Nat \cup {None}
  /\ reading \in [Requests -> Nat \cup {None}]
  /\ arming \in drawn \cup {None}
  /\ arming # None => rows[arming] # None
  /\ told \subseteq drawn
  /\ drawn \subseteq Ids
  /\ handed \subseteq drawn
  /\ cut \subseteq drawn

Init ==
  /\ now = 0
  /\ windows = [a \in Addresses |-> None]
  /\ rows = [id \in Ids |-> None]
  /\ alarm = None
  /\ reading = [r \in Requests |-> None]
  /\ arming = None
  /\ told = {}
  /\ drawn = {}
  /\ handed = {}
  /\ cut = {}

------------------------------------------------------------------------------
(* The tables *)

Present(objects) == {id \in Ids : objects[id] # None}

\* Every byte that is in the tables, with the id whose it is.
Bytes(objects) == UNION {{id} \X (1..objects[id].size) : id \in Present(objects)}

\* heldBytes
Total(objects) == Cardinality(Bytes(objects))

\* Mutant: an object in its last tick is taken for expired
Live_OneEarly == [id \in Ids |->
  IF rows[id] # None /\ rows[id].expires > now + 1 THEN rows[id] ELSE None]

\* dropExpired
Live == [id \in Ids |->
           IF rows[id] # None /\ rows[id].expires > now THEN rows[id] ELSE None]

Expiries(objects) == {objects[id].expires : id \in Present(objects)}

\* Mutant: other events are let in while the alarm is scheduled
GateOpen_Always == TRUE

\* The platform delivers no event while the storage works for the object.
GateOpen == arming = None

------------------------------------------------------------------------------
(* Every request *)

\* fetch: the window counts the request, then what has expired is dropped.
Admitted(a) ==
  /\ GateOpen
  /\ Allows(windows, a, now)
  /\ windows' = Recorded(windows, a, now)

\* 429, before anything is dropped.  The bound on the model is that a window
\* counts at most one of these.
TooManyRequests(a) ==
  /\ GateOpen
  /\ ~Allows(windows, a, now)
  /\ Current(windows, a, now).count <= PerMinute
  /\ windows' = Recorded(windows, a, now)
  /\ UNCHANGED <<now, rows, alarm, reading, arming, told, drawn, handed, cut>>

\* Health, an unknown endpoint, a malformed id, a ttl of zero or no number, a
\* declared length over the ceiling, a GET of an id that is not there
AnsweredAtOnce(a) ==
  /\ Admitted(a)
  /\ rows' = Live
  /\ UNCHANGED <<now, alarm, reading, arming, told, drawn, handed, cut>>

------------------------------------------------------------------------------
(* POST /v1/objects *)

GrantedTtl(ttl) == IF ttl < MaxTtl THEN ttl ELSE MaxTtl

StartPublish(r, a, ttl) ==
  /\ reading[r] = None
  /\ Admitted(a)
  /\ ttl > 0
  /\ rows' = Live
  /\ reading' = [reading EXCEPT ![r] = GrantedTtl(ttl)]
  /\ UNCHANGED <<now, alarm, arming, told, drawn, handed, cut>>

\* The body is over the ceiling or empty, the upload breaks off, or there is no
\* randomness to draw an id from.
BodyRefused(r) ==
  /\ reading[r] # None
  /\ GateOpen
  /\ reading' = [reading EXCEPT ![r] = None]
  /\ UNCHANGED <<now, windows, rows, alarm, arming, told, drawn, handed, cut>>

Fits(size) == size <= MaxObject /\ Total(Live) + size <= MaxTotal

\* Mutant: the room was looked at when the request came in
Insert_Unchecked(r, id, size) ==
  /\ reading[r] # None
  /\ GateOpen
  /\ id \notin drawn
  /\ size <= MaxObject
  /\ now + reading[r] <= Horizon
  /\ rows' = [Live EXCEPT ![id] = [size |-> size, expires |-> now + reading[r]]]
  /\ arming' = id
  /\ drawn' = drawn \cup {id}
  /\ reading' = [reading EXCEPT ![r] = None]
  /\ UNCHANGED <<now, windows, alarm, told, handed, cut>>

\* The row and its chunks are inserted; nothing is awaited since the room for
\* them was looked at.  The horizon is a bound of the model: every deadline is
\* one the clock reaches.
Insert(r, id, size) ==
  /\ reading[r] # None
  /\ GateOpen
  /\ id \notin drawn
  /\ Fits(size)
  /\ now + reading[r] <= Horizon
  /\ rows' = [Live EXCEPT ![id] = [size |-> size, expires |-> now + reading[r]]]
  /\ arming' = id
  /\ drawn' = drawn \cup {id}
  /\ reading' = [reading EXCEPT ![r] = None]
  /\ UNCHANGED <<now, windows, alarm, told, handed, cut>>

\* 503, after dropping what has expired
Full(r, size) ==
  /\ reading[r] # None
  /\ GateOpen
  /\ size <= MaxObject
  /\ ~Fits(size)
  /\ rows' = Live
  /\ reading' = [reading EXCEPT ![r] = None]
  /\ UNCHANGED <<now, windows, alarm, arming, told, drawn, handed, cut>>

\* Mutant: the alarm is set if there is none, and never moved
Schedule_Once ==
  /\ arming # None
  /\ alarm' = IF alarm = None THEN rows[arming].expires ELSE alarm
  /\ told' \in {told, told \cup {arming}}
  /\ arming' = None
  /\ UNCHANGED <<now, windows, rows, reading, drawn, handed, cut>>

\* scheduleAlarm moves the alarm only to an earlier time; then the 201, which
\* reaches the publisher or is lost.
Schedule ==
  /\ arming # None
  /\ alarm' = IF alarm = None \/ rows[arming].expires < alarm
                THEN rows[arming].expires ELSE alarm
  /\ told' \in {told, told \cup {arming}}
  /\ arming' = None
  /\ UNCHANGED <<now, windows, rows, reading, drawn, handed, cut>>

------------------------------------------------------------------------------
(* GET and DELETE /v1/objects/<id> *)

\* Mutant: the bytes are read and the row stays
Retrieve_Kept(a, id) ==
  /\ id \in told
  /\ Admitted(a)
  /\ Live[id] # None
  /\ rows' = Live
  /\ handed' = handed \cup {id}
  /\ UNCHANGED <<now, alarm, reading, arming, told, drawn, cut>>

\* Read, then removed, nothing awaited.  Whether the client reads the response
\* is not known to the relay, and the object is gone in any case.
Retrieve(a, id) ==
  /\ id \in told
  /\ Admitted(a)
  /\ Live[id] # None
  /\ rows' = [Live EXCEPT ![id] = None]
  /\ handed' = handed \cup {id}
  /\ UNCHANGED <<now, alarm, reading, arming, told, drawn, cut>>

\* 204, whatever was there
Withdraw(a, id) ==
  /\ id \in told
  /\ Admitted(a)
  /\ rows' = [Live EXCEPT ![id] = None]
  /\ UNCHANGED <<now, alarm, reading, arming, told, drawn, handed, cut>>

------------------------------------------------------------------------------
(* The alarm, the clock, and the end of the object in memory *)

\* Mutant: the alarm is not set again for what is left
FireAlarm_Once ==
  /\ GateOpen
  /\ alarm # None /\ alarm <= now
  /\ rows' = Live
  /\ alarm' = None
  /\ UNCHANGED <<now, windows, reading, arming, told, drawn, handed, cut>>

\* alarm(): the platform has taken the alarm off before it calls.
FireAlarm ==
  /\ GateOpen
  /\ alarm # None /\ alarm <= now
  /\ rows' = Live
  /\ alarm' = IF Expiries(Live) = {} THEN None ELSE Min(Expiries(Live))
  /\ UNCHANGED <<now, windows, reading, arming, told, drawn, handed, cut>>

Tick ==
  /\ now < Horizon
  /\ now' = now + 1
  /\ UNCHANGED <<windows, rows, alarm, reading, arming, told, drawn, handed, cut>>

\* Evicted or dead: uploads break off and the windows start anew.  If a row
\* had just been inserted, it is durable by then or is not.
Evict ==
  /\ windows' = [a \in Addresses |-> None]
  /\ reading' = [r \in Requests |-> None]
  /\ arming' = None
  /\ cut' = IF arming = None THEN cut ELSE cut \cup {arming}
  /\ \/ rows' = rows
     \/ rows' = [id \in Ids |-> IF id = arming THEN None ELSE rows[id]]
  /\ UNCHANGED <<now, alarm, told, drawn, handed>>

------------------------------------------------------------------------------

Publishing ==
  \/ \E r \in Requests, a \in Addresses, ttl \in Ttls : StartPublish(r, a, ttl)
  \/ \E r \in Requests : BodyRefused(r)
  \/ \E r \in Requests, id \in Ids, size \in Sizes : Insert(r, id, size)
  \/ \E r \in Requests, size \in Sizes : Full(r, size)
  \/ Schedule

Next ==
  \/ \E a \in Addresses : TooManyRequests(a) \/ AnsweredAtOnce(a)
  \/ Publishing
  \/ \E a \in Addresses, id \in Ids : Retrieve(a, id) \/ Withdraw(a, id)
  \/ FireAlarm
  \/ Tick
  \/ Evict

\* The storage answers, the platform calls an alarm that is due, time passes.
\* Of clients nothing is assumed: an idle relay has no requests at all.
Fairness == WF_vars(Schedule) /\ WF_vars(FireAlarm) /\ WF_vars(Tick)

Spec == Init /\ [][Next]_vars /\ Fairness

------------------------------------------------------------------------------
(* Properties *)

\* An id is in the tables once at most: not before it is drawn and never again
\* once its bytes were handed out; nobody is told of an object before its alarm
\* is scheduled.
OneLife ==
  /\ \A id \in Ids : id \notin drawn \/ id \in handed => rows[id] = None
  /\ arming \notin told

\* The alarm is set to the earliest expiry, or before it (its README.md:50), for
\* every object but the one being scheduled and those whose publish died
\* between the insertion and setAlarm: whatever requests came in between.
AlarmCovers ==
  \A id \in Ids \ (cut \cup {arming}) :
    rows[id] # None => alarm # None /\ alarm <= rows[id].expires

\* Uploads whose bodies are read side by side never add up to more than the
\* ceiling, although none has room reserved for it (`publish`).
TotalCeiling == Total(rows) <= MaxTotal

\* An object a client knows of stays until it is due, unless it is handed out
\* or withdrawn, and whatever becomes of the object in memory.
KeptUntilDue ==
  [][\A id \in told :
       rows[id] # None /\ rows'[id] = None =>
         \/ rows[id].expires <= now
         \/ id \in handed'
         \/ \E a \in Addresses : Withdraw(a, id)]_vars

\* An idle relay forgets: with no request ever again, alarms alone clear the
\* tables.  The exception is an object whose alarm was never scheduled.
EventuallyForgotten == \A id \in Ids : <>[](rows[id] = None \/ id \in cut)

\* An id whose bytes are handed out while a row remains is in no stage.
Stage(id) ==
  IF id \notin drawn THEN "unpublished"
  ELSE IF id \in handed
         THEN IF rows[id] = None THEN "delivered" ELSE "delivered yet here"
  ELSE IF rows[id] # None THEN "held" ELSE "gone"

Abstract == INSTANCE ObjectStore WITH status <- [id \in Ids |-> Stage(id)]

\* The hosted relay promises what the daemon promises: a single-use store.
ImplementsObjectStore == Abstract!Spec

==============================================================================
