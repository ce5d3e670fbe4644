------------------------------- MODULE Relayd -------------------------------
(***************************************************************************)
(* The self-hosted relay, crates/clift-relayd: worker threads that serve   *)
(* POST, GET and DELETE over one Mutex<HashMap>, the sweeper thread, the   *)
(* clock and restarts of the process.                                      *)
(*                                                                         *)
(* A step is what a worker does under one acquisition of the store's lock, *)
(* together with the computation around it that touches nothing shared.    *)
(* Between two steps of a worker anything may happen: a GET reads the      *)
(* expiry, takes the bytes, writes them to the socket and puts them back   *)
(* in four separate steps.                                                 *)
(*                                                                         *)
(* A ciphertext is represented by its size: no property looks inside one,  *)
(* and an id names one ciphertext for ever.                                *)
(***************************************************************************)
EXTENDS RateLimit, FiniteSets

CONSTANTS
  Workers,      \* handler threads (8 by default)
  Ids,          \* the 128-bit random ids the process will draw, all different
  Sizes,        \* sizes of the bodies clients send
  Ttls,         \* lifetimes clients ask for, in ticks
  MaxObject,    \* per-object ceiling
  MaxTotal,     \* ceiling on what is held in total
  MaxTtl,       \* longest lifetime granted
  Horizon       \* bound of the model: the clock stops here

ASSUME RelaydAssumption ==
  /\ Ids # {}
  /\ IsFiniteSet(Workers)
  /\ None \notin Nat
  /\ None \notin [size : Nat, expires : Nat]
  /\ Sizes \subseteq Nat \ {0}      \* an empty body is refused
  /\ Ttls \subseteq Nat
  /\ MaxTtl \in Nat \ {0}
  /\ MaxObject \in Nat /\ MaxTotal \in Nat
  /\ MaxObject <= MaxTotal          \* main refuses to start otherwise
  /\ Horizon \in Nat

VARIABLES
  now,          \* the monotonic clock
  windows,      \* RateLimiter.windows
  store,        \* Store.objects: [size, expires] or None for every id
  pc,           \* where each worker is in its handler
  asked,        \* the id the worker's request is about
  due,          \* lifetime granted (publish), or the expiry read (retrieve)
  hand,         \* size of the bytes the worker holds outside the lock
  told,         \* ids some client has been told
  deadline,     \* history: the expiry every id was published with
  delivered     \* history: complete deliveries of every id

vars == <<now, windows, store, pc, asked, due, hand, told, deadline, delivered>>

\* "reading"  publish: admitted, the body is being read
\* "answering" publish: stored, the 201 is being written
\* "taking"   retrieve: the expiry has been read, the object not yet taken
\* "sending"  retrieve: the object is in hand, the response is being written
\* "restoring" retrieve: the write failed in time, about to put it back
Places == {"idle", "reading", "answering", "taking", "sending", "restoring"}

Objects == [size : Nat, expires : Nat]

\* What a worker in each place has set of its local variables.
LocalsOK ==
  \A w \in Workers :
    /\ pc[w] \in {"reading", "restoring"} => due[w] \in Nat
    /\ pc[w] \in {"answering", "taking", "sending", "restoring"} => asked[w] \in Ids
    /\ pc[w] \in {"sending", "restoring"} => hand[w] \in Nat

TypeOK ==
  /\ now \in Nat
  /\ windows \in Windows
  /\ store \in [Ids -> Objects \cup {None}]
  /\ pc \in [Workers -> Places]
  /\ asked \in [Workers -> Ids \cup {None}]
  /\ due \in [Workers -> Nat \cup {None}]
  /\ hand \in [Workers -> Nat \cup {None}]
  /\ told \subseteq Ids
  /\ deadline \in [Ids -> Nat \cup {None}]
  /\ delivered \in [Ids -> Nat]
  /\ LocalsOK

Init ==
  /\ now = 0
  /\ windows = [a \in Addresses |-> None]
  /\ store = [id \in Ids |-> None]
  /\ pc = [w \in Workers |-> "idle"]
  /\ asked = [w \in Workers |-> None]
  /\ due = [w \in Workers |-> None]
  /\ hand = [w \in Workers |-> None]
  /\ told = {}
  /\ deadline = [id \in Ids |-> None]
  /\ delivered = [id \in Ids |-> 0]

------------------------------------------------------------------------------
(* The store *)

Held(objects) == {id \in Ids : objects[id] # None}

\* Every byte of the objects, with the id whose it is.
Bytes(objects) == UNION {{id} \X (1..objects[id].size) : id \in Held(objects)}

Total(objects) == Cardinality(Bytes(objects))

\* Mutant: nothing is ever dropped on the way
Live_Unfiltered == store

\* Store::drop_expired, run under the lock by put, take and sweep
Live == [id \in Ids |->
           IF store[id] # None /\ store[id].expires > now THEN store[id] ELSE None]

------------------------------------------------------------------------------
(* Admission: every request is counted before it is looked at *)

Admitted(a) ==
  /\ Allows(windows, a, now)
  /\ windows' = Recorded(windows, a, now)

\* The worker is back at http.recv(), with nothing of the request left.
Done(w) ==
  /\ pc' = [pc EXCEPT ![w] = "idle"]
  /\ asked' = [asked EXCEPT ![w] = None]
  /\ due' = [due EXCEPT ![w] = None]
  /\ hand' = [hand EXCEPT ![w] = None]

\* 429.  The bound on the model is that a window counts at most one of these.
TooManyRequests(w, a) ==
  /\ pc[w] = "idle"
  /\ ~Allows(windows, a, now)
  /\ Current(windows, a, now).count <= PerMinute
  /\ windows' = Recorded(windows, a, now)
  /\ UNCHANGED <<now, store, pc, asked, due, hand, told, deadline, delivered>>

\* Answered without touching the store's contents: GET /v1/health, an unknown
\* endpoint, a malformed id, a ttl of zero or no number, a declared length
\* over the ceiling.
AnsweredAtOnce(w, a) ==
  /\ pc[w] = "idle"
  /\ Admitted(a)
  /\ UNCHANGED <<now, store, pc, asked, due, hand, told, deadline, delivered>>

------------------------------------------------------------------------------
(* POST /v1/objects *)

GrantedTtl(ttl) == IF ttl < MaxTtl THEN ttl ELSE MaxTtl

StartPublish(w, a, ttl) ==
  /\ pc[w] = "idle"
  /\ Admitted(a)
  /\ ttl > 0
  /\ pc' = [pc EXCEPT ![w] = "reading"]
  /\ due' = [due EXCEPT ![w] = GrantedTtl(ttl)]
  /\ UNCHANGED <<now, store, asked, hand, told, deadline, delivered>>

\* The body cannot be read, is empty or over the ceiling, or there is no
\* randomness to draw an id from.
BodyRefused(w) ==
  /\ pc[w] = "reading"
  /\ Done(w)
  /\ UNCHANGED <<now, windows, store, told, deadline, delivered>>

\* Mutant: the total is not looked at
Fits_ObjectOnly(size) == size <= MaxObject

Fits(size) == size <= MaxObject /\ Total(Live) + size <= MaxTotal

\* Store::put accepts.  The id is one that was never drawn before.  The last
\* conjunct is a bound of the model: every deadline is one the clock reaches.
PutAccepted(w, id, size) ==
  /\ pc[w] = "reading"
  /\ deadline[id] = None
  /\ Fits(size)
  /\ now + due[w] <= Horizon
  /\ store' = [Live EXCEPT ![id] = [size |-> size, expires |-> now + due[w]]]
  /\ deadline' = [deadline EXCEPT ![id] = now + due[w]]
  /\ pc' = [pc EXCEPT ![w] = "answering"]
  /\ asked' = [asked EXCEPT ![w] = id]
  /\ UNCHANGED <<now, windows, due, hand, told, delivered>>

\* Store::put refuses: Refusal::Full, after dropping what has expired
PutRefused(w, size) ==
  /\ pc[w] = "reading"
  /\ size <= MaxObject
  /\ ~Fits(size)
  /\ store' = Live
  /\ Done(w)
  /\ UNCHANGED <<now, windows, told, deadline, delivered>>

\* The 201 reaches the publisher, or is lost: `respond` ignores the failure.
Answer(w) ==
  /\ pc[w] = "answering"
  /\ \/ told' = told \cup {asked[w]}
     \/ told' = told
  /\ Done(w)
  /\ UNCHANGED <<now, windows, store, deadline, delivered>>

------------------------------------------------------------------------------
(* GET /v1/objects/<id> *)

\* Store::expiry_of, under a lock of its own; expired objects still show here.
StartRetrieve(w, a, id) ==
  /\ pc[w] = "idle"
  /\ id \in told
  /\ Admitted(a)
  /\ pc' = [pc EXCEPT ![w] = "taking"]
  /\ asked' = [asked EXCEPT ![w] = id]
  /\ due' = [due EXCEPT ![w] = IF store[id] = None THEN None ELSE store[id].expires]
  /\ UNCHANGED <<now, store, hand, told, deadline, delivered>>

\* Mutant: the object is copied out instead of removed
Take_Copied(w) ==
  /\ pc[w] = "taking"
  /\ Live[asked[w]] # None
  /\ hand' = [hand EXCEPT ![w] = store[asked[w]].size]
  /\ store' = Live
  /\ pc' = [pc EXCEPT ![w] = "sending"]
  /\ UNCHANGED <<now, windows, asked, due, told, deadline, delivered>>

\* Store::take finds the object
Take(w) ==
  /\ pc[w] = "taking"
  /\ Live[asked[w]] # None
  /\ hand' = [hand EXCEPT ![w] = store[asked[w]].size]
  /\ store' = [Live EXCEPT ![asked[w]] = None]
  /\ pc' = [pc EXCEPT ![w] = "sending"]
  /\ UNCHANGED <<now, windows, asked, due, told, deadline, delivered>>

\* Store::take does not: 404
TakeMissed(w) ==
  /\ pc[w] = "taking"
  /\ Live[asked[w]] = None
  /\ store' = Live
  /\ Done(w)
  /\ UNCHANGED <<now, windows, told, deadline, delivered>>

\* Mutant: what respond returned is not looked at, the object goes back
Delivered_PutBack(w) ==
  /\ pc[w] = "sending"
  /\ delivered' = [delivered EXCEPT ![asked[w]] = @ + 1]
  /\ IF due[w] = None
       THEN Done(w)
       ELSE pc' = [pc EXCEPT ![w] = "restoring"] /\ UNCHANGED <<asked, due, hand>>
  /\ UNCHANGED <<now, windows, store, told, deadline>>

\* request.respond succeeded
Delivered(w) ==
  /\ pc[w] = "sending"
  /\ delivered' = [delivered EXCEPT ![asked[w]] = @ + 1]
  /\ Done(w)
  /\ UNCHANGED <<now, windows, store, told, deadline>>

\* Mutant: an object is restored even when its expiry is not known
TimeLeft_Unknown(w) == IF due[w] = None THEN TRUE ELSE due[w] > now

\* The check of Store::restore, made before the lock is taken
TimeLeft(w) == due[w] # None /\ due[w] > now

\* request.respond failed and there is time left
DeliveryFailed(w) ==
  /\ pc[w] = "sending"
  /\ TimeLeft(w)
  /\ pc' = [pc EXCEPT ![w] = "restoring"]
  /\ UNCHANGED <<now, windows, store, asked, due, hand, told, deadline, delivered>>

\* request.respond failed, and the object had no known expiry or is past it
DeliveryAbandoned(w) ==
  /\ pc[w] = "sending"
  /\ ~TimeLeft(w)
  /\ Done(w)
  /\ UNCHANGED <<now, windows, store, told, deadline, delivered>>

\* Mutant: a failed delivery starts a fresh window
Restore_FreshWindow(w) ==
  /\ pc[w] = "restoring"
  /\ store' = [store EXCEPT ![asked[w]] = [size |-> hand[w], expires |-> now + MaxTtl]]
  /\ Done(w)
  /\ UNCHANGED <<now, windows, told, deadline, delivered>>

\* The insertion of Store::restore
Restore(w) ==
  /\ pc[w] = "restoring"
  /\ store' = [store EXCEPT ![asked[w]] = [size |-> hand[w], expires |-> due[w]]]
  /\ Done(w)
  /\ UNCHANGED <<now, windows, told, deadline, delivered>>

------------------------------------------------------------------------------
(* DELETE /v1/objects/<id>: Store::remove, and 204 whatever it found *)

Withdraw(w, a, id) ==
  /\ pc[w] = "idle"
  /\ id \in told
  /\ Admitted(a)
  /\ store' = [store EXCEPT ![id] = None]
  /\ UNCHANGED <<now, pc, asked, due, hand, told, deadline, delivered>>

------------------------------------------------------------------------------
(* The sweeper thread, the clock, and a restart of the process *)

\* Mutant: the sweeper thread could not be started
Sweep_NotStarted == FALSE /\ UNCHANGED vars

Sweep ==
  /\ store' = Live
  /\ UNCHANGED <<now, windows, pc, asked, due, hand, told, deadline, delivered>>

Tick ==
  /\ now < Horizon
  /\ now' = now + 1
  /\ UNCHANGED <<windows, store, pc, asked, due, hand, told, deadline, delivered>>

Restart ==
  /\ windows' = [a \in Addresses |-> None]
  /\ store' = [id \in Ids |-> None]
  /\ pc' = [w \in Workers |-> "idle"]
  /\ asked' = [w \in Workers |-> None]
  /\ due' = [w \in Workers |-> None]
  /\ hand' = [w \in Workers |-> None]
  /\ UNCHANGED <<now, told, deadline, delivered>>

------------------------------------------------------------------------------

Publishing(w) ==
  \/ \E a \in Addresses, ttl \in Ttls : StartPublish(w, a, ttl)
  \/ BodyRefused(w)
  \/ \E id \in Ids, size \in Sizes : PutAccepted(w, id, size)
  \/ \E size \in Sizes : PutRefused(w, size)
  \/ Answer(w)

Retrieving(w) ==
  \/ \E a \in Addresses, id \in Ids : StartRetrieve(w, a, id)
  \/ Take(w)
  \/ TakeMissed(w)
  \/ Delivered(w)
  \/ DeliveryFailed(w)
  \/ DeliveryAbandoned(w)
  \/ Restore(w)

Handle(w) ==
  \/ \E a \in Addresses : TooManyRequests(w, a) \/ AnsweredAtOnce(w, a)
  \/ Publishing(w)
  \/ Retrieving(w)
  \/ \E a \in Addresses, id \in Ids : Withdraw(w, a, id)

Next ==
  \/ \E w \in Workers : Handle(w)
  \/ Sweep
  \/ Tick
  \/ Restart

\* The sweeper sleeps and sweeps for ever, and time passes.  Nothing is
\* assumed of the workers: a client may never read its response.
Fairness == WF_vars(Sweep) /\ WF_vars(Tick)

Spec == Init /\ [][Next]_vars /\ Fairness

------------------------------------------------------------------------------
(* Properties *)

InHand(w, id) == pc[w] \in {"sending", "restoring"} /\ asked[w] = id

\* The inductive heart of the module: the bytes of an id are in exactly one
\* place at a time.  In the store they carry the deadline they were published
\* with; in a worker's hand they are in no store and in no other hand; an id
\* that has been delivered is in neither, and so is one never published.
Custody ==
  /\ \A id \in Ids :
       /\ delivered[id] <= 1
       /\ deadline[id] = None => delivered[id] = 0 /\ id \notin told
       /\ store[id] # None => /\ store[id].expires = deadline[id]
                              /\ delivered[id] = 0
  /\ \A w \in Workers :
       /\ pc[w] \in {"answering", "taking", "sending", "restoring"} =>
            deadline[asked[w]] # None
       /\ pc[w] \in {"taking", "sending", "restoring"} =>
            due[w] \in {None, deadline[asked[w]]}
       /\ pc[w] \in {"sending", "restoring"} =>
            /\ store[asked[w]] = None
            /\ delivered[asked[w]] = 0
            /\ \A v \in Workers : InHand(v, asked[w]) => v = w

\* A relay hands a ciphertext to exactly one client: two simultaneous GETs,
\* failed deliveries that put it back and restarts never add up to a second
\* complete delivery (store.rs, `take`).
SingleUse == \A id \in Ids : delivered[id] <= 1

\* Putting an object back after a failed delivery never extends, or shortens,
\* the lifetime its publisher was promised (store.rs, `restore`).
LifetimeKept == \A id \in Ids : store[id] # None => store[id].expires = deadline[id]

\* No worker takes an object out once the object's deadline has passed, however
\* late the sweeper is and however long ago the worker read the expiry.
ServedInTime ==
  [][\A w \in Workers :
       hand[w] = None /\ hand'[w] # None => now < deadline[asked[w]]]_vars

\* What max_total_bytes really bounds.  `restore` does not recheck the ceiling,
\* so every other worker can add one object that was in its hand while the last
\* `put` was accepted; it is never worse than that.
OvershootBounded == Total(store) <= MaxTotal + (Cardinality(Workers) - 1) * MaxObject

\* Whatever clients do, and even if none of them ever reads a response, the
\* store ends up without the object for good: "an idle relay still forgets".
EventuallyForgotten == \A id \in Ids : <>[](store[id] = None)

\* An object counts as held while it is in the store or in some worker's hand.
Present(id) == store[id] # None \/ \E w \in Workers : InHand(w, id)

\* An object that is still somewhere after a delivery is in no stage of its life.
Stage(id) ==
  IF deadline[id] = None THEN "unpublished"
  ELSE IF delivered[id] = 0 THEN IF Present(id) THEN "held" ELSE "gone"
  ELSE IF Present(id) \/ delivered[id] > 1 THEN "delivered yet here" ELSE "delivered"

Abstract == INSTANCE ObjectStore WITH status <- [id \in Ids |-> Stage(id)]

\* The relay is a single-use object store, whatever its threads do: nothing is
\* delivered that was not published, and what is delivered, withdrawn while no
\* GET has it in hand, expired or erased never comes back.
ImplementsObjectStore == Abstract!Spec

==============================================================================
