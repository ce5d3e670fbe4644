-------------------------- MODULE CloudRelayProofs --------------------------
(***************************************************************************)
(* What TLAPS proves of CloudRelay, for any number of uploads, ids and     *)
(* addresses, and any sizes and limits.  The invariants are TypeOK, OneLife *)
(* (an id is in the tables at most once in its life) and AlarmCovers.      *)
(***************************************************************************)
EXTENDS CloudRelay, WellFoundedInduction, FiniteSetTheorems, TLAPS

------------------------------------------------------------------------------
(* Lemmas about the operators *)

\* dropExpired keeps a row as it is or drops it, and drops the expired ones.
LEMMA LiveFacts ==
  ASSUME TypeOK
  PROVE  /\ Live \in [Ids -> Objects \cup {None}]
         /\ \A id \in Ids : Live[id] # None =>
              /\ Live[id] = rows[id]
              /\ rows[id] # None
              /\ rows[id].expires \in Nat
         /\ \A id \in Ids : rows[id] # None /\ Live[id] = None =>
              rows[id].expires <= now
  BY DEF Live, TypeOK, Objects

\* One call of `allow` leaves a table of windows a table of windows.
LEMMA RecordedType ==
  ASSUME NEW w \in Windows, NEW a \in Addresses, NEW t \in Nat
  PROVE  Recorded(w, a, t) \in Windows
<1>1. Swept(w, t) \in Windows
  BY DEF Swept, Windows
<1>2. Current(w, a, t) \in [started : Nat, count : Nat]
  BY <1>1 DEF Current, Running, Windows
<1>3. [Current(w, a, t) EXCEPT !.count = @ + 1] \in [started : Nat, count : Nat]
  BY <1>2
<1> QED
  BY <1>1, <1>3 DEF Recorded, Windows

\* SELECT MIN finds the least of the expiries, if there is one.
LEMMA MinFacts ==
  ASSUME NEW S \in SUBSET Nat, S # {}
  PROVE  Min(S) \in S /\ \A y \in S : Min(S) <= y
<1>1. PICK x \in S : \A y \in S : ~(<<y, x>> \in OpToRel(<, Nat))
  BY NatLessThanWellFounded, WFMin, Zenon
<1>2. \A y \in S : ~(y < x)
  <2> SUFFICES ASSUME NEW y \in S, y < x PROVE FALSE
    OBVIOUS
  <2>1. <<y, x>> \in Nat \X Nat /\ <<y, x>>[1] = y /\ <<y, x>>[2] = x
    OBVIOUS
  <2>2. <<y, x>> \in OpToRel(<, Nat)
    BY <2>1, Zenon DEF OpToRel
  <2> QED
    BY <1>1, <2>2
<1>3. \A y \in S : x <= y
  BY <1>2
<1> QED
  BY <1>3, Zenon DEF Min

\* What alarm() sets is a time, and no later than the expiry of any row left.
LEMMA NextExpiryFacts ==
  ASSUME TypeOK, NEW next,
         next = IF Expiries(Live) = {} THEN None ELSE Min(Expiries(Live))
  PROVE  /\ next \in Nat \cup {None}
         /\ \A id \in Ids : Live[id] # None => next # None /\ next <= Live[id].expires
<1>1. Expiries(Live) \in SUBSET Nat
  BY LiveFacts DEF Expiries, Present
<1>2. \A id \in Ids : Live[id] # None => Live[id].expires \in Expiries(Live)
  BY DEF Expiries, Present
<1>3. CASE Expiries(Live) = {}
  BY <1>2, <1>3
<1>4. CASE Expiries(Live) # {}
  <2>1. next = Min(Expiries(Live))
    BY <1>4, Zenon
  <2>2. next \in Nat /\ \A y \in Expiries(Live) : next <= y
    BY <1>1, <1>4, <2>1, MinFacts
  <2> QED
    BY <1>2, <2>2, CloudRelayAssumption
<1> QED
  BY <1>3, <1>4

\* The lifetime granted is a number of ticks.
LEMMA GrantedType == \A ttl \in Ttls : GrantedTtl(ttl) \in Nat
  BY CloudRelayAssumption DEF GrantedTtl

------------------------------------------------------------------------------
(* Type correctness *)

LEMMA TypeInit == Init => TypeOK
  BY CloudRelayAssumption DEF Init, TypeOK, Windows

LEMMA TypeStep == TypeOK /\ [Next]_vars => TypeOK'
<1> SUFFICES ASSUME TypeOK, [Next]_vars PROVE TypeOK'
  OBVIOUS
<1> USE DEF TypeOK
<1>1. ASSUME NEW a \in Addresses, TooManyRequests(a) PROVE TypeOK'
  BY <1>1, RecordedType DEF TooManyRequests
<1>2. ASSUME NEW a \in Addresses, AnsweredAtOnce(a) PROVE TypeOK'
  BY <1>2, RecordedType, LiveFacts DEF AnsweredAtOnce, Admitted, GateOpen
<1>3. ASSUME NEW r \in Requests, NEW a \in Addresses, NEW ttl \in Ttls,
             StartPublish(r, a, ttl)
      PROVE  TypeOK'
  BY <1>3, RecordedType, LiveFacts, GrantedType DEF StartPublish, Admitted, GateOpen
<1>4. ASSUME NEW r \in Requests, BodyRefused(r) PROVE TypeOK'
  BY <1>4 DEF BodyRefused
<1>5. ASSUME NEW r \in Requests, NEW id \in Ids, NEW size \in Sizes,
             Insert(r, id, size)
      PROVE  TypeOK'
  <2>1. [size |-> size, expires |-> now + reading[r]] \in Objects
    BY <1>5, CloudRelayAssumption DEF Insert, Objects
  <2>2. rows' \in [Ids -> Objects \cup {None}] /\ rows'[id] # None
    BY <1>5, <2>1, LiveFacts, CloudRelayAssumption DEF Insert, Objects
  <2> QED
    BY <1>5, <2>2 DEF Insert
<1>6. ASSUME NEW r \in Requests, NEW size \in Sizes, Full(r, size) PROVE TypeOK'
  BY <1>6, LiveFacts DEF Full, GateOpen
<1>7. CASE Schedule
  <2>1. rows[arming].expires \in Nat
    BY <1>7 DEF Schedule, Objects
  <2> QED
    BY <1>7, <2>1 DEF Schedule
<1>8. ASSUME NEW a \in Addresses, NEW id \in Ids, Retrieve(a, id) PROVE TypeOK'
  BY <1>8, RecordedType, LiveFacts DEF Retrieve, Admitted, GateOpen
<1>9. ASSUME NEW a \in Addresses, NEW id \in Ids, Withdraw(a, id) PROVE TypeOK'
  BY <1>9, RecordedType, LiveFacts DEF Withdraw, Admitted, GateOpen
<1>10. CASE FireAlarm
  BY <1>10, LiveFacts, NextExpiryFacts DEF FireAlarm, GateOpen
<1>11. CASE Tick
  BY <1>11 DEF Tick
<1>12. CASE Evict
  BY <1>12, CloudRelayAssumption DEF Evict, Windows
<1>13. CASE UNCHANGED vars
  BY <1>13 DEF vars
<1> QED
  BY <1>1, <1>2, <1>3, <1>4, <1>5, <1>6, <1>7, <1>8, <1>9, <1>10, <1>11, <1>12,
     <1>13
  DEF Next, Publishing

\* Every reachable state is well typed: whoever schedules the alarm finds the
\* row it has inserted, and only inserted ids are told, handed out or cut off.
THEOREM TypeCorrect == Spec => []TypeOK
<1>1. TypeOK /\ [Next]_vars => TypeOK'
  BY TypeStep
<1> QED
  BY TypeInit, <1>1, PTL DEF Spec

------------------------------------------------------------------------------
(* One life per id *)

LEMMA OneLifeInit == Init => OneLife
  BY DEF Init, OneLife

\* Only Insert puts a row into the tables, under an id never drawn before.
LEMMA OneLifeStep == TypeOK /\ OneLife /\ [Next]_vars => OneLife'
<1> SUFFICES ASSUME TypeOK, OneLife, [Next]_vars PROVE OneLife'
  OBVIOUS
<1> USE CloudRelayAssumption DEF TypeOK, OneLife
<1>1. ASSUME NEW r \in Requests, NEW id \in Ids, NEW size \in Sizes,
             Insert(r, id, size)
      PROVE  OneLife'
  BY <1>1, LiveFacts DEF Insert
<1>2. ASSUME NEW a \in Addresses, NEW id \in Ids, Retrieve(a, id)
      PROVE  OneLife'
  BY <1>2, LiveFacts DEF Retrieve, Admitted, GateOpen
<1>3. CASE Schedule
  BY <1>3 DEF Schedule
<1>4. CASE Evict
  BY <1>4 DEF Evict
<1>5. ASSUME /\ drawn' = drawn /\ handed' = handed /\ told' = told /\ arming' = arming
             /\ \A id \in Ids : rows'[id] # None => rows[id] # None
      PROVE  OneLife'
  BY <1>5
<1>6. ASSUME NEW a \in Addresses, TooManyRequests(a) \/ AnsweredAtOnce(a)
      PROVE  OneLife'
  BY <1>5, <1>6, LiveFacts DEF TooManyRequests, AnsweredAtOnce
<1>7. ASSUME NEW r \in Requests,
             \/ \E a \in Addresses, ttl \in Ttls : StartPublish(r, a, ttl)
             \/ BodyRefused(r)
             \/ \E size \in Sizes : Full(r, size)
      PROVE  OneLife'
  BY <1>5, <1>7, LiveFacts DEF StartPublish, BodyRefused, Full
<1>8. ASSUME NEW a \in Addresses, NEW id \in Ids, Withdraw(a, id)
      PROVE  OneLife'
  BY <1>5, <1>8, LiveFacts DEF Withdraw
<1>9. CASE FireAlarm \/ Tick \/ UNCHANGED vars
  BY <1>5, <1>9, LiveFacts DEF FireAlarm, Tick, vars
<1> QED
  BY <1>1, <1>2, <1>3, <1>4, <1>6, <1>7, <1>8, <1>9 DEF Next, Publishing

\* An id that was handed out is never found in the tables again.
THEOREM OneLifeHolds == Spec => []OneLife
<1>1. TypeOK /\ OneLife /\ [Next]_vars => OneLife'
  BY OneLifeStep
<1> QED
  BY OneLifeInit, <1>1, TypeCorrect, PTL DEF Spec

------------------------------------------------------------------------------
(* The alarm *)

LEMMA AlarmInit == Init => AlarmCovers
  BY DEF Init, AlarmCovers

\* A step that brings no row and leaves the alarm alone cannot uncover one.
LEMMA AlarmKept ==
  ASSUME AlarmCovers, alarm' = alarm, cut \cup {arming} \subseteq cut' \cup {arming'},
         \A id \in Ids : rows'[id] # None => rows'[id] = rows[id]
  PROVE  AlarmCovers'
  BY DEF AlarmCovers

LEMMA AlarmStep == TypeOK /\ AlarmCovers /\ [Next]_vars => AlarmCovers'
<1> SUFFICES ASSUME TypeOK, AlarmCovers, [Next]_vars PROVE AlarmCovers'
  OBVIOUS
<1> USE CloudRelayAssumption DEF TypeOK
<1>1. ASSUME NEW r \in Requests, NEW id \in Ids, NEW size \in Sizes,
             Insert(r, id, size)
      PROVE  AlarmCovers'
  <2>1. \A i \in Ids \ {id} : rows'[i] # None => rows'[i] = rows[i]
    BY <1>1, LiveFacts DEF Insert
  <2> QED
    BY <1>1, <2>1 DEF Insert, GateOpen, AlarmCovers
<1>2. CASE Schedule
  <2>1. PICK at \in Nat : at = rows[arming].expires
    BY <1>2 DEF Schedule, Objects
  <2>2. /\ alarm' \in Nat /\ alarm' <= at
        /\ alarm # None => alarm' <= alarm
    BY <1>2, <2>1 DEF Schedule
  <2>3. \A id \in Ids : rows[id] # None => rows[id].expires \in Nat
    BY DEF Objects
  <2>4. rows' = rows /\ cut' = cut
    BY <1>2 DEF Schedule
  <2> QED
    BY <2>1, <2>2, <2>3, <2>4 DEF AlarmCovers
<1>3. CASE FireAlarm
  <2>1. rows' = Live
    BY <1>3 DEF FireAlarm
  <2> QED
    BY <1>3, <2>1, NextExpiryFacts DEF FireAlarm, AlarmCovers
<1>4. CASE Evict
  <2>1. \A id \in Ids : rows'[id] # None => rows'[id] = rows[id]
    BY <1>4 DEF Evict
  <2>2. alarm' = alarm /\ cut \cup {arming} \subseteq cut' \cup {arming'}
    BY <1>4 DEF Evict
  <2> QED
    BY <2>1, <2>2, AlarmKept
<1>5. ASSUME NEW a \in Addresses, TooManyRequests(a) \/ AnsweredAtOnce(a)
      PROVE  AlarmCovers'
  BY <1>5, AlarmKept, LiveFacts DEF TooManyRequests, AnsweredAtOnce
<1>6. ASSUME NEW r \in Requests,
             \/ \E a \in Addresses, ttl \in Ttls : StartPublish(r, a, ttl)
             \/ BodyRefused(r)
             \/ \E size \in Sizes : Full(r, size)
      PROVE  AlarmCovers'
  BY <1>6, AlarmKept, LiveFacts DEF StartPublish, BodyRefused, Full
<1>7. ASSUME NEW a \in Addresses, NEW id \in Ids,
             Retrieve(a, id) \/ Withdraw(a, id)
      PROVE  AlarmCovers'
  BY <1>7, AlarmKept, LiveFacts DEF Retrieve, Withdraw
<1>8. CASE Tick \/ UNCHANGED vars
  BY <1>8, AlarmKept DEF Tick, vars
<1> QED
  BY <1>1, <1>2, <1>3, <1>4, <1>5, <1>6, <1>7, <1>8 DEF Next, Publishing

\* Every object whose publish was not cut off is covered by an alarm at or
\* before its expiry, for any number of objects and any order of expiries.
THEOREM AlarmCoversHolds == Spec => []AlarmCovers
<1>1. TypeOK /\ AlarmCovers /\ [Next]_vars => AlarmCovers'
  BY AlarmStep
<1> QED
  BY AlarmInit, <1>1, TypeCorrect, PTL DEF Spec

------------------------------------------------------------------------------
(* The ceiling *)

LEMMA InBytes ==
  ASSUME NEW objects, NEW x
  PROVE  x \in Bytes(objects) <=>
           \E id \in Ids : objects[id] # None /\ x \in {id} \X (1..objects[id].size)
  BY DEF Bytes, Present

\* A step after which every row is one that was there before holds no more
\* bytes than before.
LEMMA FewerBytes ==
  ASSUME NEW old, NEW new, \A id \in Ids : new[id] # None => new[id] = old[id],
         IsFiniteSet(Bytes(old))
  PROVE  IsFiniteSet(Bytes(new)) /\ Total(new) <= Total(old)
<1>1. Bytes(new) \in SUBSET Bytes(old)
  BY InBytes
<1> QED
  BY <1>1, FS_Subset DEF Total

\* An object has as many bytes as its size says.
LEMMA BytesOfOne ==
  ASSUME NEW id, NEW size \in Nat
  PROVE  IsFiniteSet({id} \X (1..size)) /\ Cardinality({id} \X (1..size)) = size
<1>1. IsFiniteSet(1..size) /\ Cardinality(1..size) = size
  BY FS_Interval
<1>2. IsFiniteSet({id}) /\ Cardinality({id}) = 1
  BY FS_Singleton
<1> QED
  BY <1>1, <1>2, FS_Product

\* A new row adds at most its own bytes to the total.
LEMMA OneMore ==
  ASSUME NEW old, IsFiniteSet(Bytes(old)), NEW id \in Ids, NEW size \in Nat,
         NEW new, new[id].size = size, \A i \in Ids \ {id} : new[i] = old[i]
  PROVE  IsFiniteSet(Bytes(new)) /\ Total(new) <= Total(old) + size
<1> DEFINE Own == {id} \X (1..size)
<1>1. IsFiniteSet(Own) /\ Cardinality(Own) = size
  BY BytesOfOne
<1>2. Bytes(new) \in SUBSET (Bytes(old) \cup Own)
  BY InBytes
<1> HIDE DEF Own
<1>3. /\ IsFiniteSet(Bytes(old) \cup Own) /\ IsFiniteSet(Bytes(old) \cap Own)
      /\ Cardinality(Bytes(old) \cup Own)
           = Cardinality(Bytes(old)) + size - Cardinality(Bytes(old) \cap Own)
  BY <1>1, FS_Union, FS_Intersection
<1>4. /\ Cardinality(Bytes(old)) \in Nat /\ Cardinality(Bytes(old) \cap Own) \in Nat
      /\ Cardinality(Bytes(old) \cup Own) \in Nat
  BY <1>3, FS_CardinalityType
<1>5. IsFiniteSet(Bytes(new)) /\ Cardinality(Bytes(new)) <= Cardinality(Bytes(old) \cup Own)
  BY <1>2, <1>3, FS_Subset
<1>6. Cardinality(Bytes(new)) \in Nat
  BY <1>5, FS_CardinalityType
<1> QED
  BY <1>3, <1>4, <1>5, <1>6 DEF Total

\* Nothing but Insert brings a row.
LEMMA NoNewRow ==
  ASSUME TypeOK, [Next]_vars,
         ~\E r \in Requests, id \in Ids, size \in Sizes : Insert(r, id, size)
  PROVE  \A id \in Ids : rows'[id] # None => rows'[id] = rows[id]
<1> DEFINE Less == \A id \in Ids : rows'[id] # None => rows'[id] = rows[id]
<1> USE LiveFacts
<1>1. ASSUME NEW a \in Addresses, TooManyRequests(a) \/ AnsweredAtOnce(a) PROVE Less
  BY <1>1 DEF TooManyRequests, AnsweredAtOnce
<1>2. ASSUME NEW r \in Requests,
             \/ \E a \in Addresses, ttl \in Ttls : StartPublish(r, a, ttl)
             \/ BodyRefused(r)
             \/ \E size \in Sizes : Full(r, size)
      PROVE  Less
  BY <1>2 DEF StartPublish, BodyRefused, Full
<1>3. ASSUME NEW a \in Addresses, NEW id \in Ids, Retrieve(a, id) \/ Withdraw(a, id)
      PROVE  Less
  BY <1>3 DEF Retrieve, Withdraw
<1>4. CASE Schedule \/ FireAlarm \/ Tick \/ Evict \/ UNCHANGED vars
  BY <1>4 DEF Schedule, FireAlarm, Tick, Evict, vars
<1> QED
  BY <1>1, <1>2, <1>3, <1>4 DEF Next, Publishing

Ceiling == IsFiniteSet(Bytes(rows)) /\ Total(rows) <= MaxTotal

LEMMA CeilingInit == Init => Ceiling
<1> SUFFICES ASSUME Init PROVE Ceiling
  OBVIOUS
<1>1. Bytes(rows) = {}
  BY InBytes DEF Init
<1> QED
  BY <1>1, FS_EmptySet, CloudRelayAssumption DEF Ceiling, Total

LEMMA CeilingStep == TypeOK /\ Ceiling /\ [Next]_vars => Ceiling'
<1> SUFFICES ASSUME TypeOK, Ceiling, [Next]_vars PROVE Ceiling'
  OBVIOUS
<1>1. ASSUME NEW r \in Requests, NEW id \in Ids, NEW size \in Sizes, Insert(r, id, size)
      PROVE  Ceiling'
  <2>1. IsFiniteSet(Bytes(Live))
    BY FewerBytes, LiveFacts DEF Ceiling
  <2>2. /\ size \in Nat /\ Total(Live) + size <= MaxTotal
        /\ rows' = [Live EXCEPT ![id] = [size |-> size, expires |-> now + reading[r]]]
    BY <1>1, CloudRelayAssumption DEF Insert, Fits
  <2>3. rows'[id].size = size /\ \A i \in Ids \ {id} : rows'[i] = Live[i]
    BY <2>2 DEF Live
  <2>4. IsFiniteSet(Bytes(rows')) /\ Total(rows') <= Total(Live) + size
    BY <2>1, <2>2, <2>3, OneMore
  <2>5. Total(rows') \in Nat /\ Total(Live) \in Nat /\ MaxTotal \in Nat
    BY <2>1, <2>4, FS_CardinalityType, CloudRelayAssumption DEF Total
  <2>6. Total(rows') <= MaxTotal
    BY <2>2, <2>4, <2>5
  <2> QED
    BY <2>4, <2>6 DEF Ceiling, Total, Bytes, Present
<1>2. CASE ~\E r \in Requests, id \in Ids, size \in Sizes : Insert(r, id, size)
  <2>1. IsFiniteSet(Bytes(rows')) /\ Total(rows') <= Total(rows)
    BY <1>2, NoNewRow, FewerBytes DEF Ceiling
  <2>2. Total(rows') \in Nat /\ Total(rows) \in Nat /\ MaxTotal \in Nat
    BY <2>1, FS_CardinalityType, CloudRelayAssumption DEF Ceiling, Total
  <2>3. Total(rows') <= MaxTotal
    BY <2>1, <2>2 DEF Ceiling
  <2> QED
    BY <2>1, <2>3 DEF Ceiling, Total, Bytes, Present
<1> QED
  BY <1>1, <1>2

\* However many uploads are read side by side, with no room reserved for any of
\* them, what is in the tables never exceeds the ceiling (publish, heldBytes):
\* the room is looked at with the row's insertion, nothing awaited in between.
THEOREM CeilingHolds == Spec => []TotalCeiling
<1>1. TypeOK /\ Ceiling /\ [Next]_vars => Ceiling'
  BY CeilingStep
<1>2. Ceiling => TotalCeiling
  BY DEF Ceiling, TotalCeiling
<1> QED
  BY CeilingInit, <1>1, <1>2, TypeCorrect, PTL DEF Spec

------------------------------------------------------------------------------
(* What a step may never do *)

LEMMA KeptUntilDueStep ==
  ASSUME TypeOK, OneLife, [Next]_vars, NEW id \in told,
         rows[id] # None, rows'[id] = None,
         rows[id].expires > now, id \notin handed'
  PROVE  \E a \in Addresses : Withdraw(a, id)
<1> USE DEF TypeOK
<1>1. id \in Ids /\ rows[id].expires \in Nat
  BY DEF Objects
<1>2. Live[id] # None
  BY <1>1, LiveFacts
<1>3. ASSUME rows' = rows \/ rows' = Live PROVE FALSE
  BY <1>2, <1>3
<1>4. ASSUME NEW r \in Requests, NEW i \in Ids, NEW size \in Sizes, Insert(r, i, size)
      PROVE  FALSE
  BY <1>1, <1>2, <1>4, LiveFacts, CloudRelayAssumption DEF Insert
<1>5. ~Evict
  BY <1>1, CloudRelayAssumption DEF Evict, OneLife
<1>6. ASSUME NEW a \in Addresses, NEW i \in Ids, Retrieve(a, i) PROVE FALSE
  BY <1>1, <1>2, <1>6, LiveFacts DEF Retrieve
<1>7. ASSUME NEW a \in Addresses, NEW i \in Ids, Withdraw(a, i) PROVE i = id
  BY <1>1, <1>2, <1>7, LiveFacts DEF Withdraw
<1>8. ~\E a \in Addresses : TooManyRequests(a) \/ AnsweredAtOnce(a)
  BY <1>3 DEF TooManyRequests, AnsweredAtOnce
<1>9. ~\E r \in Requests :
        \/ \E a \in Addresses, ttl \in Ttls : StartPublish(r, a, ttl)
        \/ BodyRefused(r)
        \/ \E size \in Sizes : Full(r, size)
  BY <1>3 DEF StartPublish, BodyRefused, Full
<1>10. ~Schedule /\ ~FireAlarm /\ ~Tick /\ ~UNCHANGED vars
  BY <1>3 DEF Schedule, FireAlarm, Tick, vars
<1> QED
  BY <1>4, <1>5, <1>6, <1>7, <1>8, <1>9, <1>10 DEF Next, Publishing

\* Evictions, other requests and alarms never cost a client an object before
\* its time.
THEOREM KeptUntilDueHolds == Spec => KeptUntilDue
<1>1. ASSUME TypeOK, OneLife, [Next]_vars, NEW id \in told,
             rows[id] # None, rows'[id] = None
      PROVE  \/ rows[id].expires <= now
             \/ id \in handed'
             \/ \E a \in Addresses : Withdraw(a, id)
  <2>1. rows[id].expires \in Nat /\ now \in Nat
    BY <1>1 DEF TypeOK, Objects
  <2> QED
    BY <1>1, <2>1, KeptUntilDueStep
<1>2. TypeOK /\ OneLife /\ [Next]_vars =>
        [\A id \in told :
           rows[id] # None /\ rows'[id] = None =>
             \/ rows[id].expires <= now
             \/ id \in handed'
             \/ \E a \in Addresses : Withdraw(a, id)]_vars
  BY <1>1
<1> QED
  BY <1>2, TypeCorrect, OneLifeHolds, PTL DEF Spec, KeptUntilDue

------------------------------------------------------------------------------
(* The refinement of ObjectStore *)

\* Under OneLife the odd stage of the mapping never occurs.
LEMMA StageOf ==
  ASSUME OneLife
  PROVE  \A id \in Ids :
           Stage(id) = IF id \notin drawn THEN "unpublished"
                       ELSE IF id \in handed THEN "delivered"
                       ELSE IF rows[id] # None THEN "held" ELSE "gone"
  BY DEF OneLife, Stage

LEMMA StageOfNext ==
  ASSUME OneLife'
  PROVE  \A id \in Ids :
           Stage(id)' = IF id \notin drawn' THEN "unpublished"
                        ELSE IF id \in handed' THEN "delivered"
                        ELSE IF rows'[id] # None THEN "held" ELSE "gone"
  BY DEF OneLife, Stage

\* A step that draws and hands out nothing and brings no row lets the abstract
\* store forget what is no longer in the tables.
LEMMA OnlyForgets ==
  ASSUME TypeOK, OneLife, OneLife', drawn' = drawn, handed' = handed,
         \A id \in Ids : rows'[id] # None => rows[id] # None
  PROVE  Abstract!Next
<1> DEFINE F == {id \in Abstract!Held : rows'[id] = None}
<1>1. F \in SUBSET Abstract!Held
  OBVIOUS
<1>2. \A id \in Ids : Stage(id)' = IF id \in F THEN "gone" ELSE Stage(id)
  BY StageOf, StageOfNext DEF Abstract!Held
<1>3. Abstract!Forget(F)
  BY <1>2 DEF Abstract!Forget, Abstract!After
<1> QED
  BY <1>1, <1>3 DEF Abstract!Next

\* Publishing: a new id starts its life, what has expired is forgotten.
LEMMA InsertPublishes ==
  ASSUME TypeOK, OneLife, TypeOK', OneLife',
         NEW r \in Requests, NEW id \in Ids, NEW size \in Sizes,
         Insert(r, id, size)
  PROVE  Abstract!Next
<1> DEFINE F == {i \in Abstract!Held : i # id /\ rows'[i] = None}
<1>1. F \in SUBSET Abstract!Held
  OBVIOUS
<1>2. /\ id \notin drawn /\ drawn' = drawn \cup {id} /\ handed' = handed
      /\ id \notin handed /\ rows'[id] # None
      /\ \A i \in Ids \ {id} : rows'[i] # None => rows[i] # None
  BY LiveFacts, CloudRelayAssumption DEF Insert, TypeOK
<1>3. Stage(id) = "unpublished" /\ Stage(id)' = "held"
  BY <1>2, StageOf, StageOfNext
<1>4. \A i \in Ids \ {id} : Stage(i)' = IF i \in F THEN "gone" ELSE Stage(i)
  BY <1>2, StageOf, StageOfNext DEF Abstract!Held
<1>5. Abstract!Publish(id, F)
  BY <1>3, <1>4 DEF Abstract!Publish, Abstract!After
<1> QED
  BY <1>1, <1>5 DEF Abstract!Next

\* A GET: its object ends delivered, what has expired is forgotten.
LEMMA RetrieveDelivers ==
  ASSUME TypeOK, OneLife, OneLife',
         NEW a \in Addresses, NEW id \in Ids, Retrieve(a, id)
  PROVE  Abstract!Next
<1> DEFINE F == {i \in Abstract!Held : i # id /\ rows'[i] = None}
<1>1. F \in SUBSET Abstract!Held
  OBVIOUS
<1>2. /\ id \in drawn /\ drawn' = drawn /\ handed' = handed \cup {id}
      /\ rows[id] # None /\ id \notin handed
      /\ \A i \in Ids \ {id} : rows'[i] # None => rows[i] # None
  BY LiveFacts DEF Retrieve, TypeOK, OneLife
<1>3. Stage(id) = "held" /\ Stage(id)' = "delivered"
  BY <1>2, StageOf, StageOfNext
<1>4. \A i \in Ids \ {id} : Stage(i)' = IF i \in F THEN "gone" ELSE Stage(i)
  BY <1>2, StageOf, StageOfNext DEF Abstract!Held
<1>5. Abstract!Deliver(id, F)
  BY <1>3, <1>4 DEF Abstract!Deliver, Abstract!After
<1> QED
  BY <1>1, <1>5 DEF Abstract!Next

\* Every step of the hosted relay is one of the abstract store.
LEMMA StepRefines ==
  ASSUME TypeOK, OneLife, TypeOK', OneLife', [Next]_vars
  PROVE  Abstract!Next
<1>1. ASSUME NEW r \in Requests, NEW id \in Ids, NEW size \in Sizes,
             Insert(r, id, size)
      PROVE  Abstract!Next
  BY <1>1, InsertPublishes
<1>2. ASSUME NEW a \in Addresses, NEW id \in Ids, Retrieve(a, id)
      PROVE  Abstract!Next
  BY <1>2, RetrieveDelivers
<1>3. ASSUME NEW a \in Addresses, TooManyRequests(a) \/ AnsweredAtOnce(a)
      PROVE  Abstract!Next
  BY <1>3, OnlyForgets, LiveFacts DEF TooManyRequests, AnsweredAtOnce
<1>4. ASSUME NEW r \in Requests,
             \/ \E a \in Addresses, ttl \in Ttls : StartPublish(r, a, ttl)
             \/ BodyRefused(r)
             \/ \E size \in Sizes : Full(r, size)
      PROVE  Abstract!Next
  BY <1>4, OnlyForgets, LiveFacts DEF StartPublish, BodyRefused, Full
<1>5. ASSUME NEW a \in Addresses, NEW id \in Ids, Withdraw(a, id)
      PROVE  Abstract!Next
  <2>1. \A i \in Ids : rows'[i] # None => rows[i] # None
    BY <1>5, LiveFacts DEF Withdraw, TypeOK
  <2> QED
    BY <1>5, <2>1, OnlyForgets DEF Withdraw
<1>6. CASE Evict
  <2>1. \A i \in Ids : rows'[i] # None => rows[i] # None
    BY <1>6 DEF Evict
  <2> QED
    BY <1>6, <2>1, OnlyForgets DEF Evict
<1>7. CASE Schedule \/ FireAlarm \/ Tick \/ UNCHANGED vars
  BY <1>7, OnlyForgets, LiveFacts DEF Schedule, FireAlarm, Tick, vars
<1> QED
  BY <1>1, <1>2, <1>3, <1>4, <1>5, <1>6, <1>7 DEF Next, Publishing

\* The Durable Object and the daemon promise clients the same thing.
THEOREM RefinesObjectStore == Spec => ImplementsObjectStore
<1>1. Init => Abstract!Init
  BY DEF Init, Abstract!Init, Stage
<1>2. TypeOK /\ TypeOK' /\ OneLife /\ OneLife' /\ [Next]_vars => Abstract!Next
  BY StepRefines
<1> QED
  BY <1>1, <1>2, TypeCorrect, OneLifeHolds, PTL
  DEF Spec, ImplementsObjectStore, Abstract!Spec

==============================================================================
