---------------------------- MODULE RelaydProofs ----------------------------
(***************************************************************************)
(* What TLAPS proves of Relayd, for any number of workers, ids, addresses  *)
(* and sizes, and any limits.  Two inductive invariants carry everything:  *)
(* TypeOK, and on top of it Custody.                                       *)
(***************************************************************************)
EXTENDS Relayd, FiniteSetTheorems, TLAPS

------------------------------------------------------------------------------
(* Lemmas about the operators *)

\* drop_expired keeps an object as it is or drops it; it drops exactly those
\* whose expiry has come.
LEMMA LiveFacts ==
  ASSUME TypeOK
  PROVE  /\ Live \in [Ids -> Objects \cup {None}]
         /\ \A id \in Ids : Live[id] # None =>
              /\ Live[id] = store[id]
              /\ store[id] # None
              /\ store[id].expires > now
  BY DEF Live, TypeOK

\* One call of `allow` leaves a table of windows a table of windows.
LEMMA RecordedType ==
  ASSUME NEW w \in Windows, NEW a \in Addresses, NEW t \in Nat
  PROVE  Recorded(w, a, t) \in Windows
<1>1. Swept(w, t) \in Windows
  BY DEF Swept, Windows
<1>2. Current(w, a, t) \in [started : Nat, count : Nat]
  BY <1>1 DEF Current, Running, Windows
<1>3. [Current(w, a, t) EXCEPT !.count = @ + 1] \in [started : Nat, count : Nat]
  BY <1>2
<1> QED
  BY <1>1, <1>3 DEF Recorded, Windows

\* The lifetime granted is a number of ticks.
LEMMA GrantedType == \A ttl \in Ttls : GrantedTtl(ttl) \in Nat
  BY RelaydAssumption DEF GrantedTtl

------------------------------------------------------------------------------
(* Type correctness *)

\* Every variable keeps its type, whatever the constants.
LEMMA TypeInit == Init => TypeOK
  BY RelaydAssumption DEF Init, TypeOK, LocalsOK, Windows, Places

LEMMA TypeStep == TypeOK /\ [Next]_vars => TypeOK'
<1> SUFFICES ASSUME TypeOK, [Next]_vars PROVE TypeOK'
  OBVIOUS
<1> USE DEF TypeOK, LocalsOK, Places
<1>1. ASSUME NEW w \in Workers, NEW a \in Addresses, TooManyRequests(w, a)
      PROVE  TypeOK'
  BY <1>1, RecordedType DEF TooManyRequests
<1>2. ASSUME NEW w \in Workers, NEW a \in Addresses, AnsweredAtOnce(w, a)
      PROVE  TypeOK'
  BY <1>2, RecordedType DEF AnsweredAtOnce, Admitted
<1>3. ASSUME NEW w \in Workers, NEW a \in Addresses, NEW ttl \in Ttls,
             StartPublish(w, a, ttl)
      PROVE  TypeOK'
  BY <1>3, RecordedType, GrantedType DEF StartPublish, Admitted
<1>4. ASSUME NEW w \in Workers, BodyRefused(w) PROVE TypeOK'
  BY <1>4 DEF BodyRefused, Done
<1>5. ASSUME NEW w \in Workers, NEW id \in Ids, NEW size \in Sizes,
             PutAccepted(w, id, size)
      PROVE  TypeOK'
  <2>1. [size |-> size, expires |-> now + due[w]] \in Objects
    BY <1>5, RelaydAssumption DEF PutAccepted, Objects
  <2>2. store' \in [Ids -> Objects \cup {None}]
    BY <1>5, <2>1, LiveFacts DEF PutAccepted
  <2> QED
    BY <1>5, <2>2 DEF PutAccepted
<1>6. ASSUME NEW w \in Workers, NEW size \in Sizes, PutRefused(w, size)
      PROVE  TypeOK'
  BY <1>6, LiveFacts DEF PutRefused, Done
<1>7. ASSUME NEW w \in Workers, Answer(w) PROVE TypeOK'
  BY <1>7 DEF Answer, Done
<1>8. ASSUME NEW w \in Workers, NEW a \in Addresses, NEW id \in Ids,
             StartRetrieve(w, a, id)
      PROVE  TypeOK'
  BY <1>8, RecordedType DEF StartRetrieve, Admitted, Objects
<1>9. ASSUME NEW w \in Workers, Take(w) PROVE TypeOK'
  <2>1. /\ store' \in [Ids -> Objects \cup {None}]
        /\ store[asked[w]].size \in Nat
    BY <1>9, LiveFacts DEF Take, Objects
  <2> QED
    BY <1>9, <2>1 DEF Take
<1>10. ASSUME NEW w \in Workers, TakeMissed(w) PROVE TypeOK'
  BY <1>10, LiveFacts DEF TakeMissed, Done
<1>11. ASSUME NEW w \in Workers, Delivered(w) PROVE TypeOK'
  BY <1>11 DEF Delivered, Done
<1>12. ASSUME NEW w \in Workers, DeliveryFailed(w) PROVE TypeOK'
  BY <1>12 DEF DeliveryFailed, TimeLeft
<1>13. ASSUME NEW w \in Workers, DeliveryAbandoned(w) PROVE TypeOK'
  BY <1>13 DEF DeliveryAbandoned, Done
<1>14. ASSUME NEW w \in Workers, Restore(w) PROVE TypeOK'
  <2>1. [size |-> hand[w], expires |-> due[w]] \in Objects
    BY <1>14 DEF Restore, Objects
  <2> QED
    BY <1>14, <2>1 DEF Restore, Done
<1>15. ASSUME NEW w \in Workers, NEW a \in Addresses, NEW id \in Ids,
              Withdraw(w, a, id)
       PROVE  TypeOK'
  BY <1>15, RecordedType DEF Withdraw, Admitted
<1>16. CASE Sweep
  BY <1>16, LiveFacts DEF Sweep
<1>17. CASE Tick
  BY <1>17 DEF Tick
<1>18. CASE Restart
  BY <1>18, RelaydAssumption DEF Restart, Windows
<1>19. CASE UNCHANGED vars
  BY <1>19 DEF vars
<1> QED
  BY <1>1, <1>2, <1>3, <1>4, <1>5, <1>6, <1>7, <1>8, <1>9, <1>10, <1>11, <1>12,
     <1>13, <1>14, <1>15, <1>16, <1>17, <1>18, <1>19
  DEF Next, Handle, Publishing, Retrieving

\* Every reachable state of the relay is well typed: a worker never reaches a
\* step of its handler with a local variable that step needs still unset.
THEOREM TypeCorrect == Spec => []TypeOK
<1>1. TypeOK /\ [Next]_vars => TypeOK'
  BY TypeStep
<1> QED
  BY TypeInit, <1>1, PTL DEF Spec

------------------------------------------------------------------------------
(* Custody *)

LEMMA CustodyInit == Init => Custody
  BY RelaydAssumption DEF Init, Custody, InHand

\* The bytes of an id stay in one place whatever a worker, the sweeper, the
\* clock or a restart does.
LEMMA CustodyStep == TypeOK /\ Custody /\ [Next]_vars => Custody'
<1> SUFFICES ASSUME TypeOK, Custody, [Next]_vars PROVE Custody'
  OBVIOUS
<1> USE RelaydAssumption DEF Custody, InHand, TypeOK, LocalsOK
<1>1. ASSUME NEW w \in Workers, NEW a \in Addresses, TooManyRequests(w, a)
      PROVE  Custody'
  BY <1>1 DEF TooManyRequests
<1>2. ASSUME NEW w \in Workers, NEW a \in Addresses, AnsweredAtOnce(w, a)
      PROVE  Custody'
  BY <1>2 DEF AnsweredAtOnce
<1>3. ASSUME NEW w \in Workers, NEW a \in Addresses, NEW ttl \in Ttls,
             StartPublish(w, a, ttl)
      PROVE  Custody'
  BY <1>3 DEF StartPublish
<1>4. ASSUME NEW w \in Workers, BodyRefused(w) PROVE Custody'
  BY <1>4 DEF BodyRefused, Done
<1>5. ASSUME NEW w \in Workers, NEW id \in Ids, NEW size \in Sizes,
             PutAccepted(w, id, size)
      PROVE  Custody'
  <2>1. /\ deadline[id] = None
        /\ now + due[w] \in Nat
    BY <1>5 DEF PutAccepted
  <2>2. store[id] = None /\ delivered[id] = 0
    BY <2>1 DEF Objects
  <2>3. \A v \in Workers :
          pc[v] \in {"answering", "taking", "sending", "restoring"} => asked[v] # id
    BY <2>1
  <2>4. \A i \in Ids \ {id} : store'[i] # None => store'[i] = store[i] /\ store[i] # None
    BY <1>5, LiveFacts DEF PutAccepted
  <2>5. /\ store'[id] = [size |-> size, expires |-> now + due[w]]
        /\ deadline'[id] = now + due[w]
    BY <1>5, LiveFacts DEF PutAccepted
  <2>6. /\ \A i \in Ids \ {id} : deadline'[i] = deadline[i]
        /\ delivered' = delivered /\ told' = told /\ due' = due
    BY <1>5 DEF PutAccepted
  <2>7. /\ pc'[w] = "answering" /\ asked'[w] = id
        /\ \A v \in Workers \ {w} : pc'[v] = pc[v] /\ asked'[v] = asked[v]
    BY <1>5 DEF PutAccepted
  <2>8. \A i \in Ids :
          /\ delivered'[i] <= 1
          /\ deadline'[i] = None => delivered'[i] = 0 /\ i \notin told'
          /\ store'[i] # None => /\ store'[i].expires = deadline'[i]
                                 /\ delivered'[i] = 0
    BY <2>1, <2>2, <2>4, <2>5, <2>6
  <2>9. \A i \in Ids \ {id} : store[i] = None => store'[i] = None
    BY <2>4
  <2> QED
    BY <2>1, <2>3, <2>5, <2>6, <2>7, <2>8, <2>9
<1>6. ASSUME NEW w \in Workers, NEW size \in Sizes, PutRefused(w, size)
      PROVE  Custody'
  BY <1>6, LiveFacts DEF PutRefused, Done
<1>7. ASSUME NEW w \in Workers, Answer(w) PROVE Custody'
  BY <1>7 DEF Answer, Done
<1>8. ASSUME NEW w \in Workers, NEW a \in Addresses, NEW id \in Ids,
             StartRetrieve(w, a, id)
      PROVE  Custody'
  BY <1>8 DEF StartRetrieve
<1>9. ASSUME NEW w \in Workers, Take(w) PROVE Custody'
  <2>1. asked[w] \in Ids /\ store[asked[w]] # None /\ pc[w] = "taking"
    BY <1>9, LiveFacts DEF Take
  <2>2. delivered[asked[w]] = 0 /\ \A v \in Workers : ~InHand(v, asked[w])
    BY <2>1
  <2>3. \A i \in Ids : store'[i] # None =>
          i # asked[w] /\ store'[i] = store[i] /\ store[i] # None
    BY <1>9, <2>1, LiveFacts DEF Take
  <2> QED
    BY <1>9, <2>1, <2>2, <2>3 DEF Take
<1>10. ASSUME NEW w \in Workers, TakeMissed(w) PROVE Custody'
  BY <1>10, LiveFacts DEF TakeMissed, Done
<1>11. ASSUME NEW w \in Workers, Delivered(w) PROVE Custody'
  BY <1>11 DEF Delivered, Done
<1>12. ASSUME NEW w \in Workers, DeliveryFailed(w) PROVE Custody'
  BY <1>12 DEF DeliveryFailed
<1>13. ASSUME NEW w \in Workers, DeliveryAbandoned(w) PROVE Custody'
  BY <1>13 DEF DeliveryAbandoned, Done
<1>14. ASSUME NEW w \in Workers, Restore(w) PROVE Custody'
  <2>1. /\ due[w] = deadline[asked[w]] /\ asked[w] \in Ids
        /\ store'[asked[w]] = [size |-> hand[w], expires |-> due[w]]
    BY <1>14 DEF Restore
  <2> QED
    BY <1>14, <2>1 DEF Restore, Done
<1>15. ASSUME NEW w \in Workers, NEW a \in Addresses, NEW id \in Ids,
              Withdraw(w, a, id)
       PROVE  Custody'
  BY <1>15 DEF Withdraw
<1>16. CASE Sweep
  BY <1>16, LiveFacts DEF Sweep
<1>17. CASE Tick
  BY <1>17 DEF Tick
<1>18. CASE Restart
  BY <1>18 DEF Restart
<1>19. CASE UNCHANGED vars
  BY <1>19 DEF vars
<1> QED
  BY <1>1, <1>2, <1>3, <1>4, <1>5, <1>6, <1>7, <1>8, <1>9, <1>10, <1>11, <1>12,
     <1>13, <1>14, <1>15, <1>16, <1>17, <1>18, <1>19
  DEF Next, Handle, Publishing, Retrieving

\* In every reachable state the bytes of an id are in at most one place.
THEOREM CustodyInvariant == Spec => []Custody
<1>1. TypeOK /\ Custody /\ [Next]_vars => Custody'
  BY CustodyStep
<1> QED
  BY CustodyInit, <1>1, TypeCorrect, PTL DEF Spec

\* No ciphertext is ever delivered twice, for any number of worker threads.
THEOREM SingleUseHolds == Spec => []SingleUse
<1>1. Custody => SingleUse
  BY DEF Custody, SingleUse
<1> QED
  BY <1>1, CustodyInvariant, PTL

\* An object that was put back has exactly the expiry it was published with.
THEOREM LifetimeHolds == Spec => []LifetimeKept
<1>1. Custody => LifetimeKept
  BY DEF Custody, LifetimeKept
<1> QED
  BY <1>1, CustodyInvariant, PTL

------------------------------------------------------------------------------
(* What the relay holds in all *)

LEMMA InBytes ==
  ASSUME NEW objects, NEW x
  PROVE  x \in Bytes(objects) <=>
           \E id \in Ids : objects[id] # None /\ x \in {id} \X (1..objects[id].size)
  BY DEF Bytes, Held

\* An object has as many bytes as its size says.
LEMMA BytesOfOne ==
  ASSUME NEW id, NEW size \in Nat
  PROVE  IsFiniteSet({id} \X (1..size)) /\ Cardinality({id} \X (1..size)) = size
<1>1. IsFiniteSet(1..size) /\ Cardinality(1..size) = size
  BY FS_Interval
<1>2. IsFiniteSet({id}) /\ Cardinality({id}) = 1
  BY FS_Singleton
<1> QED
  BY <1>1, <1>2, FS_Product

\* The union of two finite sets is no larger than both together.
LEMMA AtMostBoth ==
  ASSUME NEW S, IsFiniteSet(S), NEW T, IsFiniteSet(T)
  PROVE  /\ IsFiniteSet(S \cup T) /\ Cardinality(S \cup T) \in Nat
         /\ Cardinality(S) \in Nat /\ Cardinality(T) \in Nat
         /\ Cardinality(S \cup T) <= Cardinality(S) + Cardinality(T)
<1>1. IsFiniteSet(S \cup T) /\ IsFiniteSet(S \cap T)
      /\ Cardinality(S \cup T) = Cardinality(S) + Cardinality(T) - Cardinality(S \cap T)
  BY FS_Union, FS_Intersection
<1>2. /\ Cardinality(S) \in Nat /\ Cardinality(T) \in Nat
      /\ Cardinality(S \cap T) \in Nat /\ Cardinality(S \cup T) \in Nat
  BY <1>1, FS_CardinalityType
<1> QED
  BY <1>1, <1>2

\* The bytes that workers have taken out of the store and may put back.
Carrying(w) == pc[w] \in {"sending", "restoring"}
InHands == UNION {{asked[w]} \X (1..hand[w]) : w \in {v \in Workers : Carrying(v)}}
Around == Bytes(store) \cup InHands

LEMMA InAround ==
  ASSUME NEW x
  PROVE  x \in Around <=>
           \/ \E id \in Ids : store[id] # None /\ x \in {id} \X (1..store[id].size)
           \/ \E w \in Workers : Carrying(w) /\ x \in {asked[w]} \X (1..hand[w])
  BY InBytes DEF Around, InHands

LEMMA InAroundNext ==
  ASSUME NEW x
  PROVE  x \in Around' <=>
           \/ \E id \in Ids : store'[id] # None /\ x \in {id} \X (1..store'[id].size)
           \/ \E w \in Workers : Carrying(w)' /\ x \in {asked'[w]} \X (1..hand'[w])
  BY DEF Around, InHands, Bytes, Held

\* No object is over the ceiling of one, wherever it is.
SizesOK ==
  /\ \A id \in Ids : store[id] # None => store[id].size <= MaxObject
  /\ \A w \in Workers : Carrying(w) => hand[w] <= MaxObject

Limit == MaxTotal + (Cardinality(Workers) - 1) * MaxObject
Bounded == SizesOK /\ IsFiniteSet(Around) /\ Cardinality(Around) <= Limit

\* Between two puts the bytes the relay has can only become fewer: they go from
\* the store to a hand and back.
LEMMA NothingNew ==
  ASSUME TypeOK, [Next]_vars,
         ~\E w \in Workers, id \in Ids, size \in Sizes : PutAccepted(w, id, size)
  PROVE  Around' \subseteq Around /\ (SizesOK => SizesOK')
<1> USE DEF TypeOK, LocalsOK, Carrying, SizesOK
<1> DEFINE Less == /\ \A id \in Ids : store'[id] # None => store'[id] = store[id]
                   /\ \A w \in Workers : Carrying(w)' =>
                        Carrying(w) /\ asked'[w] = asked[w] /\ hand'[w] = hand[w]
           Fewer == Around' \subseteq Around /\ (SizesOK => SizesOK')
<1>1. Less => Fewer
  <2> SUFFICES ASSUME Less PROVE Fewer
    OBVIOUS
  <2>1. Around' \subseteq Around
    BY InAround, InAroundNext
  <2> QED
    BY <2>1
<1>2. ASSUME NEW w \in Workers, NEW a \in Addresses,
             TooManyRequests(w, a) \/ AnsweredAtOnce(w, a)
      PROVE  Less
  BY <1>2 DEF TooManyRequests, AnsweredAtOnce
<1>3. ASSUME NEW w \in Workers, NEW a \in Addresses, NEW ttl \in Ttls, StartPublish(w, a, ttl)
      PROVE  Less
  BY <1>3 DEF StartPublish
<1>4. ASSUME NEW w \in Workers, BodyRefused(w) \/ Answer(w) PROVE Less
  BY <1>4 DEF BodyRefused, Answer, Done
<1>5. ASSUME NEW w \in Workers, NEW size \in Sizes, PutRefused(w, size) PROVE Less
  BY <1>5, LiveFacts DEF PutRefused, Done
<1>6. ASSUME NEW w \in Workers, NEW a \in Addresses, NEW id \in Ids, StartRetrieve(w, a, id)
      PROVE  Less
  BY <1>6 DEF StartRetrieve
<1>7. ASSUME NEW w \in Workers, TakeMissed(w) PROVE Less
  BY <1>7, LiveFacts DEF TakeMissed, Done
<1>8. ASSUME NEW w \in Workers, Delivered(w) \/ DeliveryFailed(w) \/ DeliveryAbandoned(w)
      PROVE  Less
  BY <1>8 DEF Delivered, DeliveryFailed, DeliveryAbandoned, Done
<1>9. ASSUME NEW w \in Workers, NEW a \in Addresses, NEW id \in Ids, Withdraw(w, a, id)
      PROVE  Less
  BY <1>9 DEF Withdraw
<1>10. (Sweep => Less) /\ (Tick => Less) /\ (Restart => Less) /\ (UNCHANGED vars => Less)
  <2>1. CASE Sweep
    BY <2>1, LiveFacts DEF Sweep
  <2>2. CASE Tick
    BY <2>2 DEF Tick
  <2>3. CASE Restart
    BY <2>3 DEF Restart
  <2>4. CASE UNCHANGED vars
    BY <2>4 DEF vars
  <2> QED
    BY <2>1, <2>2, <2>3, <2>4
<1>11. ASSUME NEW w \in Workers, Take(w) PROVE Fewer
  <2>1. /\ asked[w] \in Ids /\ store[asked[w]] # None /\ hand'[w] = store[asked[w]].size
        /\ \A id \in Ids : store'[id] # None => store'[id] = store[id]
        /\ asked' = asked /\ \A v \in Workers \ {w} : pc'[v] = pc[v] /\ hand'[v] = hand[v]
    BY <1>11, LiveFacts DEF Take
  <2>2. Around' \subseteq Around
    BY <2>1, InAround, InAroundNext
  <2> QED
    BY <2>1, <2>2
<1>12. ASSUME NEW w \in Workers, Restore(w) PROVE Fewer
  <2>1. /\ asked[w] \in Ids /\ Carrying(w)
        /\ store'[asked[w]].size = hand[w]
        /\ \A id \in Ids \ {asked[w]} : store'[id] = store[id]
    BY <1>12 DEF Restore
  <2>2. /\ ~Carrying(w)'
        /\ \A v \in Workers \ {w} :
             pc'[v] = pc[v] /\ hand'[v] = hand[v] /\ asked'[v] = asked[v]
    BY <1>12 DEF Restore, Done
  <2>3. Around' \subseteq Around
    BY <2>1, <2>2, InAround, InAroundNext
  <2> QED
    BY <2>1, <2>2, <2>3
<1> HIDE DEF Less
<1> QED
  BY <1>1, <1>2, <1>3, <1>4, <1>5, <1>6, <1>7, <1>8, <1>9, <1>10, <1>11, <1>12
  DEF Next, Handle, Publishing, Retrieving

\* All workers but one can have at most as many objects in their hands, none
\* of them over the ceiling of one.
LEMMA HandsBounded ==
  ASSUME NEW w \in Workers, NEW S,
         \A x \in S : \E v \in Workers \ {w} : x \in {asked[v]} \X (1..MaxObject)
  PROVE  IsFiniteSet(S) /\ Cardinality(S) <= (Cardinality(Workers) - 1) * MaxObject
<1> DEFINE Pairs == (Workers \ {w}) \X (1..MaxObject)
           Image == {<<asked[p[1]], p[2]>> : p \in Pairs}
           F == [p \in Pairs |-> <<asked[p[1]], p[2]>>]
<1>1. /\ IsFiniteSet(Workers \ {w})
      /\ Cardinality(Workers \ {w}) = Cardinality(Workers) - 1
  BY FS_RemoveElement, RelaydAssumption
<1>2. IsFiniteSet(1..MaxObject) /\ Cardinality(1..MaxObject) = MaxObject
  BY FS_Interval, RelaydAssumption
<1>3. IsFiniteSet(Pairs) /\ Cardinality(Pairs) = (Cardinality(Workers) - 1) * MaxObject
  BY ZenonT(30), <1>1, <1>2, FS_Product
<1>4. F \in Surjection(Pairs, Image)
  BY DEF Surjection
<1>5. S \in SUBSET Image
  <2> SUFFICES ASSUME NEW x \in S PROVE x \in Image
    OBVIOUS
  <2>1. PICK v \in Workers \ {w} : x \in {asked[v]} \X (1..MaxObject)
    OBVIOUS
  <2>2. PICK n \in 1..MaxObject : x = <<asked[v], n>>
    BY <2>1
  <2>3. <<v, n>> \in Pairs /\ <<v, n>>[1] = v /\ <<v, n>>[2] = n
    OBVIOUS
  <2> QED
    BY <2>2, <2>3
<1> HIDE DEF Pairs, Image, F
<1>6. IsFiniteSet(Image) /\ Cardinality(Image) <= Cardinality(Pairs)
  BY <1>3, <1>4, FS_Surjection
<1>7. IsFiniteSet(S) /\ Cardinality(S) <= Cardinality(Image)
  BY <1>5, <1>6, FS_Subset
<1>8. Cardinality(S) \in Nat /\ Cardinality(Image) \in Nat /\ Cardinality(Pairs) \in Nat
  BY <1>3, <1>6, <1>7, FS_CardinalityType
<1>9. Cardinality(S) <= Cardinality(Pairs)
  BY <1>6, <1>7, <1>8
<1> QED
  BY <1>3, <1>7, <1>9

\* Store::put: what is in the store fits under the ceiling, and the worker that
\* puts it there has nothing in its hand.
LEMMA PutBounded ==
  ASSUME TypeOK, Bounded, NEW w \in Workers, NEW id \in Ids, NEW size \in Sizes,
         PutAccepted(w, id, size)
  PROVE  Bounded'
<1> USE DEF TypeOK, LocalsOK, Carrying
<1> DEFINE Own == {id} \X (1..size)
           Others == {x \in InHands : \E v \in Workers \ {w} :
                                        Carrying(v) /\ x \in {asked[v]} \X (1..hand[v])}
<1>1. /\ pc[w] = "reading" /\ size \in Nat /\ size <= MaxObject
      /\ Total(Live) + size <= MaxTotal
  BY RelaydAssumption DEF PutAccepted, Fits
<1>2. /\ store'[id] = [size |-> size, expires |-> now + due[w]]
      /\ \A i \in Ids \ {id} : store'[i] = Live[i]
  BY LiveFacts DEF PutAccepted
<1>3. /\ hand' = hand /\ ~Carrying(w)'
      /\ \A v \in Workers \ {w} : pc'[v] = pc[v] /\ asked'[v] = asked[v]
  BY DEF PutAccepted
<1>4. store'[id].size = size
  BY <1>2
<1>5. SizesOK'
  <2>1. \A i \in Ids : store'[i] # None => store'[i].size <= MaxObject
    BY <1>1, <1>2, <1>4, LiveFacts DEF Bounded, SizesOK
  <2> QED
    BY <1>3, <2>1 DEF Bounded, SizesOK
<1>6. Around' \in SUBSET ((Bytes(Live) \cup Own) \cup Others)
  <2> SUFFICES ASSUME NEW x \in Around' PROVE x \in Bytes(Live) \cup Own \cup Others
    OBVIOUS
  <2>1. ASSUME NEW i \in Ids, store'[i] # None, x \in {i} \X (1..store'[i].size)
        PROVE  x \in Bytes(Live) \cup Own
    BY <1>2, <1>4, <2>1, InBytes
  <2>2. ASSUME NEW v \in Workers, Carrying(v)', x \in {asked'[v]} \X (1..hand'[v])
        PROVE  x \in Others
    BY <1>3, <2>2 DEF InHands
  <2> QED
    BY <2>1, <2>2, InAroundNext
<1>7. IsFiniteSet(Bytes(Live))
  <2>1. Bytes(Live) \in SUBSET Around
    BY LiveFacts, InBytes, InAround
  <2> QED
    BY <2>1, FS_Subset DEF Bounded
<1>8. IsFiniteSet(Own) /\ Cardinality(Own) = size
  BY <1>1, BytesOfOne
<1>9. IsFiniteSet(Others) /\ Cardinality(Others) <= (Cardinality(Workers) - 1) * MaxObject
  <2>1. \A x \in Others : \E v \in Workers \ {w} : x \in {asked[v]} \X (1..MaxObject)
    BY RelaydAssumption DEF Bounded, SizesOK
  <2> HIDE DEF Others
  <2> QED
    BY <2>1, HandsBounded
<1> HIDE DEF Own, Others
<1>10. /\ IsFiniteSet(Bytes(Live) \cup Own) /\ Total(Live) \in Nat
       /\ Cardinality(Bytes(Live) \cup Own) \in Nat
       /\ Cardinality(Bytes(Live) \cup Own) <= Total(Live) + size
  BY <1>7, <1>8, AtMostBoth DEF Total
<1>11. /\ IsFiniteSet((Bytes(Live) \cup Own) \cup Others) /\ Cardinality(Others) \in Nat
       /\ Cardinality((Bytes(Live) \cup Own) \cup Others) \in Nat
       /\ Cardinality((Bytes(Live) \cup Own) \cup Others)
            <= Cardinality(Bytes(Live) \cup Own) + Cardinality(Others)
  BY <1>9, <1>10, AtMostBoth
<1>12. IsFiniteSet(Around')
       /\ Cardinality(Around') <= Cardinality((Bytes(Live) \cup Own) \cup Others)
  BY <1>6, <1>11, FS_Subset
<1>13. Cardinality(Around') \in Nat
  BY <1>12, FS_CardinalityType
<1>14. Cardinality(Around') <= Limit
  <2>1. Cardinality(Workers) \in Nat /\ MaxObject \in Nat /\ MaxTotal \in Nat
    BY FS_CardinalityType, RelaydAssumption
  <2>2. (Cardinality(Workers) - 1) * MaxObject \in Int
    BY <2>1
  <2> QED
    BY <1>1, <1>9, <1>10, <1>11, <1>12, <1>13, <2>1, <2>2 DEF Limit
<1> QED
  BY <1>5, <1>12, <1>14 DEF Bounded, Limit

LEMMA BoundedInit == Init => Bounded
<1> SUFFICES ASSUME Init PROVE Bounded
  OBVIOUS
<1>1. Around = {}
  BY InAround DEF Init, Carrying
<1>2. Cardinality(Workers) \in Nat /\ MaxObject \in Nat /\ MaxTotal \in Nat
  BY FS_CardinalityType, RelaydAssumption
<1>3. 0 <= Limit
  <2>1. CASE Cardinality(Workers) = 0
    BY <1>2, <2>1, RelaydAssumption DEF Limit
  <2>2. CASE Cardinality(Workers) # 0
    <3>1. PICK others \in Nat : others = Cardinality(Workers) - 1
      BY <1>2, <2>2
    <3>2. others * MaxObject \in Nat
      BY <1>2, <3>1
    <3> QED
      BY <1>2, <3>1, <3>2 DEF Limit
  <2> QED
    BY <2>1, <2>2
<1> QED
  BY <1>1, <1>3, FS_EmptySet DEF Init, Bounded, SizesOK, Carrying

LEMMA BoundedStep == TypeOK /\ Bounded /\ [Next]_vars => Bounded'
<1> SUFFICES ASSUME TypeOK, Bounded, [Next]_vars PROVE Bounded'
  OBVIOUS
<1>1. CASE \E w \in Workers, id \in Ids, size \in Sizes : PutAccepted(w, id, size)
  BY <1>1, PutBounded
<1>2. CASE ~\E w \in Workers, id \in Ids, size \in Sizes : PutAccepted(w, id, size)
  <2>1. Around' \in SUBSET Around /\ SizesOK'
    BY <1>2, NothingNew DEF Bounded
  <2>2. IsFiniteSet(Around') /\ Cardinality(Around') <= Cardinality(Around)
    BY <2>1, FS_Subset DEF Bounded
  <2>3. Cardinality(Around') \in Nat /\ Cardinality(Around) \in Nat /\ Limit \in Int
    BY <2>2, FS_CardinalityType, RelaydAssumption DEF Bounded, Limit
  <2>4. Cardinality(Around') <= Limit
    BY <2>2, <2>3 DEF Bounded
  <2> QED
    BY <2>1, <2>2, <2>4 DEF Bounded, Limit
<1> QED
  BY <1>1, <1>2

\* What failed deliveries put back without looking at the ceiling (restore) is
\* at most one object for every other worker, for any number of workers.
THEOREM OvershootHolds == Spec => []OvershootBounded
<1>1. TypeOK /\ Bounded /\ [Next]_vars => Bounded'
  BY BoundedStep
<1>2. ASSUME Bounded PROVE OvershootBounded
  <2>1. Bytes(store) \in SUBSET Around
    BY DEF Around
  <2>2. IsFiniteSet(Bytes(store)) /\ Cardinality(Bytes(store)) <= Cardinality(Around)
    BY <1>2, <2>1, FS_Subset DEF Bounded
  <2>3. Cardinality(Bytes(store)) \in Nat /\ Cardinality(Around) \in Nat /\ Limit \in Int
    BY <1>2, <2>2, FS_CardinalityType, RelaydAssumption DEF Bounded, Limit
  <2>4. Cardinality(Bytes(store)) <= Limit
    BY <1>2, <2>2, <2>3 DEF Bounded
  <2> QED
    BY <2>4 DEF OvershootBounded, Total, Limit
<1>3. Bounded => OvershootBounded
  BY <1>2
<1> QED
  BY BoundedInit, <1>1, <1>3, TypeCorrect, PTL DEF Spec

------------------------------------------------------------------------------
(* What a step may never do *)

\* An object is only ever taken before its deadline: the one step that fills a
\* worker's hand looks at a store from which the expired have been dropped.
LEMMA ServedInTimeStep ==
  ASSUME TypeOK, Custody, [Next]_vars, NEW w \in Workers,
         hand[w] = None, hand'[w] # None
  PROVE  now < deadline[asked[w]]
<1> USE DEF TypeOK
<1>1. ASSUME NEW v \in Workers, Take(v) PROVE v = w
  BY <1>1 DEF Take
<1>2. ASSUME NEW v \in Workers, Take(v), v = w PROVE now < deadline[asked[w]]
  BY <1>2, LiveFacts DEF Take, Custody, LocalsOK, Objects
<1>3. \E v \in Workers : Take(v)
  BY ZenonT(30) DEF Next, Handle, Publishing, Retrieving, vars, TooManyRequests,
     AnsweredAtOnce, StartPublish, BodyRefused, PutAccepted, PutRefused, Answer,
     StartRetrieve, TakeMissed, Delivered, DeliveryFailed, DeliveryAbandoned,
     Restore, Withdraw, Sweep, Tick, Restart, Done
<1> QED
  BY <1>1, <1>2, <1>3

\* No object is handed out after its deadline, however late the sweeper runs.
THEOREM ServedInTimeHolds == Spec => ServedInTime
<1>1. TypeOK /\ Custody /\ [Next]_vars =>
        [\A w \in Workers :
           hand[w] = None /\ hand'[w] # None => now < deadline[asked[w]]]_vars
  BY ServedInTimeStep
<1> QED
  BY <1>1, TypeCorrect, CustodyInvariant, PTL DEF Spec, ServedInTime

------------------------------------------------------------------------------
(* The refinement of ObjectStore *)

\* A delivered object is in no store and in nobody's hand, so the odd stage of
\* the mapping never occurs.
LEMMA StageOf ==
  ASSUME TypeOK, Custody
  PROVE  \A id \in Ids :
           Stage(id) = IF deadline[id] = None THEN "unpublished"
                       ELSE IF delivered[id] > 0 THEN "delivered"
                       ELSE IF Present(id) THEN "held" ELSE "gone"
<1>1. \A id \in Ids : delivered[id] \in Nat /\ delivered[id] <= 1
  BY DEF TypeOK, Custody
<1>2. \A id \in Ids : delivered[id] > 0 => ~Present(id)
  BY <1>1 DEF Custody, Present, InHand
<1>3. \A id \in Ids : (delivered[id] = 0 <=> ~(delivered[id] > 0)) /\ ~(delivered[id] > 1)
  BY <1>1
<1> QED
  BY <1>2, <1>3, Zenon DEF Stage

LEMMA StageOfNext ==
  ASSUME TypeOK', Custody'
  PROVE  \A id \in Ids :
           Stage(id)' = IF deadline'[id] = None THEN "unpublished"
                        ELSE IF delivered'[id] > 0 THEN "delivered"
                        ELSE IF Present(id)' THEN "held" ELSE "gone"
<1>1. \A id \in Ids : delivered'[id] \in Nat /\ delivered'[id] <= 1
  BY DEF TypeOK, Custody
<1>2. \A id \in Ids : delivered'[id] > 0 => ~Present(id)'
  BY <1>1 DEF Custody, Present, InHand
<1>3. \A id \in Ids : (delivered'[id] = 0 <=> ~(delivered'[id] > 0)) /\ ~(delivered'[id] > 1)
  BY <1>1
<1> QED
  BY <1>2, <1>3, Zenon DEF Stage

\* A step that publishes and delivers nothing, and makes no object appear,
\* lets the abstract store forget the objects that are no longer present.
LEMMA OnlyForgets ==
  ASSUME TypeOK, Custody, TypeOK', Custody', deadline' = deadline, delivered' = delivered,
         \A id \in Ids : Present(id)' => Present(id)
  PROVE  Abstract!Next
<1> DEFINE F == {id \in Abstract!Held : ~Present(id)'}
<1>1. F \in SUBSET Abstract!Held
  OBVIOUS
<1>2. \A id \in Ids : Stage(id)' = IF id \in F THEN "gone" ELSE Stage(id)
  BY StageOf, StageOfNext DEF Abstract!Held
<1>3. Abstract!Forget(F)
  BY <1>2 DEF Abstract!Forget, Abstract!After
<1> QED
  BY <1>1, <1>3 DEF Abstract!Next

\* Publishing: the new object starts its life, expired ones are forgotten.
LEMMA PutPublishes ==
  ASSUME TypeOK, Custody, TypeOK', Custody',
         NEW w \in Workers, NEW id \in Ids, NEW size \in Sizes,
         PutAccepted(w, id, size)
  PROVE  Abstract!Next
<1> USE RelaydAssumption DEF TypeOK
<1> DEFINE F == {i \in Abstract!Held : i # id /\ ~Present(i)'}
<1>1. F \in SUBSET Abstract!Held
  OBVIOUS
<1>2. /\ deadline[id] = None /\ deadline'[id] # None /\ delivered'[id] = 0
      /\ store'[id] # None
      /\ \A i \in Ids \ {id} : deadline'[i] = deadline[i]
      /\ delivered' = delivered
  BY LiveFacts DEF PutAccepted, LocalsOK, Custody, Objects
<1>3. \A i \in Ids \ {id} : Present(i)' => Present(i)
  BY LiveFacts DEF PutAccepted, Present, InHand
<1>4. Stage(id) = "unpublished" /\ Stage(id)' = "held"
  BY <1>2, StageOf, StageOfNext DEF Present
<1>5. \A i \in Ids \ {id} : Stage(i)' = IF i \in F THEN "gone" ELSE Stage(i)
  BY <1>2, <1>3, StageOf, StageOfNext DEF Abstract!Held
<1>6. Abstract!Publish(id, F)
  BY <1>4, <1>5 DEF Abstract!Publish, Abstract!After
<1> QED
  BY <1>1, <1>6 DEF Abstract!Next

\* A complete delivery: the object in the worker's hand was held, and is now
\* delivered; nothing else changes.
LEMMA DeliveredDelivers ==
  ASSUME TypeOK, Custody, TypeOK', Custody', NEW w \in Workers, Delivered(w)
  PROVE  Abstract!Next
<1> USE RelaydAssumption DEF TypeOK
<1>0. PICK id \in Ids : id = asked[w]
  BY DEF Delivered, LocalsOK
<1>1. InHand(w, id) /\ deadline[id] # None /\ delivered[id] = 0
  BY <1>0 DEF Delivered, InHand, Custody
<1>2. Stage(id) = "held"
  BY <1>1, StageOf DEF Present
<1>3. delivered'[id] = 1 /\ deadline' = deadline /\ store' = store
  BY <1>0, <1>1 DEF Delivered
<1>4. Stage(id)' = "delivered"
  BY <1>1, <1>3, StageOfNext
<1>5. \A i \in Ids \ {id} : Stage(i)' = Stage(i)
  <2>1. \A i \in Ids \ {id} : Present(i)' <=> Present(i)
    BY <1>0, <1>3 DEF Delivered, Done, Present, InHand
  <2>2. \A i \in Ids \ {id} : delivered'[i] = delivered[i]
    BY <1>0 DEF Delivered
  <2> QED
    BY <1>3, <2>1, <2>2, StageOf, StageOfNext
<1>6. Abstract!Deliver(id, {})
  BY <1>1, <1>2, <1>4, <1>5 DEF Abstract!Deliver, Abstract!After
<1> QED
  BY <1>1, <1>6 DEF Abstract!Next

\* Every other step only ever loses objects.
LEMMA OthersOnlyLose ==
  ASSUME TypeOK, Custody, TypeOK', Custody', [Next]_vars,
         ~\E w \in Workers : Delivered(w),
         ~\E w \in Workers, id \in Ids, size \in Sizes : PutAccepted(w, id, size)
  PROVE  /\ deadline' = deadline /\ delivered' = delivered
         /\ \A id \in Ids : Present(id)' => Present(id)
<1> USE DEF TypeOK, Present, InHand
<1> DEFINE Loses == /\ deadline' = deadline /\ delivered' = delivered
                     /\ \A i \in Ids : Present(i)' => Present(i)
<1>1. ASSUME NEW w \in Workers, NEW a \in Addresses,
             TooManyRequests(w, a) \/ AnsweredAtOnce(w, a)
      PROVE  Loses
  BY <1>1 DEF TooManyRequests, AnsweredAtOnce
<1>2. ASSUME NEW w \in Workers, Publishing(w) PROVE Loses
  <2>1. ASSUME NEW a \in Addresses, NEW ttl \in Ttls, StartPublish(w, a, ttl)
        PROVE  Loses
    BY <2>1 DEF StartPublish
  <2>2. CASE BodyRefused(w)
    BY <2>2 DEF BodyRefused, Done
  <2>3. ASSUME NEW size \in Sizes, PutRefused(w, size) PROVE Loses
    BY <2>3, LiveFacts DEF PutRefused, Done
  <2>4. CASE Answer(w)
    BY <2>4 DEF Answer, Done
  <2> QED
    BY <1>2, <2>1, <2>2, <2>3, <2>4 DEF Publishing
<1>3. ASSUME NEW w \in Workers, Retrieving(w) PROVE Loses
  <2>1. ASSUME NEW a \in Addresses, NEW id \in Ids, StartRetrieve(w, a, id)
        PROVE  Loses
    BY <2>1 DEF StartRetrieve
  <2>2. CASE Take(w)
    <3>1. store[asked[w]] # None /\ \A i \in Ids : store'[i] # None => store[i] # None
      BY <2>2, LiveFacts DEF Take, LocalsOK
    <3> QED
      BY <2>2, <3>1 DEF Take
  <2>3. CASE TakeMissed(w)
    BY <2>3, LiveFacts DEF TakeMissed, Done
  <2>4. CASE DeliveryFailed(w)
    BY <2>4 DEF DeliveryFailed
  <2>5. CASE DeliveryAbandoned(w)
    BY <2>5 DEF DeliveryAbandoned, Done
  <2>6. CASE Restore(w)
    <3>1. InHand(w, asked[w]) /\ \A i \in Ids \ {asked[w]} : store'[i] = store[i]
      BY <2>6 DEF Restore, LocalsOK
    <3> QED
      BY <2>6, <3>1 DEF Restore, Done
  <2> QED
    BY <1>3, <2>1, <2>2, <2>3, <2>4, <2>5, <2>6 DEF Retrieving
<1>4. ASSUME NEW w \in Workers, NEW a \in Addresses, NEW id \in Ids, Withdraw(w, a, id)
      PROVE  Loses
  BY <1>4 DEF Withdraw
<1>5. CASE Sweep
  BY <1>5, LiveFacts DEF Sweep
<1>6. CASE Tick
  BY <1>6 DEF Tick
<1>7. CASE Restart
  BY <1>7 DEF Restart
<1>8. CASE UNCHANGED vars
  BY <1>8 DEF vars
<1> QED
  BY <1>1, <1>2, <1>3, <1>4, <1>5, <1>6, <1>7, <1>8 DEF Next, Handle

\* Every behaviour of the relay is one of a single-use object store: what is
\* published is delivered at most once, and what is gone stays gone.
THEOREM RefinesObjectStore == Spec => ImplementsObjectStore
<1>1. Init => Abstract!Init
  BY DEF Init, Abstract!Init, Stage
<1>2. ASSUME TypeOK, Custody, TypeOK', Custody', [Next]_vars
      PROVE  Abstract!Next
  BY <1>2, OnlyForgets, PutPublishes, DeliveredDelivers, OthersOnlyLose
<1>3. TypeOK /\ TypeOK' /\ Custody /\ Custody' /\ [Next]_vars => Abstract!Next
  BY <1>2
<1> QED
  BY <1>1, <1>3, TypeCorrect, CustodyInvariant, PTL
  DEF Spec, ImplementsObjectStore, Abstract!Spec

==============================================================================
