-------------------------- MODULE UniversalProofs --------------------------
(***************************************************************************)
(* What TLAPS proves of Universal, for any number of publishers, fetchers, *)
(* ids and files.  A publisher and a fetcher meet at the relay only, so    *)
(* the steps are split by who takes them: RelayStep says all that a step   *)
(* can do to an object, FetcherFrame that a fetcher touches its own batch. *)
(***************************************************************************)
EXTENDS Universal, TLAPS

------------------------------------------------------------------------------
(* The inductive invariant *)

\* An id in a token is that of an object; a delivered object is one whose token
\* was shown; whoever has the bytes of an object had them delivered; and what
\* the relay has in hand is an object it holds, for one request only.
RelayOK ==
  /\ \A p \in Publishers : token[p] # None => status[token[p]] # "unpublished"
  /\ \A id \in Ids : status[id] = "delivered" => id \in shown
  /\ \A f \in Fetchers : redeemed[f] # None => status[redeemed[f]] = "delivered"
  /\ \A f \in Fetchers : hand[f] # None => hand[f] \in shown /\ status[hand[f]] = "held"
  /\ \A f, g \in Fetchers : hand[f] # None /\ hand[f] = hand[g] => f = g

\* The files of a batch before the current one are in place, no other than the
\* current one has a temporary file, and that one only from its creation to its
\* renaming or removal.  None of it outlives a crash, but no fetch goes on then.
BatchOK(f) ==
  /\ f \in printed => fpc[f] \in {"told", "failed"}
  /\ f \in crashed => fpc[f] # "start" /\ f \notin Running
  /\ f \notin crashed =>
       /\ \A i \in 1 .. Files : i < n[f] => disk[f][<<"final", i>>] = "synced"
       /\ \A i \in 1 .. Files : i # n[f] => disk[f][<<"part", i>>] = "absent"
       /\ fpc[f] \notin {"filling", "syncing", "renaming", "discarding", "littered", "killed"}
            => disk[f][<<"part", n[f]>>] = "absent"
       /\ fpc[f] = "renaming" => disk[f][<<"part", n[f]>>] = "synced"
       /\ fpc[f] = "telling" \/ f \in printed
            => \A i \in 1 .. Files : disk[f][<<"final", i>>] = "synced"

IInv ==
  /\ TypeOK
  /\ RelayOK
  /\ OneBatchPerToken
  /\ WithdrawnUnread
  /\ WholeOrAbsent
  /\ \A f \in Fetchers : BatchOK(f)

------------------------------------------------------------------------------
(* What a step can do *)

\* All that ever becomes of an object, and whose doing it is.
Lives ==
  \A id \in Ids :
    \/ status'[id] = status[id]
    \/ status[id] = "unpublished" /\ status'[id] = "held"
    \/ status[id] = "held" /\ status'[id] = "delivered" /\ id \in shown
    \/ status[id] = "held" /\ status'[id] = "gone"

LEMMA PublishLives ==
  ASSUME TypeOK, NEW id \in Ids, Relay!Publish(id, {})
  PROVE  Relay!TypeOK' /\ Lives /\ status'[id] = "held" /\ status[id] = "unpublished"
  BY DEF TypeOK, Relay!TypeOK, Relay!Life, Relay!Publish, Relay!After, Lives

LEMMA DeliverLives ==
  ASSUME TypeOK, NEW id \in shown, Relay!Deliver(id, {})
  PROVE  /\ Relay!TypeOK' /\ Lives
         /\ status[id] = "held" /\ status'[id] = "delivered"
         /\ \A i \in Ids : i # id => status'[i] = status[i]
  BY DEF TypeOK, Relay!TypeOK, Relay!Life, Relay!Deliver, Relay!After, Lives

LEMMA ForgetLives ==
  ASSUME TypeOK, NEW S \in SUBSET Relay!Held, Relay!Forget(S)
  PROVE  /\ Relay!TypeOK' /\ Lives
         /\ \A id \in Ids : status'[id] = "delivered" <=> status[id] = "delivered"
         /\ \A id \in S : status'[id] = "gone"
         /\ \A id \in Ids \ S : status'[id] = status[id]
  BY DEF TypeOK, Relay!TypeOK, Relay!Life, Relay!Forget, Relay!After, Relay!Held, Lives

\* A publisher leaves the fetchers alone, hands nothing out and takes back no
\* token it has shown.
LEMMA PublisherFrame ==
  ASSUME TypeOK, NEW p \in Publishers, Publishing(p)
  PROVE  /\ UNCHANGED fetchVars /\ hand' = hand
         /\ Relay!TypeOK' /\ Lives
         /\ \A id \in InHand : status[id] = "held" => status'[id] = "held"
         /\ \A id \in Ids : status'[id] = "delivered" => status[id] = "delivered"
         /\ shown \subseteq shown'
         /\ \A q \in Publishers : q # p => spc'[q] = spc[q] /\ token'[q] = token[q]
         /\ \/ token' = token
            \/ spc[p] = "start" /\ token'[p] \in Ids /\ status'[token'[p]] = "held"
<1>1. CASE \E id \in Ids : PublishUnheard(p, id) \/ Publish(p, id)
  <2>1. PICK id \in Ids : PublishUnheard(p, id) \/ Publish(p, id)
    BY <1>1
  <2>2. Relay!TypeOK' /\ Lives /\ status'[id] = "held" /\ status[id] = "unpublished"
    BY <2>1, PublishLives DEF PublishUnheard, Publish
  <2>3. \A i \in Ids : /\ status'[i] = "delivered" => status[i] = "delivered"
                       /\ status[i] = "held" => status'[i] = "held"
    BY <2>1, <2>2 DEF PublishUnheard, Publish, Relay!Publish, Relay!After, TypeOK, Relay!TypeOK
  <2>4. InHand \subseteq Ids
    BY DEF InHand, TypeOK
  <2>5. /\ UNCHANGED fetchVars /\ hand' = hand /\ shown' = shown
        /\ spc[p] = "start" /\ \A q \in Publishers : q # p => spc'[q] = spc[q]
        /\ token' = token \/ token' = [token EXCEPT ![p] = id]
    BY <2>1 DEF PublishUnheard, Publish, PublisherGoes, TypeOK
  <2>6. token \in [Publishers -> Ids \cup {None}]
    BY DEF TypeOK
  <2>7. /\ \A q \in Publishers : q # p => token'[q] = token[q]
        /\ token' = token \/ token'[p] = id
    BY <2>5, <2>6
  <2>8. \A i \in InHand : status[i] = "held" => status'[i] = "held"
    BY <2>3, <2>4
  <2> QED
    BY <2>2, <2>3, <2>5, <2>7, <2>8
<1>2. CASE NotPublished(p) \/ Deliver(p) \/ Report(p) \/ DeliverFails(p)
           \/ ReportFails(p) \/ PublisherKilled(p)
  <2>1. status' = status /\ hand' = hand /\ token' = token /\ UNCHANGED fetchVars
    BY <1>2 DEF NotPublished, Deliver, Report, DeliverFails, ReportFails, PublisherKilled,
                relayVars
  <2>2. shown \subseteq shown' /\ \A q \in Publishers : q # p => spc'[q] = spc[q]
    BY <1>2 DEF NotPublished, Deliver, Report, DeliverFails, ReportFails, PublisherKilled,
                PublisherGoes, MayShow, TypeOK
  <2> QED
    BY <2>1, <2>2 DEF TypeOK, Relay!TypeOK, Lives
<1>3. CASE Withdraw(p) \/ WithdrawFails(p)
  <2>1. /\ token' = token /\ shown' = shown /\ hand' = hand /\ UNCHANGED fetchVars
        /\ \A q \in Publishers : q # p => spc'[q] = spc[q]
    BY <1>3 DEF Withdraw, WithdrawFails, PublisherGoes, TypeOK
  <2>2. CASE UNCHANGED status
    BY <2>1, <2>2 DEF TypeOK, Relay!TypeOK, Lives
  <2>3. CASE Deleted(p)
    <3>1. (({token[p]} \cap Relay!Held) \ InHand) \in SUBSET Relay!Held
      OBVIOUS
    <3>2. InHand \subseteq Ids
      BY DEF InHand, TypeOK
    <3> QED
      BY <2>1, <2>3, <3>1, <3>2, ForgetLives DEF Deleted
  <2> QED
    BY <1>3, <2>2, <2>3 DEF Withdraw, WithdrawFails
<1> QED
  BY <1>1, <1>2, <1>3 DEF Publishing

\* All that answering one fetcher does: the relay takes an object out for it, or
\* what is in hand for it is delivered or put back.
TakenFor(f) ==
  /\ status' = status /\ redeemed' = redeemed
  /\ \E id \in shown : /\ status[id] = "held" /\ id \notin InHand
                       /\ hand' = [hand EXCEPT ![f] = id]

AnsweredTo(f) ==
  /\ hand[f] # None /\ hand' = [hand EXCEPT ![f] = None]
  /\ \A id \in Ids : id # hand[f] => status'[id] = status[id]
  /\ \/ redeemed' = redeemed
     \/ status'[hand[f]] = "delivered" /\ redeemed' = [redeemed EXCEPT ![f] = hand[f]]

\* A fetcher leaves the publishers alone, and of the fetchers the others.
LEMMA FetcherFrame ==
  ASSUME TypeOK, RelayOK, NEW f \in Fetchers, Fetching(f)
  PROVE  /\ UNCHANGED pubVars
         /\ Relay!TypeOK' /\ Lives
         /\ UNCHANGED <<status, redeemed, hand>> \/ TakenFor(f) \/ AnsweredTo(f)
         /\ \A g \in Fetchers : g # f =>
              /\ fpc'[g] = fpc[g] /\ n'[g] = n[g] /\ disk'[g] = disk[g]
              /\ g \in printed' <=> g \in printed
              /\ g \in crashed' <=> g \in crashed
<1>1. CASE Retrieve(f) \/ RetrieveUnheard(f) \/ PutBack(f)
  <2>1. hand[f] # None /\ hand[f] \in Ids /\ hand[f] \in shown /\ status[hand[f]] = "held"
    BY <1>1 DEF Retrieve, RetrieveUnheard, PutBack, Emptied, RelayOK, TypeOK
  <2>2. /\ Relay!TypeOK' /\ Lives /\ AnsweredTo(f)
    <3>1. CASE Relay!Deliver(hand[f], {})
      BY <1>1, <2>1, <3>1, DeliverLives
      DEF Retrieve, RetrieveUnheard, PutBack, Emptied, AnsweredTo, fetchVars
    <3>2. CASE PutBack(f) /\ UNCHANGED status
      BY <3>2 DEF PutBack, Emptied, AnsweredTo, fetchVars, TypeOK, Relay!TypeOK, Lives
    <3>3. CASE PutBack(f) /\ Relay!Forget({hand[f]})
      <4>1. {hand[f]} \in SUBSET Relay!Held
        BY <2>1 DEF Relay!Held
      <4> QED
        BY <3>3, <4>1, ForgetLives DEF PutBack, Emptied, AnsweredTo, fetchVars
    <3> QED
      BY <1>1, <3>1, <3>2, <3>3 DEF Retrieve, RetrieveUnheard, PutBack
  <2> QED
    BY <1>1, <2>2 DEF Retrieve, RetrieveUnheard, PutBack, FetcherGoes, TypeOK, fetchVars
<1>6. CASE \E id \in Ids : Ask(f, id)
  <2>1. PICK id \in Ids : Ask(f, id)
    BY <1>6
  <2>2. TakenFor(f)
    BY <2>1 DEF Ask, TakenFor, Relay!Held
  <2> QED
    BY <2>1, <2>2 DEF Ask, FetcherGoes, TypeOK, Relay!TypeOK, Lives
<1>2. CASE Tell(f) \/ TellFails(f)
  BY <1>2 DEF Tell, TellFails, FetcherGoes, TypeOK, relayVars, Relay!TypeOK, Lives
<1>3. CASE HostCrashes(f)
  <2>1. UNCHANGED <<status, hand, pubVars, redeemed, n, printed>>
    BY <1>3 DEF HostCrashes, relayVars
  <2>2. \A g \in Fetchers : g # f =>
          fpc'[g] = fpc[g] /\ disk'[g] = disk[g] /\ (g \in crashed' <=> g \in crashed)
    BY <1>3 DEF HostCrashes, TypeOK
  <2> QED
    BY <2>1, <2>2 DEF TypeOK, Relay!TypeOK, Lives
<1>4. CASE \/ NotRetrieved(f) \/ Open(f) \/ MakeDirectory(f) \/ NotCreated(f)
           \/ WriteFails(f) \/ DiscardFails(f) \/ FetcherKilled(f)
  <2>1. UNCHANGED <<status, hand, pubVars, redeemed, n, disk, printed, crashed>>
    BY <1>4 DEF NotRetrieved, Open, MakeDirectory, NotCreated, WriteFails, DiscardFails,
                FetcherKilled, Elsewhere, relayVars
  <2>2. \A g \in Fetchers : g # f => fpc'[g] = fpc[g]
    BY <1>4 DEF NotRetrieved, Open, MakeDirectory, NotCreated, WriteFails, DiscardFails,
                FetcherKilled, FetcherGoes, TypeOK
  <2> QED
    BY <2>1, <2>2 DEF TypeOK, Relay!TypeOK, Lives
<1>5. CASE CreatePart(f) \/ Fill(f) \/ Sync(f) \/ Discard(f) \/ Rename(f)
  <2>1. UNCHANGED <<status, hand, pubVars, redeemed, printed, crashed>>
    BY <1>5 DEF CreatePart, Fill, Sync, Discard, Rename, OnDisk, relayVars
  <2>2. \A g \in Fetchers : g # f =>
          fpc'[g] = fpc[g] /\ n'[g] = n[g] /\ disk'[g] = disk[g]
    BY <1>5 DEF CreatePart, Fill, Sync, Discard, Rename, OnDisk, FetcherGoes, TypeOK
  <2> QED
    BY <2>1, <2>2 DEF TypeOK, Relay!TypeOK, Lives
<1> QED
  BY <1>1, <1>2, <1>3, <1>4, <1>5, <1>6 DEF Fetching

------------------------------------------------------------------------------
(* Type correctness *)

LEMMA PublisherType ==
  ASSUME TypeOK, NEW p \in Publishers, Publishing(p)
  PROVE  TypeOK'
<1>1. UNCHANGED <<hand, fetchVars>> /\ Relay!TypeOK'
  BY PublisherFrame
<1>2. /\ spc' \in [Publishers -> PublisherPlaces]
      /\ token' \in [Publishers -> Ids \cup {None}]
      /\ \A q \in Publishers :
           spc'[q] \notin {"start", "failed", "killed"} => token'[q] \in Ids
  <2>1. CASE \E id \in Ids : Publish(p, id)
    BY <2>1 DEF Publish, PublisherGoes, PublisherPlaces, TypeOK
  <2>2. CASE ~ \E id \in Ids : Publish(p, id)
    BY <2>2 DEF Publishing, NotPublished, PublishUnheard, Deliver, Report, DeliverFails,
                ReportFails, Withdraw, WithdrawFails, PublisherKilled, PublisherGoes,
                PublisherPlaces, TypeOK
  <2> QED
    BY <2>1, <2>2
<1>3. shown' \subseteq Ids
  BY DEF Publishing, NotPublished, PublishUnheard, Publish, Deliver, Report, DeliverFails,
         ReportFails, MayShow, Withdraw, WithdrawFails, PublisherKilled, PublisherGoes, TypeOK
<1> QED
  BY <1>1, <1>2, <1>3 DEF TypeOK, fetchVars

\* What a write, a removal or a renaming makes of a batch is a batch.
LEMMA FetcherType ==
  ASSUME TypeOK, RelayOK, NEW f \in Fetchers, Fetching(f)
  PROVE  TypeOK'
<1>1. UNCHANGED pubVars /\ Relay!TypeOK'
  BY FetcherFrame
<1>7. hand' \in [Fetchers -> Ids \cup {None}]
  BY FetcherFrame DEF TakenFor, AnsweredTo, TypeOK
<1>2. fpc' \in [Fetchers -> FetcherPlaces]
  BY DEF Fetching, Ask, Retrieve, RetrieveUnheard, PutBack, NotRetrieved, Open, MakeDirectory, CreatePart,
         NotCreated, Fill, Sync, WriteFails, Discard, DiscardFails, Rename, Tell, TellFails,
         FetcherKilled, HostCrashes, FetcherGoes, FetcherPlaces, fetchVars, TypeOK
<1>3. redeemed' \in [Fetchers -> Ids \cup {None}]
  <2>1. hand \in [Fetchers -> Ids \cup {None}] /\ redeemed \in [Fetchers -> Ids \cup {None}]
    BY DEF TypeOK
  <2>2. CASE redeemed' = redeemed
    BY <2>1, <2>2
  <2>3. CASE hand[f] # None /\ redeemed' = [redeemed EXCEPT ![f] = hand[f]]
    BY <2>1, <2>3
  <2> QED
    BY <2>2, <2>3, FetcherFrame DEF TakenFor, AnsweredTo
<1>4. n' \in [Fetchers -> 1 .. Files]
  <2>1. CASE Rename(f)
    BY <2>1, UniversalAssumption DEF Rename, TypeOK
  <2>2. CASE ~ Rename(f)
    BY <2>2 DEF Fetching, Ask, Retrieve, RetrieveUnheard, PutBack, NotRetrieved, Open, MakeDirectory,
         CreatePart, NotCreated, Fill, Sync, WriteFails, Discard, DiscardFails, Tell,
         TellFails, FetcherKilled, HostCrashes, fetchVars, TypeOK
  <2> QED
    BY <2>1, <2>2
<1>5. disk' \in [Fetchers -> [Names -> Contents]]
  <2>1. CASE CreatePart(f) \/ Fill(f) \/ Sync(f) \/ Discard(f)
    <3>1. <<"part", n[f]>> \in Names
      BY DEF TypeOK, Names
    <3>2. PICK c \in Contents : disk' = [disk EXCEPT ![f][<<"part", n[f]>>] = c]
      BY <2>1 DEF CreatePart, Fill, Sync, Discard, OnDisk, Contents
    <3> QED
      BY <3>1, <3>2 DEF TypeOK
  <2>2. CASE Rename(f)
    <3>1. <<"part", n[f]>> \in Names /\ <<"final", n[f]>> \in Names
      BY DEF TypeOK, Names
    <3>2. disk[f] \in [Names -> Contents] /\ "absent" \in Contents
      BY DEF TypeOK, Contents
    <3> DEFINE written == [disk[f] EXCEPT ![<<"final", n[f]>>] = disk[f][<<"part", n[f]>>],
                                          ![<<"part", n[f]>>] = "absent"]
    <3>3. written \in [Names -> Contents]
      BY <3>1, <3>2
    <3>4. disk' = [disk EXCEPT ![f] = written]
      BY <2>2 DEF Rename, TypeOK
    <3> HIDE DEF written
    <3> QED
      BY <3>3, <3>4 DEF TypeOK
  <2>3. CASE HostCrashes(f)
    BY <2>3 DEF HostCrashes, Survives, Contents, Names, TypeOK
  <2>4. CASE UNCHANGED disk
    BY <2>4 DEF TypeOK
  <2> QED
    BY <2>1, <2>2, <2>3, <2>4
    DEF Fetching, Ask, Retrieve, RetrieveUnheard, PutBack, NotRetrieved, Open, MakeDirectory, NotCreated,
        WriteFails, DiscardFails, Tell, TellFails, FetcherKilled, Elsewhere, fetchVars
<1>6. printed' \subseteq Fetchers /\ crashed' \subseteq Fetchers
  <2>1. \A g \in printed' \cup crashed' : g \in printed \cup crashed \cup {f}
    BY DEF Fetching, Ask, Retrieve, RetrieveUnheard, PutBack, NotRetrieved, Open, MakeDirectory, CreatePart,
         NotCreated, Fill, Sync, WriteFails, Discard, DiscardFails, Rename, Tell, TellFails,
         FetcherKilled, HostCrashes, OnDisk, Elsewhere, fetchVars
  <2> QED
    BY <2>1 DEF TypeOK
<1> QED
  BY <1>1, <1>2, <1>3, <1>4, <1>5, <1>6, <1>7 DEF TypeOK, pubVars

LEMMA RelayForgetsLives ==
  ASSUME TypeOK, RelayForgets \/ RelayRestarts
  PROVE  /\ Relay!TypeOK' /\ Lives /\ UNCHANGED <<pubVars, fetchVars>>
         /\ hand' \in [Fetchers -> Ids \cup {None}]
         /\ \A id \in Ids : status'[id] = "delivered" <=> status[id] = "delivered"
         /\ \A f \in Fetchers : hand'[f] # None =>
              hand'[f] = hand[f] /\ status'[hand[f]] = status[hand[f]]
<1>1. CASE RelayForgets
  <2>1. PICK forgotten \in SUBSET (Relay!Held \ InHand) : Relay!Forget(forgotten)
    BY <1>1 DEF RelayForgets
  <2>2. \A f \in Fetchers : hand[f] # None => hand[f] \in Ids \ forgotten
    BY <2>1 DEF InHand, TypeOK
  <2>3. hand' = hand /\ UNCHANGED <<pubVars, fetchVars>>
    BY <1>1 DEF RelayForgets
  <2>4. forgotten \in SUBSET Relay!Held
    BY <2>1
  <2>5. hand \in [Fetchers -> Ids \cup {None}]
    BY DEF TypeOK
  <2> QED
    BY <2>1, <2>2, <2>3, <2>4, <2>5, ForgetLives
<1>2. CASE RelayRestarts
  <2>1. hand' = [f \in Fetchers |-> None] /\ UNCHANGED <<pubVars, fetchVars>>
    BY <1>2 DEF RelayRestarts
  <2> QED
    BY <1>2, <2>1, ForgetLives DEF RelayRestarts
<1> QED
  BY <1>1, <1>2

LEMMA TypeInductive == TypeOK /\ RelayOK /\ [Next]_vars => TypeOK'
<1> SUFFICES ASSUME TypeOK, RelayOK, [Next]_vars PROVE TypeOK'
  OBVIOUS
<1>1. CASE RelayForgets \/ RelayRestarts
  BY <1>1, RelayForgetsLives DEF TypeOK, pubVars, fetchVars
<1>2. CASE UNCHANGED vars
  BY <1>2 DEF vars, relayVars, pubVars, fetchVars, TypeOK, Relay!TypeOK
<1> QED
  BY <1>1, <1>2, PublisherType, FetcherType DEF Next

------------------------------------------------------------------------------
(* Tokens and objects *)

LEMMA RelayInductive == IInv /\ TypeOK' /\ [Next]_vars => RelayOK' /\ OneBatchPerToken'
<1> SUFFICES ASSUME IInv, TypeOK', [Next]_vars PROVE RelayOK' /\ OneBatchPerToken'
  OBVIOUS
<1> USE DEF IInv
<1>1. ASSUME NEW p \in Publishers, Publishing(p) PROVE RelayOK' /\ OneBatchPerToken'
  <2>1. redeemed' = redeemed /\ hand' = hand
    BY <1>1, PublisherFrame DEF fetchVars
  <2>2. \A q \in Publishers : token'[q] # None => status'[token'[q]] # "unpublished"
    <3>1. /\ token \in [Publishers -> Ids \cup {None}]
          /\ \A q \in Publishers : token[q] # None => status[token[q]] # "unpublished"
      BY DEF TypeOK, RelayOK
    <3> QED
      BY <1>1, <3>1, PublisherFrame DEF Lives
  <2>3. \A id \in Ids : status'[id] = "delivered" => id \in shown'
    BY <1>1, PublisherFrame DEF RelayOK
  <2>4. \A f \in Fetchers : redeemed'[f] # None => status'[redeemed'[f]] = "delivered"
    BY SMTT(30), <1>1, <2>1, PublisherFrame DEF RelayOK, Lives, TypeOK
  <2>5. \A f \in Fetchers : hand'[f] # None => hand'[f] \in shown' /\ status'[hand'[f]] = "held"
    BY <1>1, <2>1, PublisherFrame DEF RelayOK, InHand
  <2> QED
    BY <2>1, <2>2, <2>3, <2>4, <2>5 DEF RelayOK, OneBatchPerToken
<1>2. ASSUME NEW f \in Fetchers, Fetching(f) PROVE RelayOK' /\ OneBatchPerToken'
  <2>1. UNCHANGED pubVars /\ Lives
    BY <1>2, FetcherFrame
  <2>2. /\ \A q \in Publishers : token'[q] # None => status'[token'[q]] # "unpublished"
        /\ \A id \in Ids : status'[id] = "delivered" => id \in shown'
    <3>1. /\ token \in [Publishers -> Ids \cup {None}]
          /\ \A q \in Publishers : token[q] # None => status[token[q]] # "unpublished"
          /\ \A id \in Ids : status[id] = "delivered" => id \in shown
      BY DEF TypeOK, RelayOK
    <3> QED
      BY <2>1, <3>1 DEF Lives, pubVars
  <2>3. CASE UNCHANGED <<status, redeemed, hand>>
    BY <2>1, <2>2, <2>3 DEF RelayOK, OneBatchPerToken, pubVars
  <2>4. CASE TakenFor(f)
    <3>1. PICK id \in shown :
            status[id] = "held" /\ id \notin InHand /\ hand' = [hand EXCEPT ![f] = id]
      BY <2>4 DEF TakenFor
    <3>2. status' = status /\ redeemed' = redeemed /\ shown' = shown
      BY <2>1, <2>4 DEF TakenFor, pubVars
    <3> hand \in [Fetchers -> Ids \cup {None}]
      BY DEF TypeOK
    <3>3. hand'[f] = id /\ \A g \in Fetchers : g # f => hand'[g] = hand[g]
      BY <3>1
    <3>4. \A g \in Fetchers : hand[g] # None => hand[g] # id
      BY <3>1 DEF InHand
    <3>5. \A g \in Fetchers : hand'[g] # None => hand'[g] \in shown' /\ status'[hand'[g]] = "held"
      BY <3>1, <3>2, <3>3 DEF RelayOK
    <3>6. \A g, h \in Fetchers : hand'[g] # None /\ hand'[g] = hand'[h] => g = h
      BY <3>3, <3>4 DEF RelayOK
    <3> QED
      BY <2>2, <3>2, <3>5, <3>6 DEF RelayOK, OneBatchPerToken
  <2>5. CASE AnsweredTo(f)
    <3> DEFINE id == hand[f]
    <3>1. id \in Ids /\ id # None /\ status[id] = "held" /\ shown' = shown
      BY <2>1, <2>5, UniversalAssumption DEF AnsweredTo, RelayOK, TypeOK, pubVars
    <3>2. \A g \in Fetchers : redeemed[g] # id
      BY <3>1 DEF RelayOK
    <3>3. \A g \in Fetchers :
            \/ redeemed'[g] = redeemed[g]
            \/ g = f /\ redeemed'[g] = id /\ status'[id] = "delivered"
      BY <2>5 DEF AnsweredTo, TypeOK
    <3>4. ASSUME NEW g \in Fetchers, redeemed'[g] # None
          PROVE  status'[redeemed'[g]] = "delivered"
      <4>1. CASE redeemed'[g] = redeemed[g]
        <5>1. redeemed[g] \in Ids /\ status[redeemed[g]] = "delivered"
          BY <3>4, <4>1 DEF RelayOK, TypeOK
        <5> QED
          BY <2>1, <4>1, <5>1 DEF Lives
      <4> QED
        BY <3>3, <4>1
    <3>5. OneBatchPerToken'
      BY <3>2, <3>3 DEF OneBatchPerToken
    <3>6. \A g \in Fetchers : hand'[g] # None => g # f /\ hand'[g] = hand[g]
      BY <2>5 DEF AnsweredTo, TypeOK
    <3>7. \A g \in Fetchers : hand'[g] # None => hand'[g] \in Ids /\ hand'[g] # id
      BY <3>6 DEF RelayOK, TypeOK
    <3>8. \A g \in Fetchers : hand'[g] # None => hand'[g] \in shown' /\ status'[hand'[g]] = "held"
      BY <2>5, <3>1, <3>6, <3>7 DEF AnsweredTo, RelayOK
    <3>9. \A g, h \in Fetchers : hand'[g] # None /\ hand'[g] = hand'[h] => g = h
      BY <3>6 DEF RelayOK
    <3> QED
      BY <2>2, <3>4, <3>5, <3>8, <3>9 DEF RelayOK
  <2> QED
    BY <1>2, <2>3, <2>4, <2>5, FetcherFrame
<1>3. CASE RelayForgets \/ RelayRestarts
  <2>1. UNCHANGED <<pubVars, fetchVars>> /\ Lives
    BY <1>3, RelayForgetsLives
  <2>2. /\ \A q \in Publishers : token'[q] # None => status'[token'[q]] # "unpublished"
        /\ \A id \in Ids : status'[id] = "delivered" => id \in shown'
        /\ \A f \in Fetchers : redeemed'[f] # None => status'[redeemed'[f]] = "delivered"
    BY <1>3, <2>1, RelayForgetsLives DEF RelayOK, Lives, TypeOK, pubVars, fetchVars
  <2>3. /\ \A f \in Fetchers : hand'[f] # None => hand'[f] \in shown' /\ status'[hand'[f]] = "held"
        /\ \A f, g \in Fetchers : hand'[f] # None /\ hand'[f] = hand'[g] => f = g
    BY <1>3, <2>1, RelayForgetsLives DEF RelayOK, pubVars
  <2> QED
    BY <2>1, <2>2, <2>3 DEF RelayOK, OneBatchPerToken, fetchVars
<1>4. CASE UNCHANGED vars
  BY <1>4 DEF RelayOK, OneBatchPerToken, vars, relayVars, pubVars, fetchVars
<1> QED
  BY <1>1, <1>2, <1>3, <1>4 DEF Next

\* An object that is gone never comes back, and what is in hand was shown.
Unread(p) ==
  /\ spc[p] = "withdrawn" => status[token[p]] # "held"
  /\ spc[p] \in {"withdrawn", "overtaken"} /\ token[p] \notin shown => status[token[p]] = "gone"

LEMMA WithdrawnInductive == IInv /\ TypeOK' /\ [Next]_vars => WithdrawnUnread'
<1> SUFFICES ASSUME IInv, TypeOK', [Next]_vars, NEW p \in Publishers,
                    spc'[p] \in {"withdrawn", "overtaken"}
             PROVE  Unread(p)'
  BY DEF WithdrawnUnread, Unread
<1> USE DEF IInv
<1>1. ASSUME spc[p] = spc'[p], token'[p] = token[p], shown \subseteq shown', Lives
      PROVE  Unread(p)'
  <2>1. token[p] \in Ids /\ token[p] # None
    BY <1>1, UniversalAssumption DEF TypeOK
  <2>2. Unread(p) /\ status[token[p]] # "unpublished"
    BY <2>1 DEF WithdrawnUnread, Unread, RelayOK
  <2> QED
    BY <1>1, <2>1, <2>2 DEF Unread, Lives
<1>2. ASSUME NEW q \in Publishers, Publishing(q), q # p PROVE Unread(p)'
  BY <1>1, <1>2, PublisherFrame
<1>3. ASSUME Publishing(p) PROVE Unread(p)'
  <2>1. Withdraw(p)
    BY <1>3 DEF Publishing, NotPublished, PublishUnheard, Publish, Deliver, Report,
                DeliverFails, ReportFails, WithdrawFails, PublisherKilled, PublisherGoes, TypeOK
  <2>2. token' = token /\ shown' = shown /\ token[p] \in Ids /\ token[p] # None
    BY <2>1, UniversalAssumption DEF Withdraw, PublisherGoes, TypeOK
  <2>3. CASE token[p] \in InHand
    <3>1. spc'[p] = "overtaken" /\ token[p] \in shown
      BY <2>1, <2>3 DEF Withdraw, PublisherGoes, TypeOK, InHand, RelayOK
    <3> QED
      BY <2>2, <3>1 DEF Unread
  <2>4. CASE token[p] \notin InHand
    <3>1. status'[token[p]] = IF status[token[p]] = "held" THEN "gone" ELSE status[token[p]]
      BY <2>1, <2>2, <2>4 DEF Withdraw, Deleted, Relay!Forget, Relay!After, Relay!Held
    <3> QED
      BY <2>2, <3>1 DEF RelayOK, TypeOK, Relay!TypeOK, Relay!Life, Unread
  <2> QED
    BY <2>3, <2>4
<1>4. ASSUME NEW f \in Fetchers, Fetching(f) PROVE Unread(p)'
  BY <1>1, <1>4, FetcherFrame DEF pubVars
<1>5. CASE RelayForgets \/ RelayRestarts
  BY <1>1, <1>5, RelayForgetsLives DEF pubVars
<1>6. CASE UNCHANGED vars
  BY <1>1, <1>6 DEF vars, relayVars, pubVars, Lives
<1> QED
  BY <1>2, <1>3, <1>4, <1>5, <1>6 DEF Next

------------------------------------------------------------------------------
(* The batch of a fetcher *)

InPlace(f) == \A i \in 1 .. Files : disk[f][<<"final", i>>] \in {"absent", "synced"}

\* Steps that do not touch the disk, and do not crash.
LEMMA QuietBatch ==
  ASSUME TypeOK, NEW f \in Fetchers, BatchOK(f), InPlace(f),
         \/ (\E id \in Ids : Ask(f, id)) \/ Retrieve(f) \/ NotRetrieved(f) \/ Open(f) \/ MakeDirectory(f) \/ NotCreated(f)
         \/ WriteFails(f) \/ DiscardFails(f) \/ Tell(f) \/ TellFails(f) \/ FetcherKilled(f)
  PROVE  BatchOK(f)' /\ InPlace(f)'
<1>1. disk' = disk /\ n' = n /\ crashed' = crashed
  BY DEF Ask, Retrieve, RetrieveUnheard, PutBack, NotRetrieved, Open, MakeDirectory, NotCreated,
         WriteFails, DiscardFails, Tell, TellFails, FetcherKilled, Elsewhere
<1>2. n[f] \in 1 .. Files
  BY DEF TypeOK
<1>3. f \notin crashed
  BY DEF BatchOK, Ask, Retrieve, RetrieveUnheard, PutBack, NotRetrieved, Open, MakeDirectory, NotCreated,
         WriteFails, DiscardFails, Tell, TellFails, FetcherKilled, FetcherGoes, Running
<1>4. CASE printed' = printed
  <2>1. f \notin printed
    BY <1>4 DEF BatchOK, Ask, Retrieve, RetrieveUnheard, PutBack, NotRetrieved, Open, MakeDirectory,
         NotCreated, WriteFails, DiscardFails, Tell, TellFails, FetcherKilled, FetcherGoes,
         Running
  <2>2. /\ fpc'[f] # "telling" /\ fpc'[f] # "renaming"
        /\ fpc'[f] \notin {"filling", "syncing", "renaming", "discarding", "littered", "killed"}
             => fpc[f] \notin {"filling", "syncing", "renaming", "discarding", "littered", "killed"}
    BY DEF TypeOK, Ask, Retrieve, RetrieveUnheard, PutBack, NotRetrieved, Open, MakeDirectory,
         NotCreated, WriteFails, DiscardFails, Tell, TellFails, FetcherKilled, FetcherGoes,
         Running
  <2> QED
    BY <1>1, <1>3, <1>4, <2>1, <2>2 DEF BatchOK, InPlace
<1>5. CASE Tell(f) \/ TellFails(f)
  <2>1. fpc[f] = "telling" /\ fpc'[f] \in {"told", "failed"}
    BY <1>5 DEF Tell, TellFails, FetcherGoes, TypeOK
  <2> QED
    BY <1>1, <1>3, <2>1 DEF BatchOK, InPlace
<1> QED
  BY <1>4, <1>5 DEF Ask, Retrieve, RetrieveUnheard, PutBack, NotRetrieved, Open, MakeDirectory, NotCreated,
         WriteFails, DiscardFails, FetcherKilled, Elsewhere

\* The temporary file is made, filled, synced or removed.
LEMMA PartBatch ==
  ASSUME TypeOK, NEW f \in Fetchers, BatchOK(f), InPlace(f),
         CreatePart(f) \/ Fill(f) \/ Sync(f) \/ Discard(f)
  PROVE  BatchOK(f)' /\ InPlace(f)'
<1>1. n' = n /\ crashed' = crashed /\ printed' = printed /\ n[f] \in 1 .. Files
  BY DEF CreatePart, Fill, Sync, Discard, OnDisk, TypeOK
<1>2. f \notin crashed /\ f \notin printed
  BY DEF BatchOK, CreatePart, Fill, Sync, Discard, FetcherGoes, Running
<1>3. \A i \in 1 .. Files : disk'[f][<<"final", i>>] = disk[f][<<"final", i>>]
  BY DEF CreatePart, Fill, Sync, Discard, OnDisk, TypeOK, Names
<1>4. \A i \in 1 .. Files : i # n[f] => disk'[f][<<"part", i>>] = disk[f][<<"part", i>>]
  BY DEF CreatePart, Fill, Sync, Discard, OnDisk, TypeOK, Names
<1>5. \/ fpc'[f] \in {"filling", "syncing"}
      \/ fpc'[f] = "renaming" /\ disk'[f][<<"part", n[f]>>] = "synced"
      \/ fpc'[f] = "failed" /\ disk'[f][<<"part", n[f]>>] = "absent"
  BY DEF CreatePart, Fill, Sync, Discard, OnDisk, FetcherGoes, TypeOK, Names
<1> QED
  BY <1>1, <1>2, <1>3, <1>4, <1>5 DEF BatchOK, InPlace

\* The file that appears under its name is on the disk.
LEMMA RenameBatch ==
  ASSUME TypeOK, NEW f \in Fetchers, BatchOK(f), InPlace(f), Rename(f)
  PROVE  BatchOK(f)' /\ InPlace(f)'
<1>1. fpc[f] = "renaming" /\ crashed' = crashed /\ printed' = printed /\ n[f] \in 1 .. Files
  BY DEF Rename, FetcherGoes, TypeOK
<1>2. f \notin crashed /\ f \notin printed /\ disk[f][<<"part", n[f]>>] = "synced"
  BY <1>1 DEF BatchOK, Running
<1>3. /\ disk'[f][<<"final", n[f]>>] = "synced" /\ disk'[f][<<"part", n[f]>>] = "absent"
      /\ \A i \in 1 .. Files : i # n[f] =>
           /\ disk'[f][<<"final", i>>] = disk[f][<<"final", i>>]
           /\ disk'[f][<<"part", i>>] = disk[f][<<"part", i>>]
  BY <1>1, <1>2 DEF Rename, TypeOK, Names
<1>4. \A i \in 1 .. Files : disk'[f][<<"part", i>>] = "absent"
  BY <1>2, <1>3 DEF BatchOK
<1>5. ASSUME NEW i \in 1 .. Files, i <= n[f] PROVE disk'[f][<<"final", i>>] = "synced"
  <2>1. CASE i = n[f]
    BY <1>3, <2>1
  <2>2. CASE i # n[f]
    <3>1. i < n[f]
      BY <1>1, <1>5, <2>2, UniversalAssumption
    <3>2. disk[f][<<"final", i>>] = "synced"
      BY <1>2, <3>1 DEF BatchOK
    <3> QED
      BY <1>3, <2>2, <3>2
  <2> QED
    BY <2>1, <2>2
<1>6. InPlace(f)'
  BY <1>3 DEF InPlace
<1>7. CASE n[f] < Files
  <2>1. fpc'[f] = "creating" /\ n'[f] = n[f] + 1
    BY <1>7, UniversalAssumption DEF Rename, FetcherGoes, TypeOK
  <2>2. \A i \in 1 .. Files : i < n'[f] => disk'[f][<<"final", i>>] = "synced"
    BY <1>1, <1>5, <2>1, UniversalAssumption
  <2>3. n'[f] \in 1 .. Files
    BY <1>1, <1>7, <2>1, UniversalAssumption
  <2> QED
    BY <1>1, <1>2, <1>4, <1>6, <2>1, <2>2, <2>3 DEF BatchOK
<1>8. CASE n[f] = Files
  <2>1. fpc'[f] = "telling" /\ n'[f] = n[f]
    BY <1>8, UniversalAssumption DEF Rename, FetcherGoes, TypeOK
  <2>2. ASSUME NEW i \in 1 .. Files PROVE disk'[f][<<"final", i>>] = "synced"
    <3>1. i <= n[f]
      BY <1>8, UniversalAssumption
    <3> QED
      BY <1>5, <3>1
  <2> QED
    BY <1>1, <1>2, <1>4, <1>6, <2>1, <2>2 DEF BatchOK
<1> QED
  BY <1>1, <1>7, <1>8, UniversalAssumption DEF Rename

\* A crash takes a file from under its name or leaves it whole.
LEMMA CrashBatch ==
  ASSUME TypeOK, NEW f \in Fetchers, BatchOK(f), InPlace(f), HostCrashes(f)
  PROVE  BatchOK(f)' /\ InPlace(f)'
<1>1. f \in crashed' /\ fpc[f] # "start" /\ printed' = printed
  BY DEF HostCrashes
<1>2. fpc'[f] = IF f \in Running THEN "killed" ELSE fpc[f]
  BY DEF HostCrashes, TypeOK
<1>3. fpc'[f] # "start" /\ f \notin Running'
  BY <1>1, <1>2 DEF Running
<1>4. f \in printed' => fpc'[f] \in {"told", "failed"}
  BY <1>1, <1>2 DEF BatchOK, Running
<1>5. PICK undone \in SUBSET {i \in 1 .. Files : disk[f][<<"final", i>>] # "absent"} :
        disk' = [disk EXCEPT ![f] = [x \in Names |->
          IF x[2] \notin undone THEN Survives(disk[f][x])
          ELSE IF x[1] = "part" THEN Survives(disk[f][<<"final", x[2]>>])
          ELSE "absent"]]
  BY DEF HostCrashes
<1>6. ASSUME NEW i \in 1 .. Files
      PROVE  disk'[f][<<"final", i>>] \in {"absent", "synced"}
  <2>1. <<"final", i>> \in Names /\ <<"final", i>>[1] = "final" /\ <<"final", i>>[2] = i
    BY DEF Names
  <2>2. disk'[f][<<"final", i>>] \in {"absent", Survives(disk[f][<<"final", i>>])}
    BY <1>5, <2>1 DEF TypeOK
  <2> QED
    BY <2>2 DEF InPlace, Survives
<1> QED
  BY <1>1, <1>3, <1>4, <1>6 DEF BatchOK, InPlace

\* Everybody's batch, whoever moves.
LEMMA BatchInductive ==
  IInv /\ TypeOK' /\ [Next]_vars => WholeOrAbsent' /\ \A f \in Fetchers : BatchOK(f)'
<1> SUFFICES ASSUME IInv, TypeOK', [Next]_vars, NEW f \in Fetchers
             PROVE  BatchOK(f)' /\ InPlace(f)'
  BY DEF WholeOrAbsent, InPlace
<1>1. TypeOK /\ BatchOK(f) /\ InPlace(f)
  BY DEF IInv, WholeOrAbsent, InPlace
<1>2. CASE Fetching(f) /\ ~ (RetrieveUnheard(f) \/ PutBack(f))
  BY <1>1, <1>2, QuietBatch, PartBatch, RenameBatch, CrashBatch DEF Fetching
<1>3. ASSUME /\ fpc'[f] = fpc[f] /\ n'[f] = n[f] /\ disk'[f] = disk[f]
             /\ f \in printed' <=> f \in printed
             /\ f \in crashed' <=> f \in crashed
      PROVE  BatchOK(f)' /\ InPlace(f)'
  BY <1>1, <1>3 DEF BatchOK, InPlace, Running
<1>6. CASE RetrieveUnheard(f) \/ PutBack(f)
  BY <1>3, <1>6 DEF RetrieveUnheard, PutBack, fetchVars
<1>4. ASSUME NEW g \in Fetchers, g # f, Fetching(g) PROVE BatchOK(f)' /\ InPlace(f)'
  BY <1>1, <1>3, <1>4, FetcherFrame DEF IInv
<1>5. ASSUME UNCHANGED fetchVars PROVE BatchOK(f)' /\ InPlace(f)'
  BY <1>3, <1>5 DEF fetchVars
<1> QED
  BY <1>1, <1>2, <1>4, <1>5, <1>6, PublisherFrame DEF Next, RelayForgets, RelayRestarts, vars

------------------------------------------------------------------------------
(* The theorems *)

LEMMA Invariance == Spec => []IInv
<1>1. Init => IInv
  <2> SUFFICES ASSUME Init PROVE IInv
    OBVIOUS
  <2>1. TypeOK
    BY UniversalAssumption DEF Init, Relay!Init, TypeOK, Relay!TypeOK, Relay!Life,
       PublisherPlaces, FetcherPlaces, Names, Contents
  <2>2. RelayOK /\ OneBatchPerToken /\ WithdrawnUnread /\ WholeOrAbsent
    BY UniversalAssumption DEF Init, Relay!Init, RelayOK, OneBatchPerToken, WithdrawnUnread,
       WholeOrAbsent, Names
  <2>3. \A f \in Fetchers : BatchOK(f)
    BY UniversalAssumption DEF Init, BatchOK, Names
  <2> QED
    BY <2>1, <2>2, <2>3 DEF IInv
<1>2. IInv /\ [Next]_vars => IInv'
  BY TypeInductive, RelayInductive, WithdrawnInductive, BatchInductive DEF IInv
<1> QED
  BY <1>1, <1>2, PTL DEF Spec

\* Every variable keeps its type; a publisher that got past the relay has a token.
THEOREM TypeCorrect == Spec => []TypeOK
<1>1. IInv => TypeOK
  BY DEF IInv
<1> QED
  BY <1>1, Invariance, PTL

\* However many fetchers try a token, and whatever is lost on the way, one of them
\* at most has its bytes.
THEOREM OneBatchPerTokenHolds == Spec => []OneBatchPerToken
<1>1. IInv => OneBatchPerToken
  BY DEF IInv
<1> QED
  BY <1>1, Invariance, PTL

\* What was withdrawn is gone, unread, unless its token got through; and what a
\* withdrawal found in the relay's store never comes back for all that.
THEOREM WithdrawnUnreadHolds == Spec => []WithdrawnUnread
<1>1. IInv => WithdrawnUnread
  BY DEF IInv
<1> QED
  BY <1>1, Invariance, PTL

\* No crash leaves half a file under a final name.
THEOREM WholeOrAbsentHolds == Spec => []WholeOrAbsent
<1>1. IInv => WholeOrAbsent
  BY DEF IInv
<1> QED
  BY <1>1, Invariance, PTL

\* A fetch that fails and could tidy up has done so.
THEOREM NothingLeftHolds == Spec => []NothingLeft
<1>1. IInv => NothingLeft
  <2> SUFFICES ASSUME IInv, NEW f \in Fetchers \ crashed, fpc[f] = "failed",
                      NEW i \in 1 .. Files
               PROVE  disk[f][<<"part", i>>] = "absent"
    BY DEF NothingLeft
  <2> BatchOK(f) /\ f \notin crashed
    BY DEF IInv
  <2>1. CASE i = n[f]
    BY <2>1, fpc[f] = "failed" DEF BatchOK
  <2>2. CASE i # n[f]
    BY <2>2 DEF BatchOK
  <2> QED
    BY <2>1, <2>2
<1> QED
  BY <1>1, Invariance, PTL

\* At every step every batch stays where it is for its reader, or is handed over
\* whole, or is lost with its host.
LEMMA HandoverStep ==
  ASSUME IInv, [Next]_vars
  PROVE  [Handover!Next]_([f \in Fetchers |-> Heard(f)])
<1> DEFINE b == [f \in Fetchers |-> Heard(f)]
<1>1. ASSUME \A f \in Fetchers : Heard(f)' = Heard(f)
      PROVE  b' = b
  BY <1>1
<1>2. ASSUME NEW f \in Fetchers, Fetching(f) PROVE Handover!Next \/ b' = b
  <2>1. \A g \in Fetchers : g # f => Heard(g)' = Heard(g)
    BY <1>2, FetcherFrame DEF Heard, IInv
  <2>2. CASE Heard(f)' = Heard(f)
    BY <1>1, <2>1, <2>2
  <2>3. ASSUME Heard(f) = "unheard", Heard(f)' = "whole" PROVE Handover!HandOver(f)
    BY <2>1, <2>3 DEF Handover!HandOver
  <2>4. ASSUME Heard(f) = "whole", Heard(f)' = "expired" PROVE Handover!Expire(f)
    BY <2>1, <2>4 DEF Handover!Expire
  <2>5. TypeOK /\ BatchOK(f)
    BY DEF IInv
  <2>6. CASE Tell(f) \/ TellFails(f)
    <3>1. fpc[f] = "telling" /\ f \notin printed /\ f \notin crashed
      BY <2>5, <2>6 DEF Tell, TellFails, FetcherGoes, BatchOK, Running
    <3>2. disk' = disk /\ crashed' = crashed
      BY <2>6 DEF Tell, TellFails
    <3>3. \A i \in 1 .. Files : disk[f][<<"final", i>>] = "synced"
      BY <2>5, <3>1 DEF BatchOK
    <3>4. Heard(f) = "unheard" /\ Heard(f)' \in {"unheard", "whole"}
      BY <3>1, <3>2, <3>3 DEF Heard
    <3> QED
      BY <2>2, <2>3, <3>4 DEF Handover!Next
  <2>7. CASE HostCrashes(f)
    <3>1. f \notin crashed /\ f \in crashed' /\ printed' = printed
      BY <2>7 DEF HostCrashes
    <3>2. CASE f \in printed
      <4>1. Heard(f) = "whole" /\ Heard(f)' = "expired"
        BY <2>5, <3>1, <3>2 DEF Heard, BatchOK
      <4> QED
        BY <2>4, <4>1 DEF Handover!Next
    <3>3. CASE f \notin printed
      BY <2>2, <3>1, <3>3 DEF Heard
    <3> QED
      BY <3>2, <3>3
  <2>9. CASE RetrieveUnheard(f) \/ PutBack(f)
    BY <2>2, <2>9 DEF RetrieveUnheard, PutBack, fetchVars, Heard
  <2>8. CASE ~ (\/ Tell(f) \/ TellFails(f) \/ HostCrashes(f)
               \/ RetrieveUnheard(f) \/ PutBack(f))
    <3>1. printed' = printed
      BY <1>2, <2>8 DEF Fetching, Ask, Retrieve, RetrieveUnheard, PutBack, NotRetrieved, Open,
         MakeDirectory, CreatePart, NotCreated, Fill, Sync, WriteFails, Discard,
         DiscardFails, Rename, FetcherKilled, OnDisk, Elsewhere, fetchVars
    <3>2. f \notin printed
      BY <1>2, <2>5, <2>8 DEF BatchOK, Fetching, Ask, Retrieve, RetrieveUnheard, PutBack, NotRetrieved,
         Open, MakeDirectory, CreatePart, NotCreated, Fill, Sync, WriteFails, Discard,
         DiscardFails, Rename, FetcherKilled, FetcherGoes, Running, fetchVars
    <3> QED
      BY <2>2, <3>1, <3>2 DEF Heard
  <2> QED
    BY <2>6, <2>7, <2>8, <2>9
<1>3. ASSUME UNCHANGED fetchVars PROVE b' = b
  BY <1>1, <1>3 DEF Heard, fetchVars
<1> QED
  BY <1>2, <1>3, PublisherFrame DEF Next, RelayForgets, RelayRestarts, vars, IInv

\* A fetch keeps the promise a send makes: told once, of a whole batch.
THEOREM RefinesBatchHandover == Spec => ImplementsHandover
<1>1. Init => Handover!Init
  BY DEF Init, Handover!Init, Heard
<1>2. IInv /\ [Next]_vars => [Handover!Next]_([f \in Fetchers |-> Heard(f)])
  BY HandoverStep
<1> QED
  BY <1>1, <1>2, Invariance, PTL DEF Spec, ImplementsHandover, Handover!Spec

==============================================================================
