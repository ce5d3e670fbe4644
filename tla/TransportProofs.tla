--------------------------- MODULE TransportProofs ----------------------------
(***************************************************************************)
(* Proofs about SftpSession, for every window, size of the id space and    *)
(* number of chunks: answers go to their requests, the stream stays in     *)
(* step, and what is put in place is whole. And about SessionPool, for any *)
(* number of hosts and threads and any limits: who holds the lock on the   *)
(* sessions, whose options a session has, and how long a session that has  *)
(* died is kept.                                                           *)
(***************************************************************************)
EXTENDS SftpSession, SessionPool, FiniteSetTheorems, TLAPS

\* Requests not answered yet are the last ones made.
Width == Len(pending) + Len(closing)
Oldest == next - Width
Owed(s) == Oldest <= s /\ s < next

\* Which answers are owed at each place.
PlaceOK ==
  /\ place = "idle" => pending = <<>> /\ closing = <<>>
  /\ place = "writing" => Len(closing) \in {0, 2} /\ (closing # <<>> => finished)
  /\ place = "closing" => pending = <<>> /\ Len(closing) \in {1, 2}
  /\ place \in {"opening", "releasing", "renaming", "removing", "asking"} =>
       Len(pending) = 1 /\ closing = <<>>

\* The bound on a session leaves room for what an upload still has to send.
RoomOK ==
  /\ place = "opening" => next + MaxChunks + 4 <= Limit /\ sent = 0 /\ failure = None
  /\ place = "writing" /\ closing = <<>> => next + (MaxChunks - sent) + 3 <= Limit
  /\ place = "writing" /\ closing # <<>> => next + 1 <= Limit
  /\ place = "closing" => next + 1 <= Limit
  /\ place \in {"releasing", "renaming"} => next <= Limit
  /\ place = "releasing" => failure # None

\* A request is owed an answer, or has nothing under way.
StreamOK ==
  /\ Oldest \in Nat
  /\ \A i \in 1 .. Len(pending) : pending[i] = Oldest + (i - 1)
  /\ \A i \in 1 .. Len(closing) : closing[i] = Oldest + Len(pending) + (i - 1)
  /\ \A s \in Serials :
       /\ request[s] = None \/ answer[s] = None
       /\ ~Owed(s) => request[s] = None /\ answer[s] = None
  /\ \A s \in early : answer[s] # None

InStep == TypeOK /\ PlaceOK /\ RoomOK /\ StreamOK

------------------------------------------------------------------------------
(* Who is answered *)

\* Of numbers closer than k to each other, no two have the same remainder.
LEMMA SameId ==
  ASSUME NEW k \in Nat, k > 0, NEW s \in Nat, NEW t \in Nat,
         s % k = t % k, t <= s, s - t < k
  PROVE  s = t
<1> DEFINE a == s \div k
<1> DEFINE b == t \div k
<1>1. s = (k * a) + (s % k) /\ t = (k * b) + (t % k)
  OBVIOUS
<1>a. a \in Int /\ b \in Int /\ s % k \in Int
  OBVIOUS
<1> HIDE DEF a, b
<1>2. k * a \in Int /\ k * b \in Int
  BY <1>a
<1>3. k * a < k * b + k
  BY <1>1, <1>a, <1>2
<1>4. ASSUME b + 1 <= a PROVE FALSE
  <2>1. k * (a - b - 1) >= 0
    BY <1>4, <1>a
  <2>2. k * (a - b - 1) = k * a - k * b - k
    BY <1>a
  <2> QED
    BY <2>1, <2>2, <1>2, <1>3
<1>5. ASSUME a + 1 <= b PROVE FALSE
  <2>1. k * (b - a - 1) >= 0
    BY <1>5, <1>a
  <2>2. k * (b - a - 1) = k * b - k * a - k
    BY <1>a
  <2> QED
    BY <2>1, <2>2, <1>2, <1>1, <1>a
<1>6. a = b
  BY <1>4, <1>5, <1>a
<1> QED
  BY <1>1, <1>6

\* Two requests that are owed an answer have different ids.
LEMMA OwedApart ==
  ASSUME InStep, NEW s \in Serials, NEW t \in Serials, Owed(s), Owed(t), Id(s) = Id(t)
  PROVE  s = t
<1>1. Serials \subseteq Nat /\ IdSpace \in Nat /\ IdSpace >= Window + 2 /\ Window \in Nat
  BY SftpSessionAssumption
<1>2. next \in Nat /\ Width \in Nat /\ Width <= Window + 2
  BY <1>1 DEF InStep, TypeOK, Width
<1>3. s - t < IdSpace /\ t - s < IdSpace /\ IdSpace > 0
  BY <1>1, <1>2 DEF Owed, Oldest
<1>4. s \in Nat /\ t \in Nat
  BY <1>1
<1>5. CASE t <= s
  BY <1>1, <1>3, <1>4, <1>5, SameId DEF Id
<1>6. CASE s <= t
  BY <1>1, <1>3, <1>4, <1>6, SameId DEF Id
<1> QED
  BY <1>4, <1>5, <1>6

\* What is awaited is the oldest request.
LEMMA AwaitedIsOldest ==
  ASSUME InStep, Width > 0
  PROVE  /\ Awaited = Oldest /\ Oldest \in Serials /\ Owed(Oldest)
         /\ next \in Nat /\ Width \in Nat
<1>1. Serials \subseteq Nat
  BY SftpSessionAssumption
<1>2. next \in Nat /\ Width \in Nat /\ pending \in Seq(Serials) /\ closing \in Seq(Serials)
  BY DEF InStep, TypeOK, Width
<1>3. Oldest \in Nat /\ Owed(Oldest)
  BY <1>2 DEF InStep, StreamOK, Owed, Oldest
<1>4. CASE pending # <<>>
  <2>1. Len(pending) \in Nat /\ Len(pending) >= 1 /\ Head(pending) = pending[1]
    BY <1>2, <1>4
  <2>2. pending[1] = Oldest + (1 - 1) /\ pending[1] \in Serials
    BY <1>2, <2>1 DEF InStep, StreamOK
  <2> QED
    BY <1>2, <1>3, <1>4, <2>1, <2>2 DEF Awaited
<1>5. CASE pending = <<>>
  <2>1. Len(pending) = 0 /\ Len(closing) >= 1 /\ Head(closing) = closing[1]
    BY <1>2, <1>5 DEF Width
  <2>2. closing[1] = Oldest + 0 + (1 - 1) /\ closing[1] \in Serials
    BY <1>2, <2>1 DEF InStep, StreamOK
  <2> QED
    BY <1>2, <1>3, <1>5, <2>1, <2>2 DEF Awaited
<1> QED
  BY <1>4, <1>5

\* The answer that is taken is the one to the oldest request.
LEMMA Taken ==
  ASSUME InStep, Width > 0, NEW s \in Serials, Matches(s)
  PROVE  /\ s = Oldest /\ s = Awaited /\ Oldest \in Serials /\ Owed(Oldest)
         /\ request[s] = None /\ answer[s] \in Answers
<1>1. answer[s] # None /\ Id(s) = Id(Awaited)
  BY DEF Matches
<1>2. Owed(s) /\ request[s] = None
  BY <1>1 DEF InStep, StreamOK
<1>3. answer[s] \in Answers
  BY <1>1 DEF InStep, TypeOK
<1> QED
  BY <1>1, <1>2, <1>3, AwaitedIsOldest, OwedApart

\* Nothing is ever dropped from what was set aside.
LEMMA AsideKeeps ==
  ASSUME InStep, NEW s \in Serials, SetAside(s)
  PROVE  answer' = answer /\ early' = early \cup {s}
<1> DEFINE replaced == {t \in early : Id(t) = Id(s)}
<1>1. early \subseteq Serials /\ answer \in [Serials -> Answers \cup {None}]
  BY DEF InStep, TypeOK
<1>2. answer[s] # None /\ s \notin early
  BY DEF SetAside
<1>3. replaced = {}
  <2> SUFFICES ASSUME NEW t \in early, Id(t) = Id(s)
               PROVE  FALSE
    OBVIOUS
  <2>1. Owed(s) /\ Owed(t)
    BY <1>1, <1>2 DEF InStep, StreamOK
  <2> QED
    BY <1>1, <1>2, <2>1, OwedApart
<1>4. /\ early' = (early \ replaced) \cup {s}
      /\ answer' = [t \in Serials |-> IF t \in replaced THEN None ELSE answer[t]]
  BY DEF SetAside
<1> HIDE DEF replaced
<1> QED
  BY <1>1, <1>3, <1>4

------------------------------------------------------------------------------
(* The stream stays in step *)

LEMMA Emptied ==
  ASSUME InStep, Width = 0
  PROVE  early = {} /\ \A s \in Serials : request[s] = None /\ answer[s] = None
<1>1. next \in Nat /\ Serials \subseteq Nat /\ early \subseteq Serials
  BY SftpSessionAssumption DEF InStep, TypeOK
<1>2. \A s \in Serials : ~Owed(s)
  BY <1>1 DEF Owed, Oldest
<1> QED
  BY <1>1, <1>2 DEF InStep, StreamOK

LEMMA LastTaken ==
  ASSUME InStep, Width = 1, NEW s \in Serials, Take(s)
  PROVE  early' = {} /\ \A t \in Serials : request[t] = None /\ answer'[t] = None
<1>1. next \in Nat /\ Serials \subseteq Nat /\ early \subseteq Serials
      /\ answer \in [Serials -> Answers \cup {None}]
  BY SftpSessionAssumption DEF InStep, TypeOK
<1>2. s = Oldest /\ request[s] = None
  BY Taken DEF Take
<1>3. \A t \in Serials : Owed(t) => t = s
  BY <1>1, <1>2 DEF Owed, Oldest
<1>4. \A t \in Serials : t # s => request[t] = None /\ answer[t] = None
  BY <1>3 DEF InStep, StreamOK
<1>5. answer' = [answer EXCEPT ![s] = None] /\ early' = early \ {s}
  BY DEF Take
<1>6. \A t \in early : t = s
  BY <1>1, <1>4 DEF InStep, StreamOK
<1> QED
  BY <1>1, <1>2, <1>4, <1>5, <1>6

\* The stream after a request that is alone in it.
LEMMA StreamAlone ==
  ASSUME TypeOK, next \in Serials, NEW r, request' = [request EXCEPT ![next] = r],
         next' = next + 1, pending' = <<next>>, closing' = <<>>, early' = {},
         \A s \in Serials : request[s] = None /\ answer'[s] = None
  PROVE  StreamOK'
<1>1. next \in Nat /\ Serials \subseteq Nat /\ request \in [Serials -> Requests \cup {None}]
  BY SftpSessionAssumption DEF TypeOK
<1>2. Len(pending') = 1 /\ pending'[1] = next /\ Len(closing') = 0
  OBVIOUS
<1>3. Oldest' = next
  BY <1>1, <1>2 DEF Oldest, Width
<1>4. \A s \in Serials : Owed(s)' <=> s = next
  BY <1>1, <1>3 DEF Owed
<1>5. \A s \in Serials : s # next => request'[s] = None
  BY <1>1
<1>6. \A i \in 1 .. Len(pending') : pending'[i] = Oldest' + (i - 1)
  BY <1>1, <1>2, <1>3
<1>7. \A i \in 1 .. Len(closing') : closing'[i] = Oldest' + Len(pending') + (i - 1)
  BY <1>2
<1> QED
  BY <1>1, <1>3, <1>4, <1>5, <1>6, <1>7 DEF StreamOK

\* The stream when nothing is owed.
LEMMA StreamEmpty ==
  ASSUME TypeOK, next' = next, request' = request, pending' = <<>>, closing' = <<>>,
         early' = {}, \A s \in Serials : request[s] = None /\ answer'[s] = None
  PROVE  StreamOK'
<1>1. Len(pending') = 0 /\ Len(closing') = 0 /\ next \in Nat
  BY DEF TypeOK
<1> QED
  BY <1>1 DEF StreamOK, Oldest, Width

\* The stream after the oldest answer was taken.
LEMMA StreamShorter ==
  ASSUME InStep, NEW s \in Serials, Take(s), UNCHANGED <<next, request>>, Width > 0,
         \/ pending # <<>> /\ pending' = Tail(pending) /\ closing' = closing
         \/ pending = <<>> /\ pending' = <<>> /\ closing' = Tail(closing)
  PROVE  StreamOK'
<1>1. /\ next \in Nat /\ Serials \subseteq Nat /\ early \subseteq Serials
      /\ answer \in [Serials -> Answers \cup {None}]
      /\ pending \in Seq(Serials) /\ closing \in Seq(Serials)
  BY SftpSessionAssumption DEF InStep, TypeOK
<1>2. s = Oldest /\ request[s] = None
  BY Taken DEF Take
<1>3. answer' = [answer EXCEPT ![s] = None] /\ early' = early \ {s}
  BY DEF Take
<1>4. Oldest' = Oldest + 1 /\ Oldest \in Nat
  <2>1. Width' = Width - 1 /\ Width \in Nat
    <3>1. CASE pending # <<>>
      BY <1>1, <3>1 DEF Width
    <3>2. CASE pending = <<>>
      <4>1. closing # <<>>
        BY <3>2 DEF Width
      <4> QED
        BY <1>1, <3>2, <4>1 DEF Width
    <3> QED
      BY <3>1, <3>2
  <2> QED
    BY <1>1, <2>1 DEF Oldest, InStep, StreamOK
<1>5. \A t \in Serials : /\ request'[t] = None \/ answer'[t] = None
                         /\ ~Owed(t)' => request'[t] = None /\ answer'[t] = None
  <2> SUFFICES ASSUME NEW t \in Serials
               PROVE  /\ request[t] = None \/ answer'[t] = None
                      /\ ~Owed(t)' => request[t] = None /\ answer'[t] = None
    OBVIOUS
  <2>1. CASE t = s
    BY <1>1, <1>2, <1>3, <2>1
  <2>2. CASE t # s
    <3>1. answer'[t] = answer[t]
      BY <1>1, <1>3, <2>2
    <3>2. Owed(t) => Owed(t)'
      BY <1>1, <1>2, <1>4, <2>2 DEF Owed
    <3> QED
      BY <3>1, <3>2 DEF InStep, StreamOK
  <2> QED
    BY <2>1, <2>2
<1>6. \A i \in 1 .. Len(pending') : pending'[i] = Oldest' + (i - 1)
  <2>1. CASE pending # <<>>
    <3>1. Len(pending') = Len(pending) - 1 /\ Len(pending) \in Nat
          /\ \A i \in 1 .. Len(pending') : pending'[i] = pending[i + 1]
      BY SMTT(30), <1>1, <2>1
    <3>2. \A i \in 1 .. Len(pending') : pending[i + 1] = Oldest + ((i + 1) - 1)
      BY <3>1 DEF InStep, StreamOK
    <3> QED
      BY <1>4, <3>1, <3>2
  <2>2. CASE pending = <<>>
    BY <2>2
  <2> QED
    BY <2>1, <2>2
<1>7. \A i \in 1 .. Len(closing') : closing'[i] = Oldest' + Len(pending') + (i - 1)
  <2>1. CASE pending # <<>>
    <3>1. Len(pending') = Len(pending) - 1 /\ Len(pending) \in Nat /\ closing' = closing
      BY <1>1, <2>1
    <3>2. \A i \in 1 .. Len(closing) : closing[i] = Oldest + Len(pending) + (i - 1)
      BY DEF InStep, StreamOK
    <3> QED
      BY <1>4, <3>1, <3>2
  <2>2. CASE pending = <<>>
    <3>1. closing # <<>> /\ Len(pending) = 0 /\ Len(pending') = 0
      BY <2>2 DEF Width
    <3>2. Len(closing') = Len(closing) - 1 /\ Len(closing) \in Nat
          /\ \A i \in 1 .. Len(closing') : closing'[i] = closing[i + 1]
      BY <1>1, <2>2, <3>1
    <3>3. \A i \in 1 .. Len(closing') : closing[i + 1] = Oldest + Len(pending) + ((i + 1) - 1)
      BY <3>2 DEF InStep, StreamOK
    <3> QED
      BY <1>4, <3>1, <3>2, <3>3
  <2> QED
    BY <2>1, <2>2
<1>8. \A t \in early' : answer'[t] # None
  BY <1>1, <1>3 DEF InStep, StreamOK
<1> QED
  BY <1>4, <1>5, <1>6, <1>7, <1>8 DEF StreamOK

\* The stream after requests were added to it.
LEMMA StreamLonger ==
  ASSUME InStep, UNCHANGED <<answer, early>>,
         NEW more \in Nat, next' = next + more,
         Len(pending') \in Nat, Len(closing') \in Nat,
         Width' = Width + more,
         \A s \in Serials : s < next \/ next + more <= s => request'[s] = request[s],
         \A j \in 1 .. Len(pending') : pending'[j] = Oldest + (j - 1),
         \A j \in 1 .. Len(closing') : closing'[j] = Oldest + Len(pending') + (j - 1)
  PROVE  StreamOK'
<1>1. next \in Nat /\ Serials \subseteq Nat /\ Width \in Nat
  BY SftpSessionAssumption DEF InStep, TypeOK, Width
<1>2. Oldest' = Oldest /\ Oldest \in Nat /\ Oldest <= next
  BY <1>1 DEF Oldest, InStep, StreamOK
<1>3. \A s \in Serials : /\ request'[s] = None \/ answer'[s] = None
                         /\ ~Owed(s)' => request'[s] = None /\ answer'[s] = None
  <2> SUFFICES ASSUME NEW s \in Serials
               PROVE  /\ request'[s] = None \/ answer[s] = None
                      /\ ~Owed(s)' => request'[s] = None /\ answer[s] = None
    OBVIOUS
  <2>1. CASE s < next
    BY <1>1, <1>2, <2>1 DEF InStep, StreamOK, Owed
  <2>2. CASE next <= s
    <3>1. request[s] = None /\ answer[s] = None
      BY <1>1, <2>2 DEF InStep, StreamOK, Owed
    <3>2. ~Owed(s)' => next + more <= s
      BY <1>1, <1>2, <2>2 DEF Owed
    <3> QED
      BY <3>1, <3>2
  <2> QED
    BY <1>1, <2>1, <2>2
<1>4. \A s \in early' : answer'[s] # None
  BY DEF InStep, StreamOK
<1> QED
  BY <1>2, <1>3, <1>4 DEF StreamOK

\* The stream when requests are executed or lost, or answers set aside.
LEMMA StreamSame ==
  ASSUME InStep, UNCHANGED <<next, pending, closing>>,
         \A s \in Serials : request'[s] \in {None, request[s]},
         \A s \in Serials : (answer'[s] = answer[s]) \/ (request[s] # None /\ request'[s] = None),
         \A s \in early' : answer'[s] # None
  PROVE  StreamOK'
<1>1. Oldest' = Oldest
  BY DEF Oldest, Width
<1>2. \A s \in Serials : Owed(s)' <=> Owed(s)
  BY <1>1 DEF Owed
<1> QED
  BY <1>1, <1>2 DEF InStep, StreamOK

\* The next request of an operation that was waiting for one answer.
LEMMA OneAfterAnother ==
  ASSUME InStep, next \in Serials, NEW kind, ThenSends(kind), closing' = <<>>,
         \/ Width = 0 /\ UNCHANGED <<answer, early>>
         \/ Width = 1 /\ \E s \in Serials : Take(s)
  PROVE  StreamOK'
<1>1. TypeOK /\ early' = {} /\ \A s \in Serials : request[s] = None /\ answer'[s] = None
  BY Emptied, LastTaken DEF InStep
<1> QED
  BY <1>1, StreamAlone DEF ThenSends

LEMMA LastAnswer ==
  ASSUME InStep, Width = 1, ThenReturns, closing' = <<>>, NEW s \in Serials, Take(s)
  PROVE  StreamOK'
<1>1. TypeOK /\ early' = {} /\ \A t \in Serials : request[t] = None /\ answer'[t] = None
  BY LastTaken DEF InStep
<1> QED
  BY <1>1, StreamEmpty DEF ThenReturns, SendsNothing

\* Types of what sending and taking change.
LEMMA TypesOfSending ==
  ASSUME TypeOK, next \in Serials,
         NEW kind \in {"open", "mode", "look", "close", "rename", "remove", "ask"},
         ThenSends(kind)
  PROVE  /\ request' \in [Serials -> Requests \cup {None}]
         /\ next' \in Nat /\ pending' \in Seq(Serials) /\ Len(pending') <= Window
<1>1. MaxChunks \in Nat /\ Window \in Nat /\ Window >= 1
  BY SftpSessionAssumption
<1>2. <<kind, 0>> \in Requests
  BY <1>1 DEF Requests
<1> QED
  BY <1>1, <1>2 DEF ThenSends, TypeOK

LEMMA TypesOfTaking ==
  ASSUME TypeOK, NEW s \in Serials, Take(s)
  PROVE  /\ answer' \in [Serials -> Answers \cup {None}] /\ early' \subseteq Serials
         /\ UNCHANGED <<file, orderly>>
BY DEF TypeOK, Take, serverVars

LEMMA Types ==
  ASSUME TypeOK
  PROVE  /\ next \in Nat /\ Window \in Nat /\ Window >= 1 /\ MaxChunks \in Nat /\ Serials \subseteq Nat
         /\ Limit \in Nat /\ 0 .. Limit \subseteq Serials
         /\ pending \in Seq(Serials) /\ closing \in Seq(Serials) /\ sent \in 0 .. MaxChunks
         /\ Yes \in Answers /\ No \in Answers
BY SftpSessionAssumption DEF TypeOK, Yes, No, Answers, Modes

LEMMA InStepAtFirst == Init => InStep
<1> SUFFICES ASSUME Init PROVE InStep
  OBVIOUS
<1>1. /\ MaxChunks \in Nat /\ Window \in Nat /\ Limit \in Nat
      /\ place = "idle" /\ next = 0 /\ pending = <<>> /\ closing = <<>> /\ sent = 0
      /\ request = [s \in Serials |-> None] /\ answer = [s \in Serials |-> None] /\ early = {}
  BY SftpSessionAssumption DEF Init
<1>2. TypeOK
  <2>1. No \in Answers
    BY <1>1 DEF No, Answers, Modes
  <2>2. file \in [at : {"nowhere", "temporary", "destination"}, open : BOOLEAN,
                 written : SUBSET Chunks, mode : Modes]
    BY DEF Init, NoFile, Modes
  <2>3. /\ place \in Places /\ next \in Nat /\ pending \in Seq(Serials) /\ closing \in Seq(Serials)
        /\ Len(pending) <= Window /\ Len(closing) <= 2 /\ sent \in 0 .. MaxChunks
        /\ request \in [Serials -> Requests \cup {None}]
        /\ answer \in [Serials -> Answers \cup {None}] /\ early \subseteq Serials
    BY <1>1 DEF Places
  <2> QED
    BY <2>1, <2>2, <2>3 DEF Init, TypeOK
<1>3. PlaceOK /\ RoomOK
  BY <1>1 DEF PlaceOK, RoomOK
<1>4. StreamOK
  BY <1>1 DEF StreamOK, Oldest, Width, Owed
<1> QED
  BY <1>2, <1>3, <1>4 DEF InStep

\* write_all, step by step.
LEMMA WritingInStep ==
  ASSUME InStep, SendChunk \/ SourceEnds \/ SendClosing \/ AllWritten \/ Release
  PROVE  InStep'
<1>a. TypeOK /\ PlaceOK /\ RoomOK /\ StreamOK /\ place = "writing"
  BY DEF InStep, SendChunk, SourceEnds, SendClosing, AllWritten, Release, Goes
<1>1. CASE SendChunk
  <2>0. closing = <<>>
    BY <1>a, <1>1 DEF SendChunk, CanSend, PlaceOK
  <2>1. /\ place' = "writing" /\ Len(pending) < Window /\ sent < MaxChunks
        /\ request' = [request EXCEPT ![next] = <<"write", sent + 1>>] /\ next' = next + 1
        /\ sent' = sent + 1 /\ pending' = Append(pending, next) /\ finished' \in BOOLEAN
        /\ UNCHANGED <<answer, early, closing, failure, attrs, report, file, orderly>>
    BY <1>1 DEF SendChunk, Goes, CanSend, Send, serverVars
  <2>2. next <= Limit /\ next \in Serials
    BY <1>a, <2>0, <2>1, Types DEF RoomOK
  <2>3. TypeOK'
    <3>1. <<"write", sent + 1>> \in Requests /\ sent' \in 0 .. MaxChunks
      BY <1>a, <2>1, Types DEF Requests, Chunks
    <3>2. request' \in [Serials -> Requests \cup {None}]
      BY <1>a, <2>1, <3>1 DEF TypeOK
    <3>3. pending' \in Seq(Serials) /\ Len(pending') <= Window /\ next' \in Nat
      BY <1>a, <2>1, <2>2, Types
    <3>4. place' \in Places
      BY <2>1 DEF Places
    <3> QED
      BY <1>a, <2>1, <3>1, <3>2, <3>3, <3>4 DEF TypeOK
  <2>4. PlaceOK' /\ RoomOK'
    BY SMTT(30), <1>a, <2>0, <2>1, Types DEF PlaceOK, RoomOK
  <2>5. /\ Len(pending') = Len(pending) + 1 /\ Len(pending) \in Nat /\ Len(closing') = 0
        /\ pending'[Len(pending) + 1] = next
        /\ \A j \in 1 .. Len(pending) : pending'[j] = pending[j]
    BY <1>a, <2>0, <2>1, <2>2, Types
  <2>6. Oldest = next - Len(pending)
    BY <1>a, <2>0, <2>5, Types DEF Oldest, Width
  <2>7. \A j \in 1 .. Len(pending') : pending'[j] = Oldest + (j - 1)
    <3>1. \A j \in 1 .. Len(pending) : pending[j] = Oldest + (j - 1)
      BY <1>a DEF StreamOK
    <3>2. next = Oldest + ((Len(pending) + 1) - 1)
      BY <1>a, <2>5, <2>6, Types
    <3>3. \A j \in 1 .. Len(pending') : j \in 1 .. Len(pending) \/ j = Len(pending) + 1
      BY <2>5
    <3> QED
      BY <2>5, <3>1, <3>2, <3>3
  <2>8. Width' = Width + 1
    BY <2>0, <2>5 DEF Width
  <2>9. \A s \in Serials : s < next \/ next + 1 <= s => request'[s] = request[s]
    BY <1>a, <2>1, Types DEF TypeOK
  <2>10. /\ Len(pending') \in Nat /\ Len(closing') \in Nat
         /\ \A j \in 1 .. Len(closing') : closing'[j] = Oldest + Len(pending') + (j - 1)
    BY <2>5
  <2>11. StreamOK'
    BY <2>1, <2>7, <2>8, <2>9, <2>10, StreamLonger
  <2> QED
    BY <2>3, <2>4, <2>11 DEF InStep
<1>2. CASE SourceEnds
  <2>1. /\ place' = "writing" /\ finished' \in BOOLEAN /\ failure' \in {None, "refused", "local"}
        /\ UNCHANGED <<next, request, answer, early, pending, closing, sent, attrs, report,
                       file, orderly>>
    BY <1>a, <1>2 DEF SourceEnds, Goes, SendsNothing, serverVars, TypeOK
  <2>2. closing = <<>>
    BY <1>a, <1>2 DEF SourceEnds, CanSend, PlaceOK
  <2>3. TypeOK'
    BY <1>a, <2>1 DEF TypeOK, Places
  <2>4. PlaceOK' /\ RoomOK'
    BY <1>a, <2>1, <2>2, Types DEF PlaceOK, RoomOK
  <2>5. StreamOK'
    BY <1>a, <2>1 DEF StreamOK, Oldest, Width, Owed
  <2> QED
    BY <2>3, <2>4, <2>5 DEF InStep
<1>3. CASE SendClosing
  <2>1. /\ place' = "writing" /\ finished /\ closing = <<>>
        /\ request' = [request EXCEPT ![next] = <<"look", 0>>, ![next + 1] = <<"close", 0>>]
        /\ next' = next + 2 /\ closing' = <<next, next + 1>>
        /\ UNCHANGED <<answer, early, pending, sent, finished, failure, attrs, report, file, orderly>>
    BY <1>3 DEF SendClosing, Goes, MustClose, serverVars
  <2>2. next + 3 <= Limit /\ next \in Serials /\ next + 1 \in Serials
    <3>1. next + (MaxChunks - sent) + 3 <= Limit
      BY <1>a, <2>1 DEF RoomOK
    <3>2. next + 3 <= Limit /\ next \in 0 .. Limit /\ next + 1 \in 0 .. Limit
      BY <1>a, <3>1, Types
    <3> QED
      BY <1>a, <3>2, Types
  <2>3. TypeOK'
    <3>1. <<"look", 0>> \in Requests /\ <<"close", 0>> \in Requests
      BY <1>a, Types DEF Requests
    <3>2. request' \in [Serials -> Requests \cup {None}]
      BY <1>a, <2>1, <3>1 DEF TypeOK
    <3>3. closing' \in Seq(Serials) /\ Len(closing') <= 2 /\ next' \in Nat
      BY <1>a, <2>1, <2>2, Types
    <3> QED
      BY <1>a, <2>1, <3>2, <3>3 DEF TypeOK, Places
  <2>4. PlaceOK' /\ RoomOK'
    BY <1>a, <2>1, <2>2, Types DEF PlaceOK, RoomOK
  <2>5. /\ Len(pending') = Len(pending) /\ Len(pending) \in Nat /\ Len(closing) = 0
        /\ Len(closing') = 2 /\ closing'[1] = next /\ closing'[2] = next + 1
    BY <1>a, <2>1, Types
  <2>6. Oldest = next - Len(pending)
    BY <1>a, <2>5, Types DEF Oldest, Width
  <2>7. \A j \in 1 .. Len(pending') : pending'[j] = Oldest + (j - 1)
    BY <1>a, <2>1, Types DEF StreamOK
  <2>8. \A j \in 1 .. Len(closing') : closing'[j] = Oldest + Len(pending') + (j - 1)
    <3>1. \A j \in 1 .. Len(closing') : j = 1 \/ j = 2
      BY <2>5
    <3>2. next \in Nat /\ Oldest + Len(pending') = next
      BY <1>a, <2>5, <2>6, Types
    <3>3. next = next + (1 - 1) /\ next + 1 = next + (2 - 1)
      BY <3>2
    <3> QED
      BY <2>5, <3>1, <3>2, <3>3
  <2>9. Width' = Width + 2
    BY <2>5 DEF Width
  <2>10. \A s \in Serials : s < next \/ next + 2 <= s => request'[s] = request[s]
    BY <1>a, <2>1, Types DEF TypeOK
  <2> QED
    BY <2>1, <2>3, <2>4, <2>5, <2>7, <2>8, <2>9, <2>10, StreamLonger DEF InStep
<1>4. CASE AllWritten
  <2>1. /\ place' = "closing" /\ pending = <<>> /\ closing # <<>>
        /\ UNCHANGED <<next, request, answer, early, pending, closing, sent, finished, failure,
                       attrs, report, file, orderly>>
    BY <1>4 DEF AllWritten, Goes, wireVars, serverVars
  <2>2. TypeOK'
    BY <1>a, <2>1 DEF TypeOK, Places
  <2>3. PlaceOK' /\ RoomOK'
    BY <1>a, <2>1, Types DEF PlaceOK, RoomOK
  <2>4. StreamOK'
    BY <1>a, <2>1 DEF StreamOK, Oldest, Width, Owed
  <2> QED
    BY <2>2, <2>3, <2>4 DEF InStep
<1>5. CASE Release
  <2>1. /\ place' = "releasing" /\ pending = <<>> /\ closing = <<>> /\ ThenSends("close")
        /\ failure # None
        /\ UNCHANGED <<answer, early, closing, sent, finished, failure, attrs, report, file, orderly>>
    BY <1>5 DEF Release, Goes, serverVars
  <2>2. next + 3 <= Limit /\ next \in Serials /\ Width = 0
    BY <1>a, <2>1, Types DEF RoomOK, Width
  <2>3. TypeOK'
    BY <1>a, <2>1, <2>2, TypesOfSending DEF TypeOK, Places
  <2>4. PlaceOK' /\ RoomOK'
    BY <1>a, <2>1, <2>2, Types DEF PlaceOK, RoomOK, ThenSends
  <2>5. StreamOK'
    BY <2>1, <2>2, OneAfterAnother
  <2> QED
    BY <2>3, <2>4, <2>5 DEF InStep
<1> QED
  BY <1>1, <1>2, <1>3, <1>4, <1>5

\* A step that takes the only answer owed, and sends the next request.
LEMMA AnotherInStep ==
  ASSUME InStep, next <= Limit, Width = 1, NEW s \in Serials, Take(s), closing' = <<>>,
         NEW kind \in {"open", "mode", "look", "close", "rename", "remove", "ask"},
         ThenSends(kind), UNCHANGED <<sent, finished, failure, attrs>>,
         place' \in Places, report' \in {"none", "stored", "refused", "local", "wrong", "broken"},
         (PlaceOK /\ RoomOK)'
  PROVE  InStep'
<1>1. TypeOK /\ next \in Serials
  BY Types DEF InStep
<1>2. TypeOK'
  <2>1. closing' \in Seq(Serials) /\ Len(closing') <= 2
    OBVIOUS
  <2> QED
    BY <1>1, <2>1, TypesOfSending, TypesOfTaking DEF TypeOK
<1>3. StreamOK'
  BY <1>1, OneAfterAnother
<1> QED
  BY <1>2, <1>3 DEF InStep

\* A step that takes the only answer owed, and returns.
LEMMA ReturnInStep ==
  ASSUME InStep, Width = 1, NEW s \in Serials, Take(s), closing' = <<>>, ThenReturns,
         UNCHANGED <<sent, finished, failure, attrs>>, place' = "idle",
         report' \in {"none", "stored", "refused", "local", "wrong", "broken"}
  PROVE  InStep'
<1>1. TypeOK /\ UNCHANGED <<next, request>> /\ pending' = <<>>
  BY DEF InStep, ThenReturns, SendsNothing
<1>2. TypeOK'
  <2>1. closing' \in Seq(Serials) /\ Len(closing') <= 2 /\ pending' \in Seq(Serials)
        /\ Len(pending') <= Window /\ place' \in Places
    BY <1>1, Types DEF Places
  <2> QED
    BY <1>1, <2>1, TypesOfTaking DEF TypeOK
<1>3. PlaceOK' /\ RoomOK'
  BY <1>1 DEF PlaceOK, RoomOK
<1>4. StreamOK'
  BY LastAnswer
<1> QED
  BY <1>2, <1>3, <1>4 DEF InStep

\* A step that takes one answer of several.
LEMMA CollectInStep ==
  ASSUME InStep, NEW s \in Serials, Collect(s) \/ LookedBack(s)
  PROVE  InStep'
<1>a. TypeOK /\ PlaceOK /\ RoomOK /\ StreamOK
  BY DEF InStep
<1>1. CASE Collect(s)
  <2>1. /\ place = "writing" /\ place' = "writing" /\ pending # <<>> /\ Take(s)
        /\ pending' = Tail(pending) /\ UNCHANGED <<next, request>>
        /\ failure' \in {failure, "refused"}
        /\ UNCHANGED <<closing, sent, finished, attrs, report>>
    BY <1>1 DEF Collect, Goes, Waits, SendsNothing
  <2>2. pending' \in Seq(Serials) /\ Len(pending') <= Window /\ Width > 0
    <3>1. pending \in Seq(Serials) /\ Len(pending) <= Window /\ Window \in Nat
          /\ Len(closing) \in Nat
      BY <1>a, Types DEF TypeOK
    <3>2. Len(pending) \in Nat /\ Len(pending) > 0 /\ Len(pending') = Len(pending) - 1
          /\ pending' \in Seq(Serials)
      BY <2>1, <3>1
    <3> QED
      BY <3>1, <3>2 DEF Width
  <2>3. TypeOK'
    BY <1>a, <2>1, <2>2, TypesOfTaking DEF TypeOK
  <2>4. PlaceOK' /\ RoomOK'
    BY <1>a, <2>1 DEF PlaceOK, RoomOK
  <2>5. StreamOK'
    BY <2>1, <2>2, StreamShorter
  <2> QED
    BY <2>3, <2>4, <2>5 DEF InStep
<1>2. CASE LookedBack(s)
  <2>1. /\ place = "closing" /\ place' = "closing" /\ Len(closing) = 2 /\ Take(s)
        /\ attrs' = answer[s] /\ closing' = Tail(closing) /\ UNCHANGED <<next, request>>
        /\ UNCHANGED <<pending, sent, finished, failure, report>>
    BY <1>2 DEF LookedBack, Goes, SendsNothing
  <2>2. closing' \in Seq(Serials) /\ Len(closing') = 1 /\ Width > 0 /\ pending = <<>>
    <3>1. pending = <<>> /\ Len(pending) = 0
      BY <1>a, <2>1 DEF PlaceOK
    <3>2. closing \in Seq(Serials)
      BY <1>a, Types
    <3>3. closing # <<>>
      <4>1. Len(<<>>) = 0
        OBVIOUS
      <4> QED
        BY <2>1, <4>1
    <3> QED
      BY <2>1, <3>1, <3>2, <3>3 DEF Width
  <2>3. attrs' \in Answers
    BY <2>1, <2>2, Taken DEF Take
  <2>4. TypeOK'
    BY <1>a, <2>1, <2>2, <2>3, TypesOfTaking DEF TypeOK
  <2>5. PlaceOK' /\ RoomOK'
    BY <1>a, <2>1, <2>2 DEF PlaceOK, RoomOK
  <2>6. StreamOK'
    BY <2>1, <2>2, StreamShorter
  <2> QED
    BY <2>4, <2>5, <2>6 DEF InStep
<1> QED
  BY <1>1, <1>2

\* An answer that ends an operation, or a part of it, is the only one owed.
LEMMA OneOwed ==
  ASSUME InStep, NEW s \in Serials,
         \/ Opened(s) \/ NotOpened(s) \/ Released(s) \/ Closed(s) \/ Renamed(s) \/ Removed(s)
         \/ Answered(s)
  PROVE  /\ Width = 1 /\ Take(s)
         /\ place \in {"opening", "closing", "releasing", "renaming", "removing", "asking"}
         /\ place = "closing" => Len(closing) = 1
<1>a. /\ place \in {"opening", "closing", "releasing", "renaming", "removing", "asking"}
      /\ place = "closing" => Len(closing) = 1
      /\ Take(s)
  BY DEF Opened, NotOpened, Released, Closed, Renamed, Removed, Answered, Goes
<1>1. \/ Len(pending) = 1 /\ closing = <<>>
      \/ pending = <<>> /\ Len(closing) = 1
  BY <1>a DEF InStep, PlaceOK
<1>2. Len(<<>>) = 0
  OBVIOUS
<1>3. CASE Len(pending) = 1 /\ closing = <<>>
  <2>1. Width = 1 + 0
    BY <1>2, <1>3 DEF Width
  <2> QED
    BY <1>a, <2>1
<1>4. CASE pending = <<>> /\ Len(closing) = 1
  <2>1. Width = 0 + 1
    BY <1>2, <1>4 DEF Width
  <2> QED
    BY <1>a, <2>1
<1> QED
  BY <1>1, <1>3, <1>4

\* The other answers an upload or an operation takes.
LEMMA AnswersInStep ==
  ASSUME InStep, NEW s \in Serials,
         \/ Opened(s) \/ NotOpened(s) \/ Released(s) \/ Closed(s) \/ Renamed(s) \/ Removed(s)
         \/ Answered(s)
  PROVE  InStep'
<1>a. TypeOK /\ PlaceOK /\ RoomOK /\ failure \in {None, "refused", "local"}
      /\ report \in {"none", "stored", "refused", "local", "wrong", "broken"}
  BY DEF InStep, TypeOK
<1>b. /\ place \in {"opening", "closing", "releasing", "renaming", "removing", "asking"}
      /\ place = "closing" => Len(closing) = 1
      /\ Take(s)
  BY DEF Opened, NotOpened, Released, Closed, Renamed, Removed, Answered, Goes
<1>c. Width = 1
  BY OneOwed
<1>d. /\ place = "closing" => next + 1 <= Limit
      /\ place = "opening" => next + MaxChunks + 4 <= Limit /\ sent = 0
      /\ place \in {"releasing", "renaming"} => next <= Limit
      /\ place # "closing" => closing = <<>>
  BY <1>a, <1>b DEF RoomOK, PlaceOK
<1>1. CASE Opened(s)
  <2>1. /\ place = "opening" /\ place' = "writing" /\ ThenSends("mode")
        /\ UNCHANGED <<closing, sent, finished, failure, attrs, report>>
    BY <1>1 DEF Opened, Goes
  <2>2. (PlaceOK /\ RoomOK)' /\ next <= Limit
    BY <1>a, <1>d, <2>1, Types DEF PlaceOK, RoomOK, ThenSends
  <2>3. place' \in Places /\ closing' = <<>> /\ report' \in {"none", "stored", "refused", "local", "wrong", "broken"}
    BY <1>a, <1>d, <2>1 DEF Places
  <2> QED
    BY <1>b, <1>c, <2>1, <2>2, <2>3, AnotherInStep
<1>2. CASE NotOpened(s)
  <2>1. /\ place = "opening" /\ place' = "removing" /\ ThenSends("remove")
        /\ report' = "refused" /\ UNCHANGED <<closing, sent, finished, failure, attrs>>
    BY <1>2 DEF NotOpened, Goes
  <2>2. (PlaceOK /\ RoomOK)' /\ next <= Limit
    BY <1>a, <1>d, <2>1, Types DEF PlaceOK, RoomOK, ThenSends
  <2>3. place' \in Places /\ closing' = <<>>
    BY <1>d, <2>1 DEF Places
  <2> QED
    BY <1>b, <1>c, <2>1, <2>2, <2>3, AnotherInStep
<1>3. CASE Released(s)
  <2>1. /\ place = "releasing" /\ place' = "removing" /\ ThenSends("remove")
        /\ report' = failure /\ UNCHANGED <<closing, sent, finished, failure, attrs>>
    BY <1>3 DEF Released, Goes
  <2>2. (PlaceOK /\ RoomOK)' /\ next <= Limit
    BY <1>a, <1>d, <2>1, Types DEF PlaceOK, RoomOK, ThenSends
  <2>3. place' \in Places /\ closing' = <<>>
    BY <1>d, <2>1 DEF Places
  <2>4. failure # None
    BY <1>a, <2>1 DEF RoomOK
  <2> QED
    BY <1>a, <1>b, <1>c, <2>1, <2>2, <2>3, <2>4, AnotherInStep
<1>4. CASE Closed(s)
  <2>1. /\ closing' = <<>> /\ UNCHANGED <<sent, finished, failure, attrs>>
        /\ place = "closing" /\ next + 1 <= Limit
    BY <1>4, <1>d DEF Closed, Goes
  <2>2. \/ /\ place' = "renaming" /\ ThenSends("rename") /\ UNCHANGED report
        \/ /\ place' = "removing" /\ ThenSends("remove") /\ report' = Verdict(answer[s])
    BY <1>4 DEF Closed, Goes
  <2>3. Verdict(answer[s]) \in {"none", "stored", "refused", "local", "wrong", "broken"}
    BY <1>a DEF Verdict
  <2>4. (PlaceOK /\ RoomOK)' /\ next <= Limit /\ place' \in Places
    BY <1>a, <2>1, <2>2, Types DEF PlaceOK, RoomOK, ThenSends, Places
  <2> QED
    BY <1>a, <1>b, <1>c, <2>1, <2>2, <2>3, <2>4, AnotherInStep
<1>5. CASE Renamed(s)
  <2>1. place = "renaming" /\ UNCHANGED <<closing, sent, finished, failure, attrs>>
    BY <1>5 DEF Renamed, Goes
  <2>2. \/ /\ place' = "idle" /\ ThenReturns /\ report' = "stored"
        \/ /\ place' = "removing" /\ ThenSends("remove") /\ report' = "refused"
    BY <1>5 DEF Renamed, Goes
  <2>3. closing' = <<>> /\ next <= Limit
    BY <1>d, <2>1
  <2>4. CASE ThenReturns /\ place' = "idle" /\ report' = "stored"
    BY <1>b, <1>c, <2>1, <2>3, <2>4, ReturnInStep
  <2>5. CASE /\ place' = "removing" /\ ThenSends("remove") /\ report' = "refused"
    <3>1. (PlaceOK /\ RoomOK)' /\ place' \in Places
      BY <1>a, <2>1, <2>3, <2>5, Types DEF PlaceOK, RoomOK, ThenSends, Places
    <3> QED
      BY <1>b, <1>c, <2>1, <2>3, <2>5, <3>1, AnotherInStep
  <2> QED
    BY <2>2, <2>4, <2>5
<1>6. CASE Removed(s) \/ Answered(s)
  <2>1. /\ place \in {"removing", "asking"} /\ place' = "idle" /\ ThenReturns
        /\ UNCHANGED <<closing, sent, finished, failure, attrs, report>>
    BY <1>6 DEF Removed, Answered, Goes
  <2> QED
    BY <1>a, <1>b, <1>c, <1>d, <2>1, ReturnInStep
<1> QED
  BY <1>1, <1>2, <1>3, <1>4, <1>5, <1>6

LEMMA BeginningInStep ==
  ASSUME InStep, BeginUpload \/ Ask
  PROVE  InStep'
<1>a. TypeOK /\ PlaceOK /\ place = "idle"
  BY DEF InStep, BeginUpload, Ask, Goes
<1>b. pending = <<>> /\ closing = <<>> /\ Width = 0
  <2>1. pending = <<>> /\ closing = <<>>
    BY <1>a DEF PlaceOK
  <2>2. Len(<<>>) = 0
    OBVIOUS
  <2>3. Width = 0 + 0
    BY <2>1, <2>2 DEF Width
  <2> QED
    BY <2>1, <2>3
<1>1. CASE BeginUpload
  <2>1. /\ place' = "opening" /\ next + MaxChunks + 5 <= Limit /\ ThenSends("open")
        /\ closing' = <<>> /\ sent' = 0 /\ finished' = FALSE /\ failure' = None /\ attrs' = No
        /\ report' = "none" /\ file' = NoFile /\ UNCHANGED <<answer, early, orderly>>
    BY <1>1 DEF BeginUpload, Goes
  <2>2. next \in Serials
    BY <1>a, <2>1, Types
  <2>3. NoFile \in [at : {"nowhere", "temporary", "destination"}, open : BOOLEAN,
                    written : SUBSET Chunks, mode : Modes]
    BY DEF NoFile, Modes
  <2>4. TypeOK'
    <3>1. closing' \in Seq(Serials) /\ Len(closing') <= 2 /\ sent' \in 0 .. MaxChunks
          /\ place' \in Places /\ attrs' \in Answers
      BY <1>a, <2>1, Types DEF Places
    <3> QED
      BY <1>a, <2>1, <2>2, <2>3, <3>1, TypesOfSending DEF TypeOK
  <2>5. PlaceOK' /\ RoomOK'
    BY <1>a, <2>1, Types DEF PlaceOK, RoomOK, ThenSends
  <2>6. StreamOK'
    BY <1>b, <2>1, <2>2, OneAfterAnother
  <2> QED
    BY <2>4, <2>5, <2>6 DEF InStep
<1>2. CASE Ask
  <2>1. /\ place' = "asking" /\ next < Limit /\ ThenSends("ask")
        /\ UNCHANGED <<closing, sent, finished, failure, attrs, report, answer, early, file, orderly>>
    BY <1>2 DEF Ask, Goes, serverVars
  <2>2. next \in Serials /\ closing' = <<>>
    BY <1>a, <1>b, <2>1, Types
  <2>3. TypeOK'
    BY <1>a, <2>1, <2>2, TypesOfSending DEF TypeOK, Places
  <2>4. PlaceOK' /\ RoomOK'
    BY <1>a, <2>1, <2>2 DEF PlaceOK, RoomOK, ThenSends
  <2>5. StreamOK'
    BY <1>b, <2>1, <2>2, OneAfterAnother
  <2> QED
    BY <2>3, <2>4, <2>5 DEF InStep
<1> QED
  BY <1>1, <1>2

LEMMA AsideInStep ==
  ASSUME InStep, NEW s \in Serials, SetAside(s)
  PROVE  InStep'
<1>1. /\ answer' = answer /\ early' = early \cup {s} /\ answer[s] # None
      /\ UNCHANGED <<clientVars, request, serverVars>>
  BY AsideKeeps DEF SetAside
<1>2. TypeOK'
  BY <1>1 DEF InStep, TypeOK, clientVars, serverVars
<1>3. PlaceOK' /\ RoomOK'
  BY <1>1 DEF InStep, PlaceOK, RoomOK, clientVars
<1>4. StreamOK'
  <2>1. \A t \in early' : answer'[t] # None
    BY <1>1 DEF InStep, StreamOK
  <2>2. /\ UNCHANGED <<next, pending, closing>>
        /\ \A t \in Serials : request'[t] \in {None, request[t]}
        /\ \A t \in Serials : answer'[t] = answer[t]
    BY <1>1 DEF clientVars
  <2> QED
    BY <2>1, <2>2, StreamSame
<1> QED
  BY <1>2, <1>3, <1>4 DEF InStep

LEMMA EndsInStep ==
  ASSUME InStep, Ends
  PROVE  InStep'
<1>1. /\ place' = "ended" /\ report' \in {report, "broken"}
      /\ UNCHANGED <<next, pending, closing, sent, finished, failure, attrs, wireVars, serverVars>>
  BY DEF Ends
<1>2. TypeOK'
  BY <1>1 DEF InStep, TypeOK, Places, wireVars, serverVars
<1>3. PlaceOK' /\ RoomOK'
  BY <1>1 DEF InStep, PlaceOK, RoomOK
<1>4. StreamOK'
  <2>1. /\ UNCHANGED <<next, pending, closing>>
        /\ \A t \in Serials : request'[t] \in {None, request[t]}
        /\ \A t \in Serials : answer'[t] = answer[t]
        /\ \A t \in early' : answer'[t] # None
    BY <1>1 DEF wireVars, InStep, StreamOK
  <2> QED
    BY <2>1, StreamSame
<1> QED
  BY <1>2, <1>3, <1>4 DEF InStep

\* What the server can make of the file, and answer.
LEMMA Replied ==
  ASSUME TypeOK, NEW s \in Serials, request[s] # None, Granted(s) \/ Refused(s)
  PROVE  /\ \E a \in Answers : answer' = [answer EXCEPT ![s] = a]
         /\ file' \in [at : {"nowhere", "temporary", "destination"}, open : BOOLEAN,
                       written : SUBSET Chunks, mode : Modes]
<1>a. /\ request[s] \in Requests /\ MaxChunks \in Nat
      /\ file \in [at : {"nowhere", "temporary", "destination"}, open : BOOLEAN,
                   written : SUBSET Chunks, mode : Modes]
  BY SftpSessionAssumption DEF TypeOK
<1>b. request[s][1] = "write" => request[s][2] \in Chunks
  BY <1>a DEF Requests
<1>c. Yes \in Answers /\ No \in Answers
  BY Types
<1>1. CASE Granted(s)
  <2>1. \E a \in Answers : answer' = [answer EXCEPT ![s] = a]
    <3>1. CASE Replies(s, Yes)
      BY <1>c, <3>1 DEF Replies
    <3>2. CASE \E a \in {Yes, No} : Replies(s, a)
      BY <1>c, <3>2 DEF Replies
    <3>3. CASE \E m \in 0 .. MaxChunks : Replies(s, [ok |-> TRUE, size |-> m, mode |-> file.mode])
      <4>1. PICK m \in 0 .. MaxChunks : Replies(s, [ok |-> TRUE, size |-> m, mode |-> file.mode])
        BY <3>3
      <4>2. [ok |-> TRUE, size |-> m, mode |-> file.mode] \in Answers
        BY <1>a DEF Answers
      <4> QED
        BY <4>1, <4>2 DEF Replies
    <3> QED
      BY <1>1, <3>1, <3>2, <3>3 DEF Granted
  <2>2. \/ \E m \in {"loose", "asked"} :
              file' = [file EXCEPT !.at = "temporary", !.open = TRUE, !.mode = m]
        \/ \E m \in {file.mode, "asked"} : file' = [file EXCEPT !.mode = m]
        \/ request[s][1] = "write" /\ file' = [file EXCEPT !.written = @ \cup {request[s][2]}]
        \/ file' = file
        \/ file' = [file EXCEPT !.open = FALSE]
        \/ \E p \in {"destination", "nowhere"} : file' = [file EXCEPT !.at = p]
    BY <1>1 DEF Granted
  <2> DEFINE Files == [at : {"nowhere", "temporary", "destination"}, open : BOOLEAN,
                       written : SUBSET Chunks, mode : Modes]
  <2>3. ASSUME NEW m \in {"loose", "asked"},
               file' = [file EXCEPT !.at = "temporary", !.open = TRUE, !.mode = m]
        PROVE  file' \in Files
    BY <1>a, <2>3 DEF Modes
  <2>4. ASSUME NEW m \in {file.mode, "asked"}, file' = [file EXCEPT !.mode = m]
        PROVE  file' \in Files
    BY <1>a, <2>4 DEF Modes
  <2>5. ASSUME request[s][1] = "write", file' = [file EXCEPT !.written = @ \cup {request[s][2]}]
        PROVE  file' \in Files
    BY <1>a, <1>b, <2>5
  <2>6. ASSUME file' = [file EXCEPT !.open = FALSE]
        PROVE  file' \in Files
    BY <1>a, <2>6
  <2>7. ASSUME NEW p \in {"destination", "nowhere"}, file' = [file EXCEPT !.at = p]
        PROVE  file' \in Files
    BY <1>a, <2>7
  <2> QED
    BY <1>a, <2>1, <2>2, <2>3, <2>4, <2>5, <2>6, <2>7
<1>2. CASE Refused(s)
  BY <1>a, <1>c, <1>2 DEF Refused, Replies
<1> QED
  BY <1>1, <1>2

LEMMA ServerInStep ==
  ASSUME InStep, NEW s \in Serials, Execute(s) \/ Lost(s)
  PROVE  InStep'
<1>a. /\ request[s] # None /\ request' = [request EXCEPT ![s] = None]
      /\ UNCHANGED <<place, next, pending, closing, sent, finished, failure, attrs, report, early, orderly>>
  BY DEF Execute, Lost, clientVars, serverVars
<1>b. /\ \/ UNCHANGED answer
         \/ \E a \in Answers : answer' = [answer EXCEPT ![s] = a]
      /\ file' \in [at : {"nowhere", "temporary", "destination"}, open : BOOLEAN,
                    written : SUBSET Chunks, mode : Modes]
  <2>1. CASE Execute(s)
    BY <1>a, <2>1, Replied DEF Execute, InStep
  <2>2. CASE Lost(s)
    BY <2>2 DEF Lost, serverVars, InStep, TypeOK
  <2> QED
    BY <2>1, <2>2
<1>c. /\ request \in [Serials -> Requests \cup {None}] /\ answer \in [Serials -> Answers \cup {None}]
      /\ early \subseteq Serials
  BY DEF InStep, TypeOK
<1>1. TypeOK'
  <2>1. /\ request' \in [Serials -> Requests \cup {None}]
        /\ answer' \in [Serials -> Answers \cup {None}]
    BY <1>a, <1>b, <1>c
  <2> QED
    BY <1>a, <1>b, <2>1 DEF InStep, TypeOK
<1>2. PlaceOK' /\ RoomOK'
  BY <1>a DEF InStep, PlaceOK, RoomOK
<1>3. StreamOK'
  <2>1. \A t \in Serials : request'[t] \in {None, request[t]}
    BY <1>a, <1>c
  <2>2. \A t \in Serials : (answer'[t] = answer[t]) \/ (request[t] # None /\ request'[t] = None)
    BY <1>a, <1>b, <1>c
  <2>3. \A t \in early' : answer'[t] # None
    <3> SUFFICES ASSUME NEW t \in early
                 PROVE  answer'[t] # None
      BY <1>a
    <3>1. answer[t] # None /\ request[t] = None /\ t \in Serials
      BY <1>c DEF InStep, StreamOK
    <3> QED
      BY <1>a, <1>b, <1>c, <3>1
  <2> QED
    BY <1>a, <2>1, <2>2, <2>3, StreamSame
<1> QED
  BY <1>1, <1>2, <1>3 DEF InStep

LEMMA InStepKept == InStep /\ [Next]_vars => InStep'
<1> SUFFICES ASSUME InStep, [Next]_vars
             PROVE  InStep'
  OBVIOUS
<1>1. CASE BeginUpload \/ Ask
  BY <1>1, BeginningInStep
<1>2. CASE SendChunk \/ SourceEnds \/ SendClosing \/ AllWritten \/ Release
  BY <1>2, WritingInStep
<1>3. ASSUME NEW s \in Serials, Collect(s) \/ LookedBack(s)
      PROVE  InStep'
  BY <1>3, CollectInStep
<1>4. ASSUME NEW s \in Serials,
             \/ Opened(s) \/ NotOpened(s) \/ Released(s) \/ Closed(s) \/ Renamed(s) \/ Removed(s)
             \/ Answered(s)
      PROVE  InStep'
  BY <1>4, AnswersInStep
<1>5. ASSUME NEW s \in Serials, SetAside(s)
      PROVE  InStep'
  BY <1>5, AsideInStep
<1>6. CASE TimesOut \/ Breaks
  BY <1>6, EndsInStep DEF TimesOut, Breaks
<1>7. ASSUME NEW s \in Serials, Execute(s) \/ Lost(s)
      PROVE  InStep'
  BY <1>7, ServerInStep
<1>8. CASE UNCHANGED vars
  <2>1. TypeOK'
    BY <1>8 DEF InStep, TypeOK, vars, clientVars, wireVars, serverVars
  <2>2. PlaceOK' /\ RoomOK'
    BY <1>8 DEF InStep, PlaceOK, RoomOK, vars, clientVars
  <2>3. StreamOK'
    BY <1>8 DEF InStep, StreamOK, Oldest, Width, Owed, vars, clientVars, wireVars
  <2> QED
    BY <2>1, <2>2, <2>3 DEF InStep
<1> QED
  BY <1>1, <1>2, <1>3, <1>4, <1>5, <1>6, <1>7, <1>8 DEF Next, Client, Uploads

------------------------------------------------------------------------------
(* What follows of the stream alone *)

LEMMA InStepHolds == Spec => []InStep
BY InStepAtFirst, InStepKept, PTL DEF Spec

\* The types of the session's variables, and at most Window writes unanswered
\* (session.rs, `write_all`).
THEOREM TypeCorrect == Spec => []TypeOK
<1>1. InStep => TypeOK
  BY DEF InStep
<1> QED
  BY <1>1, InStepHolds, PTL

\* An answer is taken by the request it answers (session.rs, `wait`): ids are
\* used again, but two requests that are owed an answer are closer than IdSpace.
LEMMA RightStep ==
  ASSUME InStep, [Next]_vars, NEW s \in Serials, answer[s] # None, answer'[s] = None
  PROVE  s = Awaited
<1>a. answer \in [Serials -> Answers \cup {None}]
  BY DEF InStep, TypeOK
<1>1. ASSUME NEW t \in Serials, Take(t)
      PROVE  s = t
  BY <1>a, <1>1 DEF Take
<1>2. ASSUME NEW t \in Serials, Take(t), Width > 0
      PROVE  s = Awaited
  BY <1>1, <1>2, Taken DEF Take
<1>3. ASSUME NEW t \in Serials, Collect(t)
      PROVE  s = Awaited
  <2>1. Take(t) /\ pending # <<>>
    BY <1>3 DEF Collect, Goes, Waits
  <2>2. Width > 0
    BY <2>1, Types DEF Width, InStep
  <2> QED
    BY <1>2, <2>1, <2>2
<1>4. ASSUME NEW t \in Serials,
             \/ Opened(t) \/ NotOpened(t) \/ Released(t) \/ Closed(t) \/ Renamed(t) \/ Removed(t)
             \/ Answered(t) \/ LookedBack(t)
      PROVE  s = Awaited
  <2>1. /\ place \in {"opening", "closing", "releasing", "renaming", "removing", "asking"}
        /\ Take(t)
    BY <1>4 DEF Opened, NotOpened, Released, Closed, Renamed, Removed, Answered, LookedBack, Goes
  <2>2. Width > 0
    <3>1. Len(pending) = 1 \/ Len(closing) \in {1, 2}
      BY <2>1 DEF InStep, PlaceOK
    <3>2. Len(pending) \in Nat /\ Len(closing) \in Nat
      BY Types DEF InStep
    <3> QED
      BY SMTT(30), <3>1, <3>2 DEF Width
  <2> QED
    BY <1>2, <2>1, <2>2
<1>5. ASSUME NEW t \in Serials, SetAside(t)
      PROVE  FALSE
  BY <1>5, AsideKeeps
<1>6. ASSUME NEW t \in Serials, Execute(t) \/ Lost(t)
      PROVE  FALSE
  <2>1. request[t] # None /\ answer[t] = None
    BY <1>6 DEF Execute, Lost, InStep, StreamOK
  <2>2. UNCHANGED answer \/ \E a \in Answers : answer' = [answer EXCEPT ![t] = a]
    BY <1>6, <2>1, Replied DEF Execute, Lost, InStep
  <2> QED
    BY <1>a, <2>1, <2>2
<1>7. ASSUME UNCHANGED answer
      PROVE  FALSE
  BY <1>7
<1>8. CASE \/ BeginUpload \/ Ask \/ SendChunk \/ SourceEnds \/ SendClosing \/ AllWritten \/ Release
           \/ TimesOut \/ Breaks \/ UNCHANGED vars
  BY <1>7, <1>8 DEF BeginUpload, Ask, SendChunk, Send, SourceEnds, SendClosing, AllWritten, Release,
    TimesOut, Breaks, Ends, vars, wireVars
<1> QED
  BY <1>3, <1>4, <1>5, <1>6, <1>8 DEF Next, Client, Uploads

THEOREM RightAnswerHolds == Spec => RightAnswer
<1>1. InStep /\ [Next]_vars =>
        [\A s \in Serials : answer[s] # None /\ answer'[s] = None => s = Awaited]_vars
  BY RightStep
<1> QED
  BY <1>1, InStepHolds, PTL DEF Spec, RightAnswer

------------------------------------------------------------------------------
(* What is at the destination *)

Ready ==
  /\ Whole /\ ~file.open
  /\ sent >= Expected
  /\ orderly => sent = Expected

Only(kinds) == \A s \in Serials : request[s] # None => request[s] \in kinds \X {0}

NoRename == \A s \in Serials : request[s] # <<"rename", 0>>

\* Nothing that could still be executed touches a file that is, or may be, in place.
DestinationOK ==
  /\ file.at = "destination" => Ready /\ Only({"ask"})
  /\ \A s \in Serials : request[s] = <<"rename", 0>> =>
       Ready /\ \A t \in Serials \ {s} : request[t] = None

Failed == {"refused", "local", "wrong"}

\* What the upload has said, or will say, of the destination.
SaidOK ==
  /\ report \in Failed => file.at # "destination" /\ NoRename
  /\ report = "stored" => file.at = "destination"
  /\ report = "none" /\ place # "renaming" => file.at # "destination" /\ NoRename
  /\ report = "broken" => place = "ended"
  /\ place \in {"opening", "writing", "closing", "releasing", "renaming"} => report = "none"
  /\ place = "removing" => report \in Failed

OpeningOK ==
  /\ Only({"open"})
  /\ \A s \in Serials :
       /\ request[s] # None => file = NoFile
       /\ answer[s] # None =>
            IF answer[s].ok THEN file.open /\ file.at = "temporary" /\ file.written = {}
            ELSE file = NoFile

ReleasingOK ==
  /\ Only({"close"})
  /\ \A s \in Serials : answer[s] # None => ~file.open

RenamingOK ==
  /\ Only({"rename"}) /\ Ready
  /\ \A s \in Serials : answer[s] # None => (answer[s].ok <=> file.at = "destination")

\* The serial of the last chunk, and the chunk a request is about: 0 is the mode.
Last == IF place = "closing" \/ closing # <<>> THEN next - 3 ELSE next - 1
ChunkOf(s) == sent - (Last - s)

Made(s) ==
  IF s = Last + 1 THEN <<"look", 0>>
  ELSE IF s = Last + 2 THEN <<"close", 0>>
  ELSE IF ChunkOf(s) = 0 THEN <<"mode", 0>>
  ELSE <<"write", ChunkOf(s)>>

\* A read-back that was granted.
LookOK(a) ==
  a.ok =>
    /\ a.size = 0 \/ a.size \in file.written
    /\ a.mode = "asked" => file.mode = "asked"
    /\ orderly => /\ IsSize(a.size, file.written)
                  /\ \A t \in Serials : t <= Last => request[t] = None

WritingOK ==
  /\ file.at = "temporary" /\ file.written \subseteq 1 .. sent
  /\ Len(pending) <= sent + 1
  /\ failure = None => \A c \in 1 .. sent : c <= sent - Len(pending) => c \in file.written
  /\ \A s \in Serials :
       /\ request[s] # None => request[s] = Made(s)
       /\ answer[s] # None =>
            /\ answer[s].ok /\ s <= Last /\ ChunkOf(s) > 0 => ChunkOf(s) \in file.written
            /\ s = Last + 1 => LookOK(answer[s])
            /\ s = Last + 2 => ~file.open
  /\ Len(closing) = 1 => LookOK(attrs)

ContentOK ==
  /\ place = "opening" => OpeningOK
  /\ place \in {"writing", "closing"} => WritingOK
  /\ place = "releasing" => ReleasingOK
  /\ place = "renaming" => RenamingOK
  /\ place = "removing" => Only({"remove"}) /\ ~file.open
  /\ place = "asking" => Only({"ask"}) /\ ~file.open
  /\ place = "idle" => ~file.open

IInv == InStep /\ DestinationOK /\ SaidOK /\ ContentOK

LEMMA ReadyKept ==
  ASSUME Ready, UNCHANGED <<sent, orderly>>, file'.mode = file.mode,
         file'.written = file.written, file'.open = file.open
  PROVE  Ready'
BY DEF Ready, Whole

LEMMA IInvAtFirst == Init => IInv
<1> SUFFICES ASSUME Init PROVE IInv
  OBVIOUS
<1>1. /\ place = "idle" /\ report = "none" /\ file = NoFile
      /\ \A s \in Serials : request[s] = None
  BY DEF Init
<1>2. file.at = "nowhere" /\ file.open = FALSE
  BY <1>1 DEF NoFile
<1>3. NoRename
  <2>1. <<"rename", 0>> \in Requests
    BY DEF Requests
  <2> QED
    BY <1>1, <2>1, NoneAssumption DEF NoRename
<1>4. DestinationOK
  BY <1>2, <1>3 DEF DestinationOK, NoRename
<1>5. SaidOK
  BY <1>1, <1>2, <1>3 DEF SaidOK, Failed
<1>6. ContentOK
  BY <1>1, <1>2 DEF ContentOK
<1> QED
  BY <1>4, <1>5, <1>6, InStepAtFirst DEF IInv

\* A request that is alone after everything was answered.
LEMMA SentAlone ==
  ASSUME TypeOK, next \in Serials,
         NEW kind \in {"open", "mode", "look", "close", "rename", "remove", "ask"},
         ThenSends(kind), \A s \in Serials : request[s] = None
  PROVE  /\ Only({kind})' /\ (kind # "rename" => NoRename')
         /\ request'[next] = <<kind, 0>>
         /\ \A s \in Serials : s # next => request'[s] = None
<1>1. request' = [request EXCEPT ![next] = <<kind, 0>>] /\ request \in [Serials -> Requests \cup {None}]
  BY DEF ThenSends, TypeOK
<1>2. \A s \in Serials : request'[s] = IF s = next THEN <<kind, 0>> ELSE None
  BY <1>1
<1>3. <<"rename", 0>> # None
  <2>1. <<"rename", 0>> \in Requests
    BY DEF Requests
  <2> QED
    BY <2>1, NoneAssumption
<1>4. <<kind, 0>> \in {kind} \X {0}
  OBVIOUS
<1>5. kind # "rename" => <<kind, 0>> # <<"rename", 0>>
  OBVIOUS
<1> QED
  BY <1>2, <1>3, <1>4, <1>5 DEF Only, NoRename

\* Nothing is under way when the only answer owed has been taken.
LEMMA Bare ==
  ASSUME IInv, NEW s \in Serials,
         \/ Opened(s) \/ NotOpened(s) \/ Released(s) \/ Closed(s) \/ Renamed(s) \/ Removed(s)
         \/ Answered(s)
  PROVE  /\ \A t \in Serials : request[t] = None /\ answer'[t] = None
         /\ next \in Serials \/ place \in {"removing", "asking"}
         /\ answer[s] # None /\ s = Oldest /\ next \in Nat
         /\ UNCHANGED <<file, orderly, sent, failure, attrs>>
         /\ place \in {"opening", "closing", "releasing", "renaming", "removing", "asking"}
<1>a. TypeOK /\ PlaceOK /\ RoomOK /\ InStep
  BY DEF IInv, InStep
<1>b. /\ place \in {"opening", "closing", "releasing", "renaming", "removing", "asking"}
      /\ place = "closing" => Len(closing) = 1
      /\ Take(s) /\ UNCHANGED <<sent, failure, attrs>>
  BY DEF Opened, NotOpened, Released, Closed, Renamed, Removed, Answered, Goes
<1>c. Width = 1
  BY <1>a, OneOwed
<1>d. next \in Serials \/ place \in {"removing", "asking"}
  BY <1>a, <1>b, Types DEF RoomOK
<1>e. \A t \in Serials : request[t] = None /\ answer'[t] = None
  BY <1>a, <1>b, <1>c, LastTaken
<1>f. answer[s] # None /\ s = Oldest
  BY <1>a, <1>b, <1>c, Taken DEF Take, Matches
<1>g. UNCHANGED <<file, orderly>>
  BY <1>b DEF Take, serverVars
<1> QED
  BY <1>a, <1>b, <1>d, <1>e, <1>f, <1>g, Types

\* When the close is answered the handle is released, whatever the answer.
LEMMA ClosedIsClosed ==
  ASSUME IInv, NEW s \in Serials, Closed(s)
  PROVE  ~file.open
<1>a. place = "closing" /\ Len(closing) = 1
  BY DEF Closed, Goes
<1>b. pending = <<>> /\ WritingOK /\ next \in Nat
  BY <1>a, Types DEF IInv, InStep, PlaceOK, ContentOK
<1>c. Len(pending) = 0
  BY <1>b
<1>1. s = Oldest /\ answer[s] # None
  BY Bare
<1>2. Oldest = next - 1
  BY <1>a, <1>b, <1>c DEF Oldest, Width
<1>3. s = Last + 2
  BY <1>a, <1>b, <1>1, <1>2 DEF Last
<1> QED
  BY <1>b, <1>1, <1>3 DEF WritingOK

\* What `upload` and `verify` accept is ready to be renamed: the only place where
\* answers are weighed against what happened.
LEMMA VerdictRight ==
  ASSUME IInv, NEW s \in Serials, Closed(s), Verdict(answer[s]) = "stored"
  PROVE  Ready
<1>a. /\ place = "closing" /\ Len(closing) = 1 /\ pending = <<>> /\ WritingOK
      /\ failure = None /\ attrs.ok /\ attrs.size = Expected /\ attrs.mode = "asked"
  <2>1. place = "closing" /\ Len(closing) = 1
    BY DEF Closed, Goes
  <2>2. pending = <<>> /\ WritingOK
    BY <2>1 DEF IInv, InStep, PlaceOK, ContentOK
  <2>3. failure # None => failure # "stored"
    BY DEF IInv, InStep, TypeOK
  <2> QED
    BY <2>1, <2>2, <2>3 DEF Verdict
<1>b. /\ sent \in Nat /\ next \in Nat /\ Expected \in Nat /\ Serials \subseteq Nat
      /\ file.open \in BOOLEAN
  BY SftpSessionAssumption, Types DEF IInv, InStep, TypeOK
<1>c. Len(pending) = 0
  BY <1>a
<1>1. file.written = 1 .. sent
  <2>1. \A c \in 1 .. sent : c <= sent - 0
    BY <1>b
  <2> QED
    BY <1>a, <1>c, <2>1 DEF WritingOK
<1>2. LookOK(attrs)
  BY <1>a DEF WritingOK
<1>3. file.mode = "asked" /\ (Expected = 0 \/ Expected \in 1 .. sent)
      /\ (orderly => IsSize(Expected, 1 .. sent))
  BY <1>a, <1>1, <1>2 DEF LookOK
<1>4. orderly => sent = Expected
  <2> SUFFICES ASSUME IsSize(Expected, 1 .. sent)
               PROVE  sent = Expected
    BY <1>3
  <2>1. CASE sent = 0
    BY <1>3, <2>1
  <2>2. CASE sent # 0
    <3>1. sent \in 1 .. sent
      BY <1>b, <2>2
    <3> QED
      BY <1>b, <1>3, <3>1 DEF IsSize
  <2> QED
    BY <2>1, <2>2
<1>5. ~file.open
  BY ClosedIsClosed
<1> QED
  BY <1>b, <1>1, <1>3, <1>4, <1>5 DEF Ready, Whole

\* The answer to the open starts the writing.
LEMMA OpenedKeeps ==
  ASSUME IInv, NEW s \in Serials, Opened(s)
  PROVE  (DestinationOK /\ SaidOK /\ ContentOK)'
<1>a. /\ place = "opening" /\ place' = "writing" /\ answer[s].ok /\ ThenSends("mode")
      /\ UNCHANGED <<closing, report>>
  BY DEF Opened, Goes
<1>b. /\ \A t \in Serials : request[t] = None /\ answer'[t] = None
      /\ next \in Serials /\ answer[s] # None /\ UNCHANGED <<file, orderly, sent, failure, attrs>>
      /\ next \in Nat
  BY <1>a, Bare
<1>c. TypeOK /\ OpeningOK /\ SaidOK /\ sent = 0 /\ closing = <<>>
  BY <1>a DEF IInv, InStep, ContentOK, RoomOK, PlaceOK
<1>d. file.open /\ file.at = "temporary" /\ file.written = {}
  BY <1>a, <1>b, <1>c DEF OpeningOK
<1>e. /\ Only({"mode"})' /\ NoRename' /\ request'[next] = <<"mode", 0>>
      /\ \A t \in Serials : t # next => request'[t] = None
  BY <1>a, <1>b, <1>c, SentAlone
<1>1. DestinationOK'
  BY <1>b, <1>d, <1>e DEF DestinationOK, NoRename
<1>2. SaidOK'
  BY <1>a, <1>b, <1>c, <1>d, <1>e DEF SaidOK, Failed
<1>3. WritingOK'
  <2>1. next' = next + 1 /\ pending' = <<next>> /\ closing' = <<>> /\ Len(closing') = 0
        /\ Len(pending') = 1
    BY <1>a, <1>c DEF ThenSends
  <2>2. Last' = next
    BY <1>a, <1>b, <2>1 DEF Last
  <2>3. \A t \in Serials : t = next => Made(t)' = <<"mode", 0>>
    BY <1>b, <1>c, <2>2 DEF Made, ChunkOf
  <2>4. \A t \in Serials : request'[t] # None => request'[t] = Made(t)'
    BY <1>e, <2>3
  <2>5. file'.at = "temporary" /\ file'.written \subseteq 1 .. sent'
    BY <1>b, <1>d
  <2>6. Len(pending') <= sent' + 1 /\ \A c \in 1 .. sent' : FALSE
    BY <1>b, <1>c, <2>1
  <2>7. failure' = None => \A c \in 1 .. sent' : c <= sent' - Len(pending') => c \in file'.written
    BY <2>6
  <2>8. (\A t \in Serials : answer'[t] = None) /\ Len(closing') # 1
    BY <1>b, <2>1
  <2> QED
    BY <2>4, <2>5, <2>6, <2>7, <2>8 DEF WritingOK
<1>4. ContentOK'
  BY <1>a, <1>3 DEF ContentOK
<1> QED
  BY <1>1, <1>2, <1>4

\* Whatever fails ends in the removal of the temporary file.
LEMMA RemovingKeeps ==
  ASSUME IInv, next \in Serials, ThenSends("remove"), place' = "removing", report' \in Failed,
         UNCHANGED <<file, orderly, sent>>, \A t \in Serials : request[t] = None,
         file.at # "destination", ~file.open
  PROVE  (DestinationOK /\ SaidOK /\ ContentOK)'
<1>1. Only({"remove"})' /\ NoRename'
  BY SentAlone DEF IInv, InStep
<1>2. DestinationOK'
  BY <1>1 DEF DestinationOK, NoRename
<1>3. SaidOK'
  BY <1>1 DEF SaidOK, Failed
<1>4. ContentOK'
  BY <1>1 DEF ContentOK
<1> QED
  BY <1>2, <1>3, <1>4

\* What a step that ends an operation leaves.
LEMMA IdleKeeps ==
  ASSUME IInv, place' = "idle", UNCHANGED <<file, orderly, sent, request>>,
         \A t \in Serials : request[t] = None, ~file.open,
         \/ report' = "stored" /\ file.at = "destination" /\ Ready
         \/ UNCHANGED report /\ place \in {"removing", "asking"}
  PROVE  (DestinationOK /\ SaidOK /\ ContentOK)'
<1>1. NoRename' /\ Only({"ask"})'
  <2>1. None # <<"rename", 0>>
    <3>1. <<"rename", 0>> \in Requests
      BY DEF Requests
    <3> QED
      BY <3>1, NoneAssumption
  <2> QED
    BY <2>1 DEF NoRename, Only
<1>2. DestinationOK'
  <2>1. file.at = "destination" => Ready
    BY DEF IInv, DestinationOK
  <2>2. file'.at = "destination" => Ready'
    BY <2>1, ReadyKept
  <2> QED
    BY <1>1, <2>2 DEF DestinationOK, NoRename
<1>3. SaidOK'
  BY <1>1 DEF IInv, SaidOK, Failed
<1>4. ContentOK'
  BY DEF ContentOK
<1> QED
  BY <1>2, <1>3, <1>4

LEMMA AnswersKeep ==
  ASSUME IInv, NEW s \in Serials,
         \/ Opened(s) \/ NotOpened(s) \/ Released(s) \/ Closed(s) \/ Renamed(s) \/ Removed(s)
         \/ Answered(s)
  PROVE  (DestinationOK /\ SaidOK /\ ContentOK)'
<1>a. /\ \A t \in Serials : request[t] = None /\ answer'[t] = None
      /\ next \in Serials \/ place \in {"removing", "asking"}
      /\ answer[s] # None /\ UNCHANGED <<file, orderly, sent>>
  BY Bare
<1>b. /\ place \in {"opening", "writing", "closing", "releasing"} => file.at # "destination"
      /\ failure \in {None, "refused", "local"} /\ TypeOK /\ RoomOK
  BY DEF IInv, SaidOK, InStep, TypeOK
<1>1. CASE Opened(s)
  BY <1>1, OpenedKeeps
<1>2. CASE NotOpened(s)
  <2>1. /\ place = "opening" /\ place' = "removing" /\ ~answer[s].ok /\ ThenSends("remove")
        /\ report' = "refused"
    BY <1>2 DEF NotOpened, Goes
  <2>2. file = NoFile
    BY <1>a, <2>1 DEF IInv, ContentOK, OpeningOK
  <2>3. file.open = FALSE /\ file.at = "nowhere"
    BY <2>2 DEF NoFile
  <2> QED
    BY <1>a, <2>1, <2>3, RemovingKeeps DEF Failed
<1>3. CASE Released(s)
  <2>1. /\ place = "releasing" /\ place' = "removing" /\ ThenSends("remove") /\ report' = failure
    BY <1>3 DEF Released, Goes
  <2>2. ~file.open /\ failure # None
    BY <1>a, <1>b, <2>1 DEF IInv, ContentOK, ReleasingOK, RoomOK
  <2> QED
    BY <1>a, <1>b, <2>1, <2>2, RemovingKeeps DEF Failed
<1>4. CASE Closed(s)
  <2>1. place = "closing" /\ next \in Serials
    BY <1>4, <1>a DEF Closed, Goes
  <2>2. CASE Verdict(answer[s]) = "stored"
    <3>1. place' = "renaming" /\ ThenSends("rename") /\ UNCHANGED report
      BY <1>4, <2>2 DEF Closed, Goes
    <3>2. Ready /\ Ready'
      BY <1>4, <1>a, <2>2, VerdictRight, ReadyKept
    <3>3. /\ Only({"rename"})' /\ request'[next] = <<"rename", 0>>
          /\ \A t \in Serials : t # next => request'[t] = None
      BY <1>a, <1>b, <2>1, <3>1, SentAlone
    <3>4. file'.at # "destination" /\ report' = "none"
      BY <1>a, <1>b, <2>1, <3>1 DEF IInv, SaidOK
    <3>5. DestinationOK'
      <4>1. <<"rename", 0>> # None
        <5>1. <<"rename", 0>> \in Requests
          BY DEF Requests
        <5> QED
          BY <5>1, NoneAssumption
      <4> QED
        BY <3>2, <3>3, <3>4, <4>1 DEF DestinationOK
    <3>6. SaidOK'
      BY <3>1, <3>4 DEF SaidOK, Failed
    <3>7. ContentOK'
      BY <1>a, <3>1, <3>2, <3>3 DEF ContentOK, RenamingOK
    <3> QED
      BY <3>5, <3>6, <3>7
  <2>3. CASE Verdict(answer[s]) # "stored"
    <3>1. place' = "removing" /\ ThenSends("remove") /\ report' = Verdict(answer[s])
      BY <1>4, <2>3 DEF Closed, Goes
    <3>2. Verdict(answer[s]) \in Failed
      BY <1>b, <2>3 DEF Verdict, Failed
    <3>3. ~file.open
      BY <1>4, ClosedIsClosed
    <3> QED
      BY <1>a, <1>b, <2>1, <3>1, <3>2, <3>3, RemovingKeeps
  <2> QED
    BY <2>2, <2>3
<1>5. CASE Renamed(s)
  <2>1. place = "renaming" /\ RenamingOK
    BY <1>5 DEF Renamed, Goes, IInv, ContentOK
  <2>2. Ready /\ ~file.open /\ (answer[s].ok <=> file.at = "destination")
    BY <1>a, <2>1 DEF RenamingOK, Ready
  <2>3. CASE answer[s].ok
    <3>1. place' = "idle" /\ report' = "stored" /\ UNCHANGED request
      BY <1>5, <2>3 DEF Renamed, Goes, ThenReturns, SendsNothing
    <3> QED
      BY <1>a, <2>2, <2>3, <3>1, IdleKeeps
  <2>4. CASE ~answer[s].ok
    <3>1. place' = "removing" /\ report' = "refused" /\ ThenSends("remove")
      BY <1>5, <2>4 DEF Renamed, Goes
    <3> QED
      BY <1>a, <2>1, <2>2, <2>4, <3>1, RemovingKeeps DEF Failed
  <2> QED
    BY <2>3, <2>4
<1>6. CASE Removed(s) \/ Answered(s)
  <2>1. /\ place \in {"removing", "asking"} /\ place' = "idle" /\ UNCHANGED <<report, request>>
    BY <1>6 DEF Removed, Answered, Goes, ThenReturns, SendsNothing
  <2>2. ~file.open
    BY <2>1 DEF IInv, ContentOK
  <2> QED
    BY <1>a, <2>1, <2>2, IdleKeeps
<1> QED
  BY <1>1, <1>2, <1>3, <1>4, <1>5, <1>6

LEMMA BeginningKeeps ==
  ASSUME IInv, BeginUpload \/ Ask
  PROVE  (DestinationOK /\ SaidOK /\ ContentOK)'
<1>a. TypeOK /\ InStep /\ place = "idle" /\ ~file.open
  BY DEF IInv, InStep, ContentOK, BeginUpload, Ask, Goes
<1>b. \A s \in Serials : request[s] = None /\ answer[s] = None
  <2>1. pending = <<>> /\ closing = <<>>
    BY <1>a DEF InStep, PlaceOK
  <2>2. Len(<<>>) = 0
    OBVIOUS
  <2>3. Width = 0 + 0
    BY <2>1, <2>2 DEF Width
  <2> QED
    BY <1>a, <2>3, Emptied
<1>1. CASE BeginUpload
  <2>1. /\ place' = "opening" /\ next + MaxChunks + 5 <= Limit /\ ThenSends("open")
        /\ report' = "none" /\ file' = NoFile /\ UNCHANGED <<answer, orderly>>
    BY <1>1 DEF BeginUpload, Goes
  <2>2. next \in Serials
    BY <1>a, <2>1, Types
  <2>3. Only({"open"})' /\ NoRename'
    BY <1>a, <1>b, <2>1, <2>2, SentAlone
  <2>4. file'.at = "nowhere"
    BY <2>1 DEF NoFile
  <2>5. DestinationOK'
    BY <2>3, <2>4 DEF DestinationOK, NoRename
  <2>6. SaidOK'
    BY <2>1, <2>3, <2>4 DEF SaidOK, Failed
  <2>7. ContentOK'
    BY <1>b, <2>1, <2>3 DEF ContentOK, OpeningOK
  <2> QED
    BY <2>5, <2>6, <2>7
<1>2. CASE Ask
  <2>1. /\ place' = "asking" /\ next < Limit /\ ThenSends("ask")
        /\ UNCHANGED <<sent, report, file, orderly>>
    BY <1>2 DEF Ask, Goes, serverVars
  <2>2. next \in Serials
    BY <1>a, <2>1, Types
  <2>3. Only({"ask"})' /\ NoRename'
    BY <1>a, <1>b, <2>1, <2>2, SentAlone
  <2>4. file.at = "destination" => Ready'
    BY <2>1, ReadyKept DEF IInv, DestinationOK
  <2>5. DestinationOK'
    BY <2>1, <2>3, <2>4 DEF DestinationOK, NoRename
  <2>6. SaidOK'
    BY <1>a, <2>1, <2>3 DEF IInv, SaidOK, Failed
  <2>7. ContentOK'
    BY <1>a, <2>1, <2>3 DEF ContentOK
  <2> QED
    BY <2>5, <2>6, <2>7
<1> QED
  BY <1>1, <1>2

\* Steps that leave the file and the requests, and what they are about, alone.
LEMMA EndsKeep ==
  ASSUME IInv, Ends \/ (\E s \in Serials : SetAside(s)) \/ UNCHANGED vars
  PROVE  (DestinationOK /\ SaidOK /\ ContentOK)'
<1>1. CASE Ends
  <2>1. /\ place' = "ended" /\ UNCHANGED <<sent, request, file, orderly>>
        /\ \/ UNCHANGED report /\ place \in {"idle", "removing", "asking"}
           \/ report' = "broken"
    BY <1>1 DEF Ends, wireVars, serverVars
  <2>2. DestinationOK'
    BY <2>1 DEF IInv, DestinationOK, Ready, Whole, Only
  <2>3. SaidOK'
    BY <2>1 DEF IInv, SaidOK, NoRename, Failed
  <2>4. ContentOK'
    BY <2>1 DEF ContentOK
  <2> QED
    BY <2>2, <2>3, <2>4
<1>2. CASE (\E s \in Serials : SetAside(s)) \/ UNCHANGED vars
  <2>1. /\ UNCHANGED <<clientVars, request, answer, serverVars>>
    BY <1>2, AsideKeeps DEF SetAside, vars, wireVars, IInv
  <2>2. UNCHANGED <<place, next, pending, closing, sent, failure, attrs, report, request, answer,
                    file, orderly>>
    BY <2>1 DEF clientVars, serverVars
  <2>3. DestinationOK'
    BY <2>2 DEF IInv, DestinationOK, Ready, Whole, Only
  <2>4. SaidOK'
    BY <2>2 DEF IInv, SaidOK, NoRename, Failed
  <2>5. ContentOK'
    <3>1. UNCHANGED <<OpeningOK, ReleasingOK, RenamingOK>>
      BY <2>2 DEF OpeningOK, ReleasingOK, RenamingOK, Only, Ready, Whole
    <3>2. UNCHANGED WritingOK
      BY <2>2 DEF WritingOK, Made, ChunkOf, Last, LookOK
    <3>3. UNCHANGED <<Only({"remove"}), Only({"ask"})>>
      BY <2>2 DEF Only
    <3> QED
      BY <2>2, <3>1, <3>2, <3>3 DEF IInv, ContentOK
  <2> QED
    BY <2>3, <2>4, <2>5
<1> QED
  BY <1>1, <1>2

\* write_all sends nothing that reaches the destination.
LEMMA WritingSafe ==
  ASSUME IInv, place \in {"writing", "closing"}, place' \in {"writing", "closing"},
         UNCHANGED <<report, file>>, WritingOK'
  PROVE  (DestinationOK /\ SaidOK /\ ContentOK)'
<1>0. NoRename'
  <2>1. <<"rename", 0>> # None
    <3>1. <<"rename", 0>> \in Requests
      BY DEF Requests
    <3> QED
      BY <3>1, NoneAssumption
  <2>2. \A s \in Serials : Made(s)' # <<"rename", 0>>
    BY DEF Made
  <2> QED
    BY <2>1, <2>2 DEF WritingOK, NoRename
<1>1. file.at # "destination" /\ report = "none"
  BY DEF IInv, SaidOK
<1>2. DestinationOK'
  BY <1>0, <1>1 DEF DestinationOK, NoRename
<1>3. SaidOK'
  BY <1>0, <1>1 DEF SaidOK, Failed
<1>4. ContentOK'
  BY DEF ContentOK
<1> QED
  BY <1>2, <1>3, <1>4

\* The requests and answers of write_all keep their meaning when nothing but
\* `next` and `closing` moves, or more is sent.
LEMMA WritingOnKeeps ==
  ASSUME IInv, SendChunk \/ SourceEnds \/ SendClosing \/ AllWritten
  PROVE  WritingOK'
<1>a. /\ place = "writing" /\ place' \in {"writing", "closing"} /\ WritingOK /\ TypeOK /\ StreamOK
      /\ PlaceOK
  BY DEF SendChunk, SourceEnds, SendClosing, AllWritten, Goes, IInv, ContentOK, InStep
<1>b. /\ next \in Nat /\ sent \in Nat /\ Serials \subseteq Nat /\ Len(pending) \in Nat
      /\ request \in [Serials -> Requests \cup {None}]
  BY <1>a, Types DEF TypeOK
<1>c. \A s \in Serials : request[s] # None => s < next
  BY <1>a DEF StreamOK, Owed
<1>1. CASE SendChunk
  <2>0. closing = <<>>
    BY <1>a, <1>1 DEF SendChunk, CanSend, PlaceOK
  <2>1. /\ place' = "writing" /\ failure = None
        /\ request' = [request EXCEPT ![next] = <<"write", sent + 1>>] /\ next' = next + 1
        /\ sent' = sent + 1 /\ pending' = Append(pending, next)
        /\ UNCHANGED <<answer, closing, failure, attrs, file, orderly>>
    BY <1>1 DEF SendChunk, Goes, CanSend, Send, serverVars
  <2>2. Last = next - 1 /\ Last' = next
    BY <1>a, <1>b, <2>0, <2>1 DEF Last
  <2>3. \A s \in Serials : ChunkOf(s)' = ChunkOf(s)
    BY <1>b, <2>1, <2>2 DEF ChunkOf
  <2>4. Len(pending') = Len(pending) + 1 /\ Len(closing') = 0
    BY <1>a, <2>0, <2>1, Types
  <2>5. \A s \in Serials : s <= next - 1 => Made(s)' = Made(s)
    BY <1>b, <2>2, <2>3 DEF Made
  <2>6. \A s \in Serials : s = next => Made(s)' = <<"write", sent + 1>>
    <3>1. \A s \in Serials : s = next => ChunkOf(s)' = sent + 1
      BY <1>b, <2>1, <2>2 DEF ChunkOf
    <3> QED
      BY <1>b, <2>2, <3>1 DEF Made
  <2>7. \A s \in Serials : request'[s] # None => request'[s] = Made(s)'
    <3> SUFFICES ASSUME NEW s \in Serials, request'[s] # None
                 PROVE  request'[s] = Made(s)'
      OBVIOUS
    <3>1. CASE s = next
      BY <1>b, <2>1, <2>6, <3>1
    <3>2. CASE s # next
      <4>1. request'[s] = request[s]
        BY <1>b, <2>1, <3>2
      <4>2. s <= next - 1
        BY <1>b, <1>c, <4>1
      <4> QED
        BY <1>a, <2>5, <4>1, <4>2 DEF WritingOK
    <3> QED
      BY <3>1, <3>2
  <2>8. \A s \in Serials : answer[s] # None => s <= Last
    BY <1>a, <1>b, <2>2 DEF StreamOK, Owed
  <2>9. \A s \in Serials : answer'[s] # None =>
          /\ answer'[s].ok /\ s <= Last' /\ ChunkOf(s)' > 0 => ChunkOf(s)' \in file'.written
          /\ s # Last' + 1 /\ s # Last' + 2
    BY <1>a, <1>b, <2>1, <2>2, <2>3, <2>8 DEF WritingOK
  <2>10. file'.at = "temporary" /\ file'.written \subseteq 1 .. sent' /\ Len(pending') <= sent' + 1
    BY <1>a, <1>b, <2>1, <2>4 DEF WritingOK
  <2>11. failure' = None => \A c \in 1 .. sent' : c <= sent' - Len(pending') => c \in file'.written
    <3>1. sent' - Len(pending') = sent - Len(pending)
      BY <1>b, <2>1, <2>4
    <3>2. \A c \in 1 .. sent' : c <= sent - Len(pending) => c \in 1 .. sent
      BY <1>b, <2>1
    <3> QED
      BY <1>a, <2>1, <3>1, <3>2 DEF WritingOK
  <2> QED
    BY <2>4, <2>7, <2>9, <2>10, <2>11 DEF WritingOK
<1>2. CASE SourceEnds
  <2>0. closing = <<>> /\ failure = None
    BY <1>a, <1>2 DEF SourceEnds, CanSend, PlaceOK
  <2>1. /\ place' = "writing"
        /\ UNCHANGED <<next, request, answer, pending, closing, sent, attrs, file, orderly>>
    BY <1>2 DEF SourceEnds, Goes, SendsNothing, serverVars
  <2>2. Last' = Last
    BY <1>a, <2>1 DEF Last
  <2>3. \A s \in Serials : Made(s)' = Made(s) /\ ChunkOf(s)' = ChunkOf(s)
    BY <2>1, <2>2 DEF Made, ChunkOf
  <2>4. \A s \in Serials : LookOK(answer[s])' <=> LookOK(answer[s])
    BY <2>1, <2>2 DEF LookOK
  <2>5. Len(closing') # 1
    BY <2>0, <2>1
  <2> QED
    BY <1>a, <2>0, <2>1, <2>2, <2>3, <2>4, <2>5 DEF WritingOK
<1>3. CASE SendClosing
  <2>1. /\ place' = "writing" /\ closing = <<>>
        /\ request' = [request EXCEPT ![next] = <<"look", 0>>, ![next + 1] = <<"close", 0>>]
        /\ next' = next + 2 /\ closing' = <<next, next + 1>>
        /\ UNCHANGED <<answer, pending, sent, failure, attrs, file, orderly>>
    BY <1>3 DEF SendClosing, Goes, MustClose, serverVars
  <2>2. Last = next - 1 /\ Last' = next - 1 /\ Len(closing') = 2
    BY <1>a, <1>b, <2>1 DEF Last
  <2>3. \A s \in Serials : Made(s)' = Made(s) /\ ChunkOf(s)' = ChunkOf(s)
    BY <2>1, <2>2 DEF Made, ChunkOf
  <2>4. \A s \in Serials : /\ s = next => Made(s)' = <<"look", 0>>
                           /\ s = next + 1 => Made(s)' = <<"close", 0>>
    BY <1>b, <2>2 DEF Made
  <2>5. \A s \in Serials : request'[s] # None => request'[s] = Made(s)'
    <3> SUFFICES ASSUME NEW s \in Serials, request'[s] # None
                 PROVE  request'[s] = Made(s)'
      OBVIOUS
    <3>1. CASE s = next \/ s = next + 1
      BY <1>b, <2>1, <2>4, <3>1
    <3>2. CASE s # next /\ s # next + 1
      <4>1. request'[s] = request[s]
        BY <1>b, <2>1, <3>2
      <4> QED
        BY <1>a, <2>3, <4>1 DEF WritingOK
    <3> QED
      BY <3>1, <3>2
  <2>6. \A s \in Serials : answer[s] # None => s <= Last
    BY <1>a, <1>b, <2>2 DEF StreamOK, Owed
  <2>7. \A s \in Serials : answer'[s] # None =>
          /\ answer'[s].ok /\ s <= Last' /\ ChunkOf(s)' > 0 => ChunkOf(s)' \in file'.written
          /\ s # Last' + 1 /\ s # Last' + 2
    BY <1>a, <1>b, <2>1, <2>2, <2>3, <2>6 DEF WritingOK
  <2>8. /\ file'.at = "temporary" /\ file'.written \subseteq 1 .. sent'
        /\ Len(pending') <= sent' + 1
        /\ failure' = None => \A c \in 1 .. sent' : c <= sent' - Len(pending') => c \in file'.written
    BY <1>a, <2>1 DEF WritingOK
  <2>9. Len(closing') # 1
    BY <2>2
  <2> QED
    BY <2>5, <2>7, <2>8, <2>9 DEF WritingOK
<1>4. CASE AllWritten
  <2>1. /\ place' = "closing" /\ closing # <<>>
        /\ UNCHANGED <<next, request, answer, pending, closing, sent, failure, attrs, file, orderly>>
    BY <1>4 DEF AllWritten, Goes, wireVars, serverVars
  <2>2. Last' = Last
    BY <1>a, <2>1 DEF Last
  <2>3. \A s \in Serials : Made(s)' = Made(s) /\ ChunkOf(s)' = ChunkOf(s)
    BY <2>1, <2>2 DEF Made, ChunkOf
  <2>4. \A s \in Serials : LookOK(answer[s])' <=> LookOK(answer[s])
    BY <2>1, <2>2 DEF LookOK
  <2>5. LookOK(attrs)' <=> LookOK(attrs)
    BY <2>1, <2>2 DEF LookOK
  <2> QED
    BY <1>a, <2>1, <2>2, <2>3, <2>4, <2>5 DEF WritingOK
<1> QED
  BY <1>1, <1>2, <1>3, <1>4

\* An answer taken by write_all, or the read-back.
LEMMA CollectKeeps ==
  ASSUME IInv, NEW s \in Serials, Collect(s) \/ LookedBack(s)
  PROVE  WritingOK'
<1>a. /\ WritingOK /\ TypeOK /\ StreamOK /\ PlaceOK /\ InStep
      /\ place \in {"writing", "closing"} /\ place' = place /\ Take(s)
  BY DEF Collect, LookedBack, Goes, IInv, ContentOK, InStep
<1>b. /\ next \in Nat /\ sent \in Nat /\ Serials \subseteq Nat
      /\ Len(pending) \in Nat /\ Len(closing) \in Nat /\ pending \in Seq(Serials)
      /\ answer \in [Serials -> Answers \cup {None}] /\ closing \in Seq(Serials)
  BY <1>a, Types DEF TypeOK
<1>c. /\ answer' = [answer EXCEPT ![s] = None] /\ UNCHANGED <<file, orderly, next, request, sent>>
  BY <1>a DEF Collect, LookedBack, Take, SendsNothing, serverVars
<1>d. \A t \in Serials : answer'[t] # None => answer'[t] = answer[t]
  BY <1>b, <1>c
<1>1. CASE Collect(s)
  <2>1. /\ place = "writing" /\ pending # <<>> /\ pending' = Tail(pending)
        /\ failure' = IF failure = None /\ ~answer[s].ok THEN "refused" ELSE failure
        /\ UNCHANGED <<closing, attrs>>
    BY <1>1 DEF Collect, Goes, Waits
  <2>2. Len(pending) > 0 /\ Len(pending') = Len(pending) - 1 /\ Width > 0
    BY <1>b, <2>1 DEF Width
  <2>3. Last' = Last
    BY <1>a, <1>c, <2>1 DEF Last
  <2>4. \A t \in Serials : Made(t)' = Made(t) /\ ChunkOf(t)' = ChunkOf(t)
    BY <1>c, <2>3 DEF Made, ChunkOf
  <2>5. LookOK(attrs)' <=> LookOK(attrs)
    BY <1>c, <2>1, <2>3 DEF LookOK
  <2>6. s = Oldest /\ answer[s] # None
    BY <1>a, <2>2, Taken DEF Take, Matches
  <2>7. ChunkOf(s) = sent + 1 - Len(pending) /\ s <= Last
    <3>1. CASE closing = <<>>
      <4>1. Len(closing) = 0
        BY <3>1
      <4> QED
        BY <1>b, <2>1, <2>2, <2>6, <3>1, <4>1 DEF ChunkOf, Last, Oldest, Width
    <3>2. CASE closing # <<>>
      <4>1. Len(closing) = 2
        BY <1>a, <1>b, <2>1, <3>2 DEF PlaceOK
      <4> QED
        BY <1>b, <2>1, <2>2, <2>6, <3>2, <4>1 DEF ChunkOf, Last, Oldest, Width
    <3> QED
      BY <3>1, <3>2
  <2>8. failure' = None => \A c \in 1 .. sent' : c <= sent' - Len(pending') => c \in file'.written
    <3> SUFFICES ASSUME failure' = None, NEW c \in 1 .. sent, c <= sent - Len(pending')
                 PROVE  c \in file.written
      BY <1>c
    <3>1. failure = None /\ answer[s].ok
      BY <2>1, NoneAssumption
    <3>2. CASE c <= sent - Len(pending)
      BY <1>a, <3>1, <3>2 DEF WritingOK
    <3>3. CASE c = sent + 1 - Len(pending)
      BY <1>a, <1>b, <2>6, <2>7, <3>1, <3>3 DEF WritingOK
    <3> QED
      BY <1>b, <2>2, <3>2, <3>3
  <2>9. \A t \in Serials : answer'[t] # None =>
          /\ answer'[t].ok /\ t <= Last' /\ ChunkOf(t)' > 0 => ChunkOf(t)' \in file'.written
          /\ t = Last' + 1 => LookOK(answer[t])'
          /\ t = Last' + 2 => ~file'.open
    <3> SUFFICES ASSUME NEW t \in Serials, answer'[t] # None
                 PROVE  /\ answer'[t].ok /\ t <= Last' /\ ChunkOf(t)' > 0 =>
                             ChunkOf(t)' \in file'.written
                        /\ t = Last' + 1 => LookOK(answer[t])'
                        /\ t = Last' + 2 => ~file'.open
      OBVIOUS
    <3>1. answer'[t] = answer[t] /\ answer[t] # None
      BY <1>d
    <3>2. LookOK(answer[t])' <=> LookOK(answer[t])
      BY <1>c, <2>3, <3>1 DEF LookOK
    <3> QED
      BY <1>a, <1>c, <2>3, <2>4, <3>1, <3>2 DEF WritingOK
  <2>10. \A t \in Serials : request'[t] # None => request'[t] = Made(t)'
    BY <1>a, <1>c, <2>4 DEF WritingOK
  <2>11. /\ file'.at = "temporary" /\ file'.written \subseteq 1 .. sent'
         /\ Len(pending') <= sent' + 1
    BY <1>a, <1>b, <1>c, <2>2 DEF WritingOK
  <2>12. Len(closing') = 1 => LookOK(attrs)'
    BY <1>a, <2>1, <2>5 DEF WritingOK
  <2> QED
    BY <2>8, <2>9, <2>10, <2>11, <2>12 DEF WritingOK
<1>2. CASE LookedBack(s)
  <2>1. /\ place = "closing" /\ place' = "closing" /\ Len(closing) = 2 /\ closing' = Tail(closing)
        /\ attrs' = answer[s] /\ UNCHANGED <<pending, failure>>
    BY <1>2 DEF LookedBack, Goes
  <2>2. pending = <<>> /\ Len(pending) = 0 /\ Width = 2
    <3>1. pending = <<>>
      BY <1>a, <2>1 DEF PlaceOK
    <3>2. Len(pending) = 0
      BY <3>1
    <3> QED
      BY <2>1, <3>1, <3>2 DEF Width
  <2>3. s = Oldest /\ answer[s] # None
    BY <1>a, <2>2, Taken DEF Take, Matches
  <2>4. Last' = Last /\ s = Last + 1
    BY <1>a, <1>b, <1>c, <2>1, <2>2, <2>3 DEF Last, Oldest
  <2>5. \A t \in Serials : Made(t)' = Made(t) /\ ChunkOf(t)' = ChunkOf(t)
    BY <1>c, <2>4 DEF Made, ChunkOf
  <2>6. LookOK(attrs)'
    <3>1. LookOK(answer[s])
      BY <1>a, <2>3, <2>4 DEF WritingOK
    <3> QED
      BY <1>c, <2>1, <2>4, <3>1 DEF LookOK
  <2>7. \A t \in Serials : answer'[t] # None =>
          /\ answer'[t].ok /\ t <= Last' /\ ChunkOf(t)' > 0 => ChunkOf(t)' \in file'.written
          /\ t # Last' + 1
          /\ t = Last' + 2 => ~file'.open
    BY <1>a, <1>b, <1>c, <1>d, <2>4, <2>5 DEF WritingOK
  <2>8. \A t \in Serials : request'[t] # None => request'[t] = Made(t)'
    BY <1>a, <1>c, <2>5 DEF WritingOK
  <2>9. /\ file'.at = "temporary" /\ file'.written \subseteq 1 .. sent'
        /\ Len(pending') <= sent' + 1
        /\ failure' = None => \A c \in 1 .. sent' : c <= sent' - Len(pending') => c \in file'.written
    BY <1>a, <1>c, <2>1 DEF WritingOK
  <2> QED
    BY <2>6, <2>7, <2>8, <2>9 DEF WritingOK
<1> QED
  BY <1>1, <1>2

LEMMA ReleaseKeeps ==
  ASSUME IInv, Release
  PROVE  (DestinationOK /\ SaidOK /\ ContentOK)'
<1>a. /\ place = "writing" /\ place' = "releasing" /\ pending = <<>> /\ closing = <<>>
      /\ ThenSends("close") /\ UNCHANGED <<report, answer, file, orderly, sent>>
  BY DEF Release, Goes, serverVars
<1>b. TypeOK /\ InStep /\ next \in Serials /\ report = "none" /\ file.at # "destination"
  BY <1>a, Types DEF IInv, InStep, RoomOK, SaidOK
<1>c. \A s \in Serials : request[s] = None /\ answer[s] = None
  <2>1. Len(<<>>) = 0
    OBVIOUS
  <2>2. Width = 0 + 0
    BY <1>a, <2>1 DEF Width
  <2> QED
    BY <1>b, <2>2, Emptied
<1>d. Only({"close"})' /\ NoRename'
  BY <1>a, <1>b, <1>c, SentAlone
<1>1. DestinationOK'
  BY <1>a, <1>b, <1>d DEF DestinationOK, NoRename
<1>2. SaidOK'
  BY <1>a, <1>b, <1>d DEF SaidOK, Failed
<1>3. ContentOK'
  BY <1>a, <1>c, <1>d DEF ContentOK, ReleasingOK
<1> QED
  BY <1>1, <1>2, <1>3

\* What executing a request can make of the file, and answer.
Effect(s, kind, a) ==
  \/ file' = file /\ ~a.ok /\ (kind = "close" => ~file.open)
  \/ /\ kind = "open" /\ file = NoFile /\ a.ok
     /\ file'.at = "temporary" /\ file'.open /\ file'.written = file.written
  \/ /\ kind = "mode" /\ file'.mode \in {file.mode, "asked"}
     /\ file'.at = file.at /\ file'.open = file.open /\ file'.written = file.written
  \/ /\ kind = "write" /\ file.open /\ file'.written = file.written \cup {request[s][2]}
     /\ file'.at = file.at /\ file'.open = file.open /\ file'.mode = file.mode
  \/ /\ kind = "look" /\ file' = file
     /\ a.mode = file.mode /\ IsSize(a.size, file.written)
  \/ /\ kind = "close" /\ ~file'.open
     /\ file'.at = file.at /\ file'.written = file.written /\ file'.mode = file.mode
  \/ /\ kind = "rename" /\ file.at = "temporary" /\ file'.at = "destination" /\ a.ok
     /\ file'.open = file.open /\ file'.written = file.written /\ file'.mode = file.mode
  \/ /\ kind = "remove" /\ file.at = "temporary" /\ file'.at = "nowhere"
     /\ file'.open = file.open /\ file'.written = file.written /\ file'.mode = file.mode
  \/ kind = "ask" /\ file' = file

LEMMA Executed ==
  ASSUME TypeOK, NEW s \in Serials, Execute(s)
  PROVE  /\ request[s] \in Requests /\ request'[s] = None
         /\ \A t \in Serials : t # s => request'[t] = request[t] /\ answer'[t] = answer[t]
         /\ UNCHANGED <<place, next, pending, closing, sent, failure, attrs, report, orderly>>
         /\ Effect(s, request[s][1], answer'[s])
<1>a. /\ request[s] \in Requests /\ request[s] # None /\ answer \in [Serials -> Answers \cup {None}]
      /\ request \in [Serials -> Requests \cup {None}]
      /\ file \in [at : {"nowhere", "temporary", "destination"}, open : BOOLEAN,
                   written : SUBSET Chunks, mode : Modes]
  BY DEF Execute, TypeOK
<1>b. /\ Granted(s) \/ Refused(s)
      /\ request' = [request EXCEPT ![s] = None]
      /\ UNCHANGED <<place, next, pending, closing, sent, failure, attrs, report, orderly>>
  BY DEF Execute, clientVars
<1>c. \A a : Replies(s, a) => answer'[s] = a
  BY <1>a DEF Replies
<1>d. Yes.ok = TRUE /\ No.ok = FALSE
  BY DEF Yes, No
<1>1. \A t \in Serials : t # s => request'[t] = request[t] /\ answer'[t] = answer[t]
  <2>1. \E a \in Answers : answer' = [answer EXCEPT ![s] = a]
    BY <1>a, <1>b, Replied
  <2> QED
    BY <1>a, <1>b, <2>1
<1>2. request'[s] = None
  BY <1>a, <1>b
<1>3. Effect(s, request[s][1], answer'[s])
  <2> DEFINE kind == request[s][1]
  <2>0. CASE Refused(s)
    BY <1>c, <1>d, <2>0 DEF Refused, Effect
  <2>1. CASE kind = "open" /\ file = NoFile /\ Replies(s, Yes)
             /\ \E m \in {"loose", "asked"} :
                  file' = [file EXCEPT !.at = "temporary", !.open = TRUE, !.mode = m]
    BY <1>a, <1>c, <1>d, <2>1 DEF Effect
  <2>2. CASE kind = "mode" /\ \E m \in {file.mode, "asked"} : file' = [file EXCEPT !.mode = m]
    BY <1>a, <2>2 DEF Effect
  <2>3. CASE kind = "write" /\ file.open /\ file' = [file EXCEPT !.written = @ \cup {request[s][2]}]
    BY <1>a, <2>3 DEF Effect
  <2>4. CASE kind = "look" /\ file' = file
             /\ \E m \in 0 .. MaxChunks :
                  IsSize(m, file.written) /\ Replies(s, [ok |-> TRUE, size |-> m, mode |-> file.mode])
    <3>1. answer'[s].mode = file.mode /\ IsSize(answer'[s].size, file.written)
      BY <1>c, <2>4
    <3> QED
      BY <2>4, <3>1 DEF Effect
  <2>5. CASE kind = "close" /\ file' = [file EXCEPT !.open = FALSE]
    BY <1>a, <2>5 DEF Effect
  <2>6. CASE kind = "rename" /\ file.at = "temporary" /\ Replies(s, Yes)
             /\ file' = [file EXCEPT !.at = "destination"]
    BY <1>a, <1>c, <1>d, <2>6 DEF Effect
  <2>7. CASE kind = "remove" /\ file.at = "temporary" /\ file' = [file EXCEPT !.at = "nowhere"]
    BY <1>a, <2>7 DEF Effect
  <2>8. CASE kind = "ask" /\ file' = file
    BY <2>8 DEF Effect
  <2> QED
    BY <1>b, <2>0, <2>1, <2>2, <2>3, <2>4, <2>5, <2>6, <2>7, <2>8 DEF Granted
<1> QED
  BY <1>a, <1>b, <1>1, <1>2, <1>3

\* A file gets to the destination by the rename, and nothing follows it.
LEMMA ServedSafe ==
  ASSUME IInv, NEW s \in Serials, Execute(s)
  PROVE  /\ DestinationOK' /\ SaidOK'
         /\ file.at = "destination" => UNCHANGED file
<1>a. /\ request[s] \in Requests /\ request'[s] = None
      /\ \A t \in Serials : t # s => request'[t] = request[t] /\ answer'[t] = answer[t]
      /\ UNCHANGED <<place, sent, report, orderly>>
      /\ Effect(s, request[s][1], answer'[s])
  BY Executed DEF IInv, InStep
<1>b. request[s] # None /\ <<"rename", 0>> # None
  <2>1. <<"rename", 0>> \in Requests
    BY DEF Requests
  <2> QED
    BY <2>1, NoneAssumption DEF Execute
<1>c. request[s][1] = "rename" => request[s] = <<"rename", 0>>
  BY <1>a DEF Requests
<1>1. NoRename'
  <2> SUFFICES ASSUME NEW t \in Serials, request'[t] = <<"rename", 0>>
               PROVE  FALSE
    BY DEF NoRename
  <2>1. t # s /\ request[t] = <<"rename", 0>>
    BY <1>a, <1>b
  <2> QED
    BY <1>b, <2>1 DEF IInv, DestinationOK
<1>2. file.at = "destination" => UNCHANGED file
  <2> SUFFICES ASSUME file.at = "destination"
               PROVE  UNCHANGED file
    OBVIOUS
  <2>1. request[s][1] = "ask"
    BY <1>b DEF IInv, DestinationOK, Only
  <2> QED
    BY <1>a, <2>1 DEF Effect
<1>3. file.at # "destination" /\ file'.at = "destination" =>
        request[s] = <<"rename", 0>> /\ UNCHANGED <<file.open, file.written, file.mode>>
  BY <1>a, <1>c DEF Effect
<1>4. DestinationOK'
  <2> SUFFICES ASSUME file'.at = "destination"
               PROVE  Ready' /\ Only({"ask"})'
    BY <1>1 DEF DestinationOK, NoRename
  <2>1. CASE file.at = "destination"
    <3>1. Ready /\ Only({"ask"}) /\ UNCHANGED file
      BY <1>2, <2>1 DEF IInv, DestinationOK
    <3>2. Ready'
      BY <1>a, <3>1, ReadyKept
    <3>3. Only({"ask"})'
      BY <1>a, <3>1 DEF Only
    <3> QED
      BY <3>2, <3>3
  <2>2. CASE file.at # "destination"
    <3>1. Ready /\ \A t \in Serials \ {s} : request[t] = None
      BY <1>3, <2>2 DEF IInv, DestinationOK
    <3>2. Ready'
      BY <1>a, <1>3, <2>2, <3>1, ReadyKept
    <3>3. Only({"ask"})'
      BY <1>a, <3>1 DEF Only
    <3> QED
      BY <3>2, <3>3
  <2> QED
    BY <2>1, <2>2
<1>5. SaidOK'
  BY <1>a, <1>1, <1>2, <1>3 DEF IInv, SaidOK, NoRename, Failed
<1> QED
  BY <1>2, <1>4, <1>5

\* While write_all is under way the server writes what was sent, and what it said
\* of the file stays true.
LEMMA ServedWriting ==
  ASSUME IInv, NEW s \in Serials, Execute(s), place \in {"writing", "closing"}
  PROVE  WritingOK'
<1>a. /\ request[s] \in Requests /\ request'[s] = None
      /\ \A t \in Serials : t # s => request'[t] = request[t] /\ answer'[t] = answer[t]
      /\ UNCHANGED <<place, next, pending, closing, sent, failure, attrs, orderly>>
      /\ Effect(s, request[s][1], answer'[s])
  BY Executed DEF IInv, InStep
<1>b. WritingOK /\ TypeOK /\ StreamOK /\ PlaceOK
  BY DEF IInv, ContentOK, InStep
<1>c. /\ next \in Nat /\ sent \in Nat /\ Serials \subseteq Nat /\ file.open \in BOOLEAN
  BY <1>b, Types DEF TypeOK
<1>d. request[s] = Made(s) /\ request[s] # None /\ file.at = "temporary"
  BY <1>b DEF Execute, WritingOK
<1>e. Last' = Last /\ Last \in Int /\ s <= Last + 2
  <2>1. s < next
    BY <1>b, <1>d DEF StreamOK, Owed
  <2> QED
    BY <1>a, <1>c, <2>1 DEF Last
<1>f. \A t \in Serials : Made(t)' = Made(t) /\ ChunkOf(t)' = ChunkOf(t)
  BY <1>a, <1>e DEF Made, ChunkOf
<1>g. \A t \in Serials : orderly /\ request[t] # None => s <= t
  BY DEF Execute
<1> DEFINE kind == request[s][1]
<1>h. /\ kind \in {"mode", "write", "look", "close"}
      /\ kind = "look" <=> s = Last + 1
      /\ kind = "close" <=> s = Last + 2
      /\ kind = "write" => request[s] = <<"write", ChunkOf(s)>> /\ ChunkOf(s) \in 1 .. sent
      /\ ChunkOf(s) > 0 /\ s <= Last => kind = "write"
  <2>1. CASE s = Last + 1
    BY <1>d, <1>e, <2>1 DEF Made
  <2>2. CASE s = Last + 2
    BY <1>d, <1>e, <2>2 DEF Made
  <2>3. CASE s <= Last
    <3>1. s # Last + 1 /\ s # Last + 2 /\ ChunkOf(s) \in Int /\ ChunkOf(s) <= sent
      BY <1>c, <1>e, <2>3 DEF ChunkOf
    <3>2. CASE ChunkOf(s) = 0
      BY <1>d, <3>1, <3>2 DEF Made
    <3>3. CASE ChunkOf(s) # 0
      <4>1. request[s] = <<"write", ChunkOf(s)>>
        BY <1>d, <3>1, <3>3 DEF Made
      <4>2. ChunkOf(s) \in Chunks
        BY <1>a, <4>1 DEF Requests
      <4> QED
        BY <1>c, <3>1, <4>1, <4>2 DEF Chunks
    <3> QED
      BY <3>2, <3>3
  <2> QED
    BY <1>c, <1>e, <2>1, <2>2, <2>3
<1> HIDE DEF kind
<1>i. Effect(s, kind, answer'[s])
  BY <1>a DEF kind
<1>1. /\ file'.at = "temporary" /\ file.written \subseteq file'.written
      /\ file'.written \subseteq 1 .. sent
      /\ file.mode = "asked" => file'.mode = "asked"
      /\ ~file.open => ~file'.open
      /\ kind # "write" => file'.written = file.written
  BY <1>b, <1>d, <1>h, <1>i DEF Effect, WritingOK
\* What was read back stays true: on an orderly server no write is still to come.
<1>2. ASSUME NEW a, LookOK(a), a.ok
      PROVE  /\ a.size = 0 \/ a.size \in file'.written
             /\ a.mode = "asked" => file'.mode = "asked"
             /\ orderly => /\ IsSize(a.size, file'.written)
                           /\ \A t \in Serials : t <= Last => request'[t] = None
  <2>1. orderly => kind # "write"
    BY <1>c, <1>d, <1>e, <1>h, <1>2 DEF LookOK
  <2>2. \A t \in Serials : request[t] = None => request'[t] = None
    BY <1>a
  <2> QED
    BY <1>1, <1>2, <2>1, <2>2 DEF LookOK
<1>3. \A t \in Serials : request'[t] # None => request'[t] = Made(t)'
  BY <1>a, <1>b, <1>f DEF WritingOK
<1>4. ASSUME NEW t \in Serials, answer'[t] # None
      PROVE  /\ answer'[t].ok /\ t <= Last' /\ ChunkOf(t)' > 0 => ChunkOf(t)' \in file'.written
             /\ t = Last' + 1 => LookOK(answer[t])'
             /\ t = Last' + 2 => ~file'.open
  <2>1. CASE t # s
    <3>1. answer'[t] = answer[t] /\ answer[t] # None
      BY <1>a, <1>4, <2>1
    <3>2. LookOK(answer[t]) => LookOK(answer[t])'
      BY <1>a, <1>2, <1>e, <3>1 DEF LookOK
    <3> QED
      BY <1>b, <1>1, <1>e, <1>f, <3>1, <3>2 DEF WritingOK
  <2>2. CASE t = s
    <3>1. answer'[s].ok /\ s <= Last /\ ChunkOf(s) > 0 => ChunkOf(s) \in file'.written
      <4> SUFFICES ASSUME answer'[s].ok, s <= Last, ChunkOf(s) > 0
                   PROVE  ChunkOf(s) \in file'.written
        OBVIOUS
      <4>1. kind = "write" /\ request[s] = <<"write", ChunkOf(s)>>
        BY <1>h
      <4>2. request[s][2] = ChunkOf(s)
        BY <4>1
      <4> QED
        BY <1>i, <4>1, <4>2 DEF Effect
    <3>2. s = Last + 1 => LookOK(answer[s])'
      <4> SUFFICES ASSUME s = Last + 1, answer'[s].ok
                   PROVE  LookOK(answer[s])'
        BY DEF LookOK
      <4>1. kind = "look" /\ file' = file
            /\ answer'[s].mode = file.mode /\ IsSize(answer'[s].size, file.written)
        BY <1>h, <1>i DEF Effect
      <4>2. \A u \in Serials : u <= Last => ~(s <= u) /\ u # s
        BY <1>c, <1>e
      <4>3. orderly => \A u \in Serials : u <= Last => request[u] = None
        BY <1>g, <4>2
      <4>4. orderly => \A u \in Serials : u <= Last => request'[u] = None
        BY <1>a, <4>2, <4>3
      <4>5. answer'[s].size = 0 \/ answer'[s].size \in file.written
        BY <4>1 DEF IsSize
      <4> QED
        BY <1>a, <1>e, <4>1, <4>4, <4>5 DEF LookOK
    <3>3. s = Last + 2 => ~file'.open
      BY <1>h, <1>i, <1>1 DEF Effect
    <3> QED
      BY <1>e, <1>f, <2>2, <3>1, <3>2, <3>3
  <2> QED
    BY <2>1, <2>2
<1>5. Len(closing') = 1 => LookOK(attrs)'
  <2>1. LookOK(attrs) => LookOK(attrs)'
    BY <1>a, <1>2, <1>e DEF LookOK
  <2> QED
    BY <1>a, <1>b, <2>1 DEF WritingOK
<1>6. /\ Len(pending') <= sent' + 1
      /\ failure' = None => \A c \in 1 .. sent' : c <= sent' - Len(pending') => c \in file'.written
  BY <1>a, <1>b, <1>1 DEF WritingOK
<1> QED
  BY <1>a, <1>1, <1>3, <1>4, <1>5, <1>6 DEF WritingOK

\* Elsewhere the request that is executed is the only one.
LEMMA ServedAlone ==
  ASSUME IInv, NEW s \in Serials, Execute(s), place \notin {"writing", "closing"}
  PROVE  ContentOK'
<1>a. /\ request[s] \in Requests /\ request[s] # None /\ request'[s] = None
      /\ \A t \in Serials : t # s => request'[t] = request[t] /\ answer'[t] = answer[t]
      /\ UNCHANGED <<place, sent, orderly>>
      /\ Effect(s, request[s][1], answer'[s])
  BY Executed DEF IInv, InStep, Execute
<1>b. TypeOK /\ PlaceOK /\ StreamOK /\ ContentOK /\ DestinationOK /\ place \in Places
  BY DEF IInv, InStep, TypeOK
<1>c. next \in Nat /\ Serials \subseteq Nat
  BY <1>b, Types
<1>d. Len(<<>>) = 0
  OBVIOUS
<1>1. CASE place = "ended"
  BY <1>a, <1>1 DEF ContentOK
<1>2. CASE place = "idle"
  <2>1. Width = 0 + 0
    BY <1>b, <1>d, <1>2 DEF PlaceOK, Width
  <2> QED
    BY <1>a, <2>1, Emptied DEF IInv
<1>3. CASE place \in {"opening", "releasing", "renaming", "removing", "asking"}
  <2>1. Width = 1 + 0
    BY <1>b, <1>d, <1>3 DEF PlaceOK, Width
  <2>2. \A t \in Serials : request[t] # None \/ answer[t] # None => t = next - 1
    <3>1. \A t \in Serials : Owed(t) => t = next - 1
      BY <1>c, <2>1 DEF Owed, Oldest
    <3> QED
      BY <1>b, <3>1 DEF StreamOK
  <2>3. \A t \in Serials : request'[t] = None /\ (t # s => answer'[t] = None)
    BY <1>a, <1>c, <2>2
  <2>4. \A kinds : Only(kinds)'
    BY <2>3 DEF Only
  <2>5. \A k \in {"open", "close", "rename", "remove", "ask"} : Only({k}) => request[s][1] = k
    BY <1>a DEF Only
  <2>6. ASSUME place = "opening"
        PROVE  OpeningOK'
    <3>1. request[s][1] = "open" /\ file = NoFile
      BY <1>a, <1>b, <2>5, <2>6 DEF ContentOK, OpeningOK
    <3>2. file.written = {}
      BY <3>1 DEF NoFile
    <3> QED
      BY <1>a, <2>3, <2>4, <3>1, <3>2 DEF Effect, OpeningOK
  <2>7. ASSUME place = "releasing"
        PROVE  ReleasingOK'
    <3>1. request[s][1] = "close"
      BY <1>b, <2>5, <2>7 DEF ContentOK, ReleasingOK
    <3> QED
      BY <1>a, <2>3, <2>4, <3>1 DEF Effect, ReleasingOK
  <2>8. ASSUME place = "renaming"
        PROVE  RenamingOK'
    <3>1. request[s][1] = "rename" /\ Ready
      BY <1>b, <2>5, <2>8 DEF ContentOK, RenamingOK
    <3>2. file.at # "destination"
      <4>1. Only({"ask"}) => request[s][1] = "ask"
        BY <2>5
      <4> QED
        BY <1>b, <3>1, <4>1 DEF DestinationOK
    <3>3. UNCHANGED <<file.open, file.written, file.mode>>
          /\ (answer'[s].ok <=> file'.at = "destination")
      BY <1>a, <3>1, <3>2 DEF Effect
    <3>4. Ready'
      BY <1>a, <3>1, <3>3, ReadyKept
    <3> QED
      BY <2>3, <2>4, <3>3, <3>4 DEF RenamingOK
  <2>9. ASSUME place \in {"removing", "asking"}
        PROVE  ~file'.open
    <3>1. request[s][1] \in {"remove", "ask"} /\ ~file.open
      BY <1>b, <2>5, <2>9 DEF ContentOK
    <3> QED
      BY <1>a, <3>1 DEF Effect
  <2> QED
    BY <1>3, <1>a, <2>4, <2>6, <2>7, <2>8, <2>9 DEF ContentOK
<1> QED
  BY <1>b, <1>1, <1>2, <1>3 DEF Places

LEMMA ServerKeeps ==
  ASSUME IInv, NEW s \in Serials, Execute(s) \/ Lost(s)
  PROVE  (DestinationOK /\ SaidOK /\ ContentOK)'
<1>1. CASE Execute(s)
  <2>1. place' = place
    BY <1>1 DEF Execute, clientVars
  <2>2. place \in {"writing", "closing"} => ContentOK'
    BY <1>1, <2>1, ServedWriting DEF ContentOK
  <2> QED
    BY <1>1, <2>2, ServedSafe, ServedAlone
<1>2. CASE Lost(s)
  <2>1. /\ place' = "ended" /\ place = "ended" /\ UNCHANGED <<report, file, sent, orderly>>
        /\ \A t \in Serials : request'[t] = None \/ request'[t] = request[t]
    BY <1>2 DEF Lost, clientVars, serverVars, IInv, InStep, TypeOK
  <2>2. None # <<"rename", 0>>
    <3>1. <<"rename", 0>> \in Requests
      BY DEF Requests
    <3> QED
      BY <3>1, NoneAssumption
  <2>3. Ready' <=> Ready
    BY <2>1 DEF Ready, Whole
  <2>4. DestinationOK'
    BY <2>1, <2>2, <2>3 DEF IInv, DestinationOK, Only
  <2>5. SaidOK'
    BY <2>1, <2>2 DEF IInv, SaidOK, NoRename
  <2>6. ContentOK'
    BY <2>1 DEF ContentOK
  <2> QED
    BY <2>4, <2>5, <2>6
<1> QED
  BY <1>1, <1>2

LEMMA IInvKept == IInv /\ [Next]_vars => IInv'
<1> SUFFICES ASSUME IInv, [Next]_vars
             PROVE  IInv'
  OBVIOUS
<1>1. InStep'
  BY InStepKept DEF IInv
<1>2. (DestinationOK /\ SaidOK /\ ContentOK)'
  <2>1. CASE BeginUpload \/ Ask
    BY <2>1, BeginningKeeps
  <2>2. CASE SendChunk \/ SourceEnds \/ SendClosing \/ AllWritten
    <3>1. /\ place \in {"writing", "closing"} /\ place' \in {"writing", "closing"}
          /\ UNCHANGED <<report, file>>
      BY <2>2 DEF SendChunk, SourceEnds, SendClosing, AllWritten, Send, Goes, serverVars
    <3> QED
      BY <2>2, <3>1, WritingOnKeeps, WritingSafe
  <2>3. CASE Release
    BY <2>3, ReleaseKeeps
  <2>4. ASSUME NEW s \in Serials, Collect(s) \/ LookedBack(s)
        PROVE  (DestinationOK /\ SaidOK /\ ContentOK)'
    <3>1. /\ place \in {"writing", "closing"} /\ place' \in {"writing", "closing"}
          /\ UNCHANGED <<report, file>>
      BY <2>4 DEF Collect, LookedBack, Take, Goes, serverVars
    <3> QED
      BY <2>4, <3>1, CollectKeeps, WritingSafe
  <2>5. ASSUME NEW s \in Serials,
               \/ Opened(s) \/ NotOpened(s) \/ Released(s) \/ Closed(s) \/ Renamed(s) \/ Removed(s)
               \/ Answered(s)
        PROVE  (DestinationOK /\ SaidOK /\ ContentOK)'
    BY <2>5, AnswersKeep
  <2>6. CASE (\E s \in Serials : SetAside(s)) \/ TimesOut \/ Breaks \/ UNCHANGED vars
    BY <2>6, EndsKeep DEF TimesOut, Breaks
  <2>7. ASSUME NEW s \in Serials, Execute(s) \/ Lost(s)
        PROVE  (DestinationOK /\ SaidOK /\ ContentOK)'
    BY <2>7, ServerKeeps
  <2> QED
    BY <2>1, <2>2, <2>3, <2>4, <2>5, <2>6, <2>7 DEF Next, Client, Uploads
<1> QED
  BY <1>1, <1>2 DEF IInv

LEMMA IInvHolds == Spec => []IInv
BY IInvAtFirst, IInvKept, PTL DEF Spec

\* Between two operations nothing is under way, no handle is left open and no
\* answer is left to be taken for another's (session.rs, `upload`).
THEOREM SettledHolds == Spec => []Settled
<1>1. IInv => Settled
  <2> SUFFICES ASSUME IInv, place = "idle"
               PROVE  /\ \A s \in Serials : request[s] = None /\ answer[s] = None
                      /\ ~file.open
    BY DEF Settled
  <2>1. pending = <<>> /\ closing = <<>> /\ ~file.open /\ InStep
    BY DEF IInv, InStep, PlaceOK, ContentOK
  <2>2. Len(<<>>) = 0
    OBVIOUS
  <2>3. Width = 0 + 0
    BY <2>1, <2>2 DEF Width
  <2> QED
    BY <2>1, <2>3, Emptied
<1> QED
  BY <1>1, IInvHolds, PTL

\* What is at the destination is whole, private and closed, and on a server that
\* keeps the order it is exactly what was expected (session.rs, `write_all` and
\* `upload`; upload.rs, `verify`).
THEOREM StoredWholeHolds == Spec => []StoredWhole
<1>1. IInv => StoredWhole
  BY DEF IInv, DestinationOK, Ready, StoredWhole
<1> QED
  BY <1>1, IInvHolds, PTL

------------------------------------------------------------------------------
(* An upload keeps its promise *)

LEMMA ThereIs ==
  ASSUME IInv
  PROVE  There = IF file.at = "destination" THEN "whole" ELSE "absent"
BY DEF IInv, DestinationOK, Ready, There

\* The step in which the file appears is not one that an answer denied.
LEMMA AppearsInTime ==
  ASSUME IInv, IInv', NEW s \in Serials, Execute(s)
  PROVE  [Promise!Next]_<<Said, There>>
<1>a. UNCHANGED <<place, report, Said>>
  BY DEF Execute, clientVars, Said
<1>b. file.at = "destination" => UNCHANGED file
  BY ServedSafe
<1>c. There' = IF file'.at = "destination" THEN "whole" ELSE "absent"
  BY DEF IInv, DestinationOK, Ready, There
<1>1. CASE file.at # "destination" /\ file'.at = "destination"
  <2>1. report \notin Failed /\ report # "stored" /\ (report = "none" => place = "renaming")
    BY <1>a, <1>1 DEF IInv, SaidOK
  <2>2. report \in {"none", "broken"} /\ (report = "broken" => place = "ended")
    BY <2>1 DEF IInv, InStep, TypeOK, SaidOK, Failed
  <2>3. Said \in {"under way", "unknown"}
    BY <2>1, <2>2 DEF Said
  <2>4. Promise!Appear
    BY <1>a, <1>1, <1>c, <2>3 DEF Promise!Appear
  <2> QED
    BY <2>4 DEF Promise!Next
<1>2. CASE ~(file.at # "destination" /\ file'.at = "destination")
  <2>1. UNCHANGED There
    BY <1>b, <1>c, <1>2, ThereIs
  <2> QED
    BY <1>a, <2>1
<1> QED
  BY <1>1, <1>2

Returned == {"idle", "asking", "ended"}

\* The step with which the upload returns says what is there.
LEMMA SaysWhatIs ==
  ASSUME IInv, IInv', UNCHANGED file, place \notin Returned, place' \in Returned, report' # "none"
  PROVE  Promise!Next
<1>1. There' = There /\ There' = IF file'.at = "destination" THEN "whole" ELSE "absent"
  <2>1. There' = IF file'.at = "destination" THEN "whole" ELSE "absent"
    BY DEF IInv, DestinationOK, Ready, There
  <2> QED
    BY <2>1, ThereIs
<1>2. Said = "under way"
  BY DEF Said, Returned
<1>3. report' \in {"stored", "broken"} \cup Failed
  BY DEF IInv, InStep, TypeOK, Failed
<1>4. CASE report' = "stored"
  <2>1. Said' = "stored" /\ There = "whole"
    BY <1>1, <1>4 DEF Said, Returned, IInv, SaidOK
  <2> QED
    BY <1>1, <1>2, <2>1 DEF Promise!Next, Promise!Answer
<1>5. CASE report' = "broken"
  <2>1. Said' = "unknown"
    BY <1>5 DEF Said, Returned
  <2> QED
    BY <1>1, <1>2, <2>1 DEF Promise!Next, Promise!Answer
<1>6. CASE report' \in Failed
  <2>1. Said' = "not stored" /\ There = "absent"
    BY <1>1, <1>6 DEF Said, Returned, IInv, SaidOK, Failed
  <2> QED
    BY <1>1, <1>2, <2>1 DEF Promise!Next, Promise!Answer
<1> QED
  BY <1>3, <1>4, <1>5, <1>6

\* Every other step of the client but the first of an upload says nothing new.
LEMMA SaysNothing ==
  ASSUME IInv, IInv', UNCHANGED file,
         \/ place \notin Returned /\ place' \notin Returned
         \/ place \in Returned /\ place' \in Returned /\ UNCHANGED report
         \/ UNCHANGED <<place, report>>
  PROVE  UNCHANGED <<Said, There>>
<1>1. There' = IF file'.at = "destination" THEN "whole" ELSE "absent"
  BY DEF IInv, DestinationOK, Ready, There
<1>2. UNCHANGED There
  BY <1>1, ThereIs
<1>3. UNCHANGED Said
  BY DEF Said, Returned
<1> QED
  BY <1>2, <1>3

LEMMA BeginsAfresh ==
  ASSUME IInv, BeginUpload
  PROVE  Promise!Begin
<1>1. /\ place = "idle" /\ place' = "opening" /\ file' = NoFile
  BY DEF BeginUpload, Goes
<1>2. report # "broken"
  BY <1>1 DEF IInv, SaidOK
<1>3. Said \in {"nothing", "stored", "not stored"}
  BY <1>1, <1>2 DEF Said
<1>4. Said' = "under way"
  BY <1>1 DEF Said
<1>5. There' = "absent"
  BY <1>1 DEF There, NoFile
<1> QED
  BY <1>3, <1>4, <1>5 DEF Promise!Begin

LEMMA PromiseKept ==
  ASSUME IInv, IInv', [Next]_vars
  PROVE  [Promise!Next]_<<Said, There>>
<1>a. UNCHANGED vars => UNCHANGED <<Said, There>>
  BY DEF vars, clientVars, serverVars, Said, There, Whole
<1>1. CASE BeginUpload
  BY <1>1, BeginsAfresh DEF Promise!Next
<1>2. CASE Ask \/ \E s \in Serials : Answered(s)
  <2>1. UNCHANGED <<file, report>> /\ place \in Returned /\ place' \in Returned
    BY <1>2 DEF Ask, Answered, Take, Goes, serverVars, Returned
  <2> QED
    BY <2>1, SaysNothing
<1>3. CASE \/ SendChunk \/ SourceEnds \/ SendClosing \/ AllWritten \/ Release
           \/ \E s \in Serials : \/ Opened(s) \/ NotOpened(s) \/ Collect(s) \/ Released(s)
                                 \/ LookedBack(s) \/ Closed(s)
  <2>1. UNCHANGED file
    BY <1>3 DEF SendChunk, SourceEnds, SendClosing, AllWritten, Release, Opened, NotOpened, Collect,
      Released, LookedBack, Closed, Send, Take, serverVars
  <2>2. place \notin Returned /\ place' \notin Returned
    BY <1>3 DEF SendChunk, SourceEnds, SendClosing, AllWritten, Release, Opened, NotOpened, Collect,
      Released, LookedBack, Closed, Goes, Returned
  <2> QED
    BY <2>1, <2>2, SaysNothing
<1>4. ASSUME NEW s \in Serials, Renamed(s)
      PROVE  [Promise!Next]_<<Said, There>>
  <2>1. UNCHANGED file /\ place \notin Returned
    BY <1>4 DEF Renamed, Take, Goes, serverVars, Returned
  <2>2. \/ place' \in Returned /\ report' = "stored"
        \/ place' \notin Returned
    BY <1>4 DEF Renamed, Goes, Returned
  <2> QED
    BY <2>1, <2>2, SaysNothing, SaysWhatIs
<1>5. ASSUME NEW s \in Serials, Removed(s)
      PROVE  [Promise!Next]_<<Said, There>>
  <2>1. /\ UNCHANGED <<file, report>> /\ place = "removing" /\ place' = "idle"
    BY <1>5 DEF Removed, Take, Goes, serverVars
  <2>2. report # "none"
    BY <2>1 DEF IInv, SaidOK, Failed
  <2> QED
    BY <2>1, <2>2, SaysWhatIs DEF Returned
<1>6. CASE TimesOut \/ Breaks
  <2>1. place # "ended" /\ Ends
    BY <1>6 DEF TimesOut, Breaks, Waits
  <2>2. /\ UNCHANGED file /\ place' = "ended"
        /\ report' = IF place \in {"idle", "removing", "asking"} THEN report ELSE "broken"
    BY <2>1 DEF Ends, serverVars
  <2>3. CASE place \in Returned
    <3>1. UNCHANGED report
      BY <2>1, <2>2, <2>3 DEF Returned
    <3> QED
      BY <2>2, <2>3, <3>1, SaysNothing DEF Returned
  <2>4. CASE place \notin Returned
    <3>1. report' # "none"
      BY <2>2, <2>4 DEF IInv, SaidOK, Failed, Returned
    <3> QED
      BY <2>2, <2>4, <3>1, SaysWhatIs DEF Returned
  <2> QED
    BY <2>3, <2>4
<1>7. CASE \E s \in Serials : SetAside(s) \/ Lost(s)
  <2>1. UNCHANGED <<file, place, report>>
    BY <1>7 DEF SetAside, Lost, clientVars, serverVars
  <2> QED
    BY <2>1, SaysNothing
<1>8. ASSUME NEW s \in Serials, Execute(s)
      PROVE  [Promise!Next]_<<Said, There>>
  BY <1>8, AppearsInTime
<1> QED
  BY <1>a, <1>1, <1>2, <1>3, <1>4, <1>5, <1>6, <1>7, <1>8 DEF Next, Client, Uploads

\* The destination appears whole or not at all, it is there when the upload says
\* so, and it never appears after the upload has said no (upload.rs,
\* `upload_atomic`).
THEOREM RefinesUpload == Spec => ImplementsUpload
<1>1. Init => Promise!Init
  BY DEF Init, Promise!Init, Said, There, NoFile
<1>2. IInv /\ IInv' /\ [Next]_vars => [Promise!Next]_<<Said, There>>
  BY PromiseKept
<1> QED
  BY <1>1, <1>2, IInvHolds, PTL DEF Spec, ImplementsUpload, Promise!Spec

-----------------------------------------------------------------------------
(* The sessions that are kept                                                *)

IsSession(session) == session \in Sessions

PoolShape ==
  /\ DOMAIN kept = Hosts /\ \A h \in Hosts : kept[h] # Nothing => IsSession(kept[h])
  /\ DOMAIN consulted = Hosts /\ \A h \in Hosts : consulted[h] \in Choices
  /\ DOMAIN gone = Hosts /\ \A h \in Hosts : gone[h] \in Nat
  /\ DOMAIN due = Hosts /\ \A h \in Hosts : due[h] \in {"no", "expired", "recent", "quiet"}
  /\ tending \in {"sleeping", "waiting", "passing"} \cup Hosts /\ timer \in Nat
  /\ DOMAIN phase = Threads /\ DOMAIN host = Threads
  /\ \A t \in Threads : phase[t] \in {"idle", "asking", "waiting", "opening", "acting"}
                        /\ (phase[t] # "idle" => host[t] \in Hosts)

\* The mutex: who works on the sessions has it, and what is worked on is there.
InPass == tending \notin {"sleeping", "waiting"}
PoolMutex ==
  /\ lock \in Threads \cup {"tender", Nothing}
  /\ \A t \in Threads :
       /\ phase[t] \in {"opening", "acting"} <=> lock = t
       /\ phase[t] = "acting" => kept[host[t]] # Nothing
  /\ InPass <=> lock = "tender"
  /\ \A h \in Hosts : due[h] # "no" => InPass /\ kept[h] # Nothing
  /\ tending \in Hosts => due[tending] = "quiet"

\* A session is idle, or looks used or checked, and keeps whose options it has.
LEMMA AgesAre ==
  ASSUME NEW age \in Nat, NEW limit \in Nat, age =< limit
  PROVE  Older(age, limit) \in 0..limit /\ Older(age, limit) =< age + 1
         /\ (age < limit => Older(age, limit) = age + 1) /\ age =< Older(age, limit)
BY DEF Older

LEMMA SessionEdits ==
  ASSUME NEW session, IsSession(session)
  PROVE  /\ \A idle \in 0..Idle, quiet \in 0..Quiet :
              IsSession([session EXCEPT !.idle = idle, !.quiet = quiet])
         /\ \A quiet \in 0..Quiet : IsSession([session EXCEPT !.quiet = quiet])
         /\ \A link \in Links : IsSession([session EXCEPT !.link = link])
BY DEF IsSession, Sessions

LEMMA NewSession ==
  ASSUME NEW link \in Links, NEW options \in Choices
  PROVE  IsSession(Kept(link, options))
BY SessionPoolAssumption DEF IsSession, Kept, Sessions

LEMMA SessionsAre == ASSUME NEW session, IsSession(session) PROVE session # Nothing
BY NothingAssumption DEF IsSession

\* What some checks take at most, one after the other.
Checks(hosts) == Cardinality(hosts) * CheckLimit

LEMMA ChecksAre ==
  ASSUME NEW S \in SUBSET Hosts
  PROVE  /\ Checks(S) \in Nat
         /\ \A h \in S : Checks(S) = Checks(S \ {h}) + CheckLimit
         /\ \A T \in SUBSET S : Checks(T) =< Checks(S)
<1>1. IsFiniteSet(S) /\ Cardinality(S) \in Nat /\ CheckLimit \in Nat
  BY SessionPoolAssumption, FS_Subset, FS_CardinalityType
<1>2. Checks(S) \in Nat
  BY <1>1 DEF Checks
<1>3. ASSUME NEW h \in S PROVE Checks(S) = Checks(S \ {h}) + CheckLimit
  <2>1. PICK n \in Nat : n = Cardinality(S \ {h}) /\ Cardinality(S) = n + 1
    <3>1. Cardinality(S \ {h}) = Cardinality(S) - 1 /\ IsFiniteSet(S \ {h})
      BY <1>1, FS_RemoveElement
    <3> QED
      BY <1>1, <3>1, FS_CardinalityType
  <2>2. (n + 1) * CheckLimit = n * CheckLimit + CheckLimit
    BY <1>1
  <2> QED
    BY <2>1, <2>2 DEF Checks
<1>4. ASSUME NEW T \in SUBSET S PROVE Checks(T) =< Checks(S)
  <2>1. Cardinality(T) \in Nat /\ Cardinality(T) =< Cardinality(S)
    BY <1>1, FS_Subset, FS_CardinalityType
  <2>2. PICK n \in Nat, more \in Nat : n = Cardinality(T) /\ Cardinality(S) = n + more
    <3>1. Cardinality(S) - Cardinality(T) \in Nat
      BY <1>1, <2>1
    <3> QED
      BY <1>1, <2>1, <3>1
  <2>3. (n + more) * CheckLimit = n * CheckLimit + more * CheckLimit
    BY <1>1
  <2>4. more * CheckLimit \in Nat /\ n * CheckLimit \in Nat
    BY <1>1
  <2> QED
    BY <2>2, <2>3, <2>4 DEF Checks
<1> QED
  BY <1>2, <1>3, <1>4

LEMMA DeadAtMostIs ==
  ASSUME NEW h \in Hosts
  PROVE  /\ DeadAtMost = (Quiet - 1) + Checks(Hosts \ {h}) + TendEvery + Checks(Hosts)
         /\ DeadAtMost \in Nat
<1>1. PassAtMost = Checks(Hosts)
  BY DEF PassAtMost, Checks
<1>2. Checks(Hosts) \in Nat /\ Checks(Hosts \ {h}) \in Nat
      /\ Checks(Hosts) = Checks(Hosts \ {h}) + CheckLimit
  BY ChecksAre
<1> QED
  BY <1>1, <1>2, SessionPoolAssumption DEF DeadAtMost

LEMMA OperationShape ==
  ASSUME PoolShape, PoolMutex, NEW t \in Threads, Start(t) \/ Operation(t)
  PROVE  PoolShape'
<1> USE DEF PoolShape, threads, tender, optionVars
<1>1. ASSUME NEW h \in Hosts, RecallHome(t, h) PROVE PoolShape'
  BY <1>1 DEF RecallHome, poolVars
<1>2. ASSUME NEW h \in Hosts, AskHome(t, h) PROVE PoolShape'
  BY <1>2 DEF AskHome, Consults, MayAdd, Dump, Choices
<1>3. ASSUME NEW h \in Hosts, BeginOperation(t, h) PROVE PoolShape'
  BY <1>3 DEF BeginOperation
<1>4. CASE HomeAnswered(t) \/ UseKept(t) \/ OpenFailed(t)
  BY <1>4 DEF HomeAnswered, UseKept, OpenFailed, Advances
<1>5. CASE Open(t)
  BY <1>5 DEF Open, Advances, Consults, MayAdd, Dump, Choices
<1>6. CASE SessionOpened(t)
  <2>1. IsSession(Kept("up", consulted[host[t]]))
    BY <1>6, NewSession DEF Links, SessionOpened
  <2> QED
    BY <1>6, <2>1 DEF SessionOpened, Advances
<1>7. CASE Served(t)
  <2>1. host[t] \in Hosts /\ IsSession(kept[host[t]])
    BY <1>7 DEF Served, PoolMutex
  <2>2. IsSession([kept[host[t]] EXCEPT !.idle = 0, !.quiet = 0])
    <3>1. 0 \in 0..Idle /\ 0 \in 0..Quiet
      BY SessionPoolAssumption
    <3> QED
      BY <2>1, <3>1, SessionEdits
  <2> QED
    BY <1>7, <2>1, <2>2 DEF Served, Advances
<1>8. CASE Broke(t)
  BY <1>8 DEF Broke, Advances
<1> QED
  BY <1>1, <1>2, <1>3, <1>4, <1>5, <1>6, <1>7, <1>8 DEF Start, Operation

LEMMA TendShape ==
  ASSUME PoolShape, PoolMutex, Tend
  PROVE  PoolShape'
<1> USE SessionPoolAssumption DEF PoolShape, threads, optionVars
<1>1. CASE Wake \/ EndPass
  BY <1>1 DEF Wake, EndPass
<1>2. CASE BeginPass
  BY <1>2 DEF BeginPass, Judged
<1>3. ASSUME NEW h \in Hosts, Look(h) PROVE PoolShape'
  BY <1>3 DEF Look
<1>4. ASSUME NEW h \in Hosts, Check(h) PROVE PoolShape'
  BY <1>4 DEF Check
<1>5. ASSUME NEW h \in Hosts, Alive(h) PROVE PoolShape'
  <2>1. IsSession(Checked(kept[h]))
    <3>1. IsSession(kept[h]) /\ 0 \in 0..Quiet
      BY <1>5 DEF Alive, PoolMutex
    <3> QED
      BY <3>1, SessionEdits DEF Checked
  <2> QED
    BY <1>5, <2>1 DEF Alive
<1>6. ASSUME NEW h \in Hosts, Dead(h) PROVE PoolShape'
  BY <1>6 DEF Dead, NotAlive
<1> QED
  BY <1>1, <1>2, <1>3, <1>4, <1>5, <1>6 DEF Tend

LEMMA AgedIs ==
  ASSUME PoolShape, NEW h \in Hosts, kept[h] # Nothing
  PROVE  /\ IsSession(Aged(h)) /\ Aged(h).link = kept[h].link
         /\ Aged(h).quiet = Older(kept[h].quiet, Quiet)
         /\ Aged(h).options = kept[h].options
<1>1. IsSession(kept[h])
  BY DEF PoolShape
<1>2. Older(kept[h].idle, Idle) \in 0..Idle /\ Older(kept[h].quiet, Quiet) \in 0..Quiet
  BY <1>1, SessionPoolAssumption DEF IsSession, Sessions, Older
<1> QED
  BY <1>1, <1>2 DEF IsSession, Sessions, Aged

LEMMA WorldShape ==
  ASSUME PoolShape, World \/ Tick \/ UNCHANGED poolVars
  PROVE  PoolShape'
<1> USE DEF PoolShape, threads, tender, optionVars
<1>1. ASSUME NEW h \in Hosts, Sever(h) \/ Exit(h) PROVE PoolShape'
  <2>1. /\ IsSession([kept[h] EXCEPT !.link = "severed"])
        /\ IsSession([kept[h] EXCEPT !.link = "exited"])
    <3>1. IsSession(kept[h]) /\ "severed" \in Links /\ "exited" \in Links
      BY <1>1 DEF Sever, Exit, Links
    <3> QED
      BY <3>1, SessionEdits
  <2> QED
    BY <1>1, <2>1 DEF Sever, Exit
<1>2. CASE Tick
  <2>1. \A h \in Hosts : kept'[h] # Nothing => IsSession(kept'[h])
    BY <1>2, AgedIs DEF Tick, Aged
  <2>2. \A h \in Hosts : gone'[h] \in Nat
    <3>1. \A h \in Hosts : DeadAtMost \in Nat
      BY DeadAtMostIs, SessionPoolAssumption
    <3> QED
      BY <1>2, <3>1 DEF Tick, Older
  <2>3. timer' \in Nat /\ DOMAIN kept' = Hosts /\ DOMAIN gone' = Hosts
    BY <1>2 DEF Tick
  <2> QED
    BY <1>2, <2>1, <2>2, <2>3 DEF Tick
<1>3. CASE UNCHANGED poolVars
  BY <1>3 DEF poolVars
<1>4. ASSUME NEW h \in Hosts, Configure(h) PROVE PoolShape'
  BY <1>4 DEF Configure
<1> QED
  BY <1>1, <1>2, <1>3, <1>4 DEF World

LEMMA NextShape ==
  ASSUME PoolShape, PoolMutex, [PoolNext]_poolVars
  PROVE  PoolShape'
BY OperationShape, TendShape, WorldShape DEF PoolNext

-----------------------------------------------------------------------------
(* The mutex                                                                 *)

LEMMA OperationMutex ==
  ASSUME PoolShape, PoolMutex, NEW t \in Threads, Start(t) \/ Operation(t)
  PROVE  PoolMutex'
<1> USE SessionPoolAssumption DEF PoolShape, PoolMutex, InPass, threads, tender
<1>1. ASSUME NEW h \in Hosts, RecallHome(t, h) PROVE PoolMutex'
  BY <1>1 DEF RecallHome, poolVars
<1>2. ASSUME NEW h \in Hosts, AskHome(t, h) PROVE PoolMutex'
  BY <1>2 DEF AskHome
<1>3. ASSUME NEW h \in Hosts, BeginOperation(t, h) PROVE PoolMutex'
  BY <1>3 DEF BeginOperation
<1>4. CASE HomeAnswered(t) \/ OpenFailed(t)
  BY <1>4 DEF HomeAnswered, OpenFailed, Advances
<1>5. CASE UseKept(t)
  BY <1>5 DEF UseKept, Advances
<1>6. CASE Open(t)
  BY <1>6 DEF Open, Advances
<1>7. CASE SessionOpened(t)
  <2>1. Kept("up", consulted[host[t]]) # Nothing
    BY <1>7, NewSession, SessionsAre DEF Links, SessionOpened
  <2> QED
    BY <1>7, <2>1 DEF SessionOpened, Advances
<1>8. CASE Served(t)
  <2>1. \A h \in Hosts : due[h] = "no"
    BY <1>8 DEF Served
  <2> QED
    BY <1>8, <2>1 DEF Served, Advances
<1>9. CASE Broke(t)
  BY <1>9 DEF Broke, Advances
<1> QED
  BY <1>1, <1>2, <1>3, <1>4, <1>5, <1>6, <1>7, <1>8, <1>9 DEF Start, Operation

LEMMA TendMutex ==
  ASSUME PoolShape, PoolMutex, Tend
  PROVE  PoolMutex'
<1> USE SessionPoolAssumption DEF PoolShape, PoolMutex, InPass, threads
<1>1. CASE Wake \/ EndPass
  BY <1>1 DEF Wake, EndPass
<1>2. CASE BeginPass
  BY <1>2 DEF BeginPass, Judged
<1>3. ASSUME NEW h \in Hosts, Look(h) PROVE PoolMutex'
  BY <1>3 DEF Look
<1>4. ASSUME NEW h \in Hosts, Check(h) PROVE PoolMutex'
  BY <1>4 DEF Check
<1>5. ASSUME NEW h \in Hosts, Alive(h) PROVE PoolMutex'
  BY <1>5 DEF Alive
<1>6. ASSUME NEW h \in Hosts, Dead(h) PROVE PoolMutex'
  BY <1>6 DEF Dead
<1> QED
  BY <1>1, <1>2, <1>3, <1>4, <1>5, <1>6 DEF Tend

LEMMA WorldMutex ==
  ASSUME PoolShape, PoolMutex, World \/ Tick \/ UNCHANGED poolVars
  PROVE  PoolMutex'
<1> USE DEF PoolShape, PoolMutex, InPass, threads, tender
<1>1. ASSUME NEW h \in Hosts, Sever(h) \/ Exit(h) PROVE PoolMutex'
  <2>1. \A g \in Hosts : kept[g] # Nothing => kept'[g] # Nothing
    BY <1>1, SessionsAre DEF Sever, Exit, IsSession, Sessions, Links
  <2> QED
    BY <1>1, <2>1 DEF Sever, Exit
<1>2. CASE Tick
  <2>1. \A g \in Hosts : kept[g] # Nothing => kept'[g] # Nothing
    BY <1>2, AgedIs, SessionsAre DEF Tick
  <2> QED
    BY <1>2, <2>1 DEF Tick
<1>3. CASE UNCHANGED poolVars
  BY <1>3 DEF poolVars
<1>4. ASSUME NEW h \in Hosts, Configure(h) PROVE PoolMutex'
  BY <1>4 DEF Configure
<1> QED
  BY <1>1, <1>2, <1>3, <1>4 DEF World

PoolInv == PoolShape /\ PoolMutex

LEMMA PoolInvNext == ASSUME PoolInv, [PoolNext]_poolVars PROVE PoolInv'
BY NextShape, OperationMutex, TendMutex, WorldMutex DEF PoolNext, PoolInv

LEMMA PoolInvInit == ASSUME PoolInit PROVE PoolInv
BY SessionPoolAssumption DEF Choices, PoolInit, PoolInv, PoolShape, PoolMutex, InPass

\* What the tending thread closes is never in use, and nobody works without
\* a session (proc.rs, sftp and tend_sessions: one mutex for both).
THEOREM NeverUnderHand == PoolSpec => []NotUnderHand
<1>1. PoolInv => NotUnderHand
  BY DEF PoolInv, PoolMutex, NotUnderHand
<1> QED
  BY <1>1, PoolInvInit, PoolInvNext, PTL DEF PoolSpec

-----------------------------------------------------------------------------
(* When a dead link is found                                                 *)

\* What a pass may still take, and how long it may be until h is looked at,
\* from where the tending thread is, what is due and its timer.
Pending(waits) == {h \in Hosts : waits[h] = "quiet"}
PassLeft(where, waits, time) ==
  IF where \in Hosts THEN time + Checks(Pending(waits) \ {where}) ELSE Checks(Pending(waits))
Until(h, where, waits, time) ==
  CASE where = "sleeping" -> time + Checks(Hosts)
    [] where = "waiting" -> Checks(Hosts)
    [] where \notin {"sleeping", "waiting"} /\ waits[h] \in {"quiet", "expired"} ->
         PassLeft(where, waits, time)
    [] OTHER -> PassLeft(where, waits, time) + TendEvery + Checks(Hosts)

Limits ==
  /\ tending = "sleeping" => timer =< TendEvery
  /\ tending \in Hosts => timer =< CheckLimit

\* A link that works is not late; one that is has been quiet for as long; and
\* what is left of the wait keeps it within the bound.
Late(h) == gone[h] > 0 => kept[h] # Nothing /\ kept[h].link # "up"
QuietAsLong(h) == kept[h] # Nothing /\ kept[h].quiet < Quiet => gone[h] =< kept[h].quiet
Deadline(h) == gone[h] + Until(h, tending, due, timer) =< DeadAtMost
InGoodTime == Limits /\ \A h \in Hosts : Late(h) /\ QuietAsLong(h) /\ Deadline(h)

LEMMA UntilIs ==
  ASSUME NEW h \in Hosts, NEW where \in {"sleeping", "waiting", "passing"} \cup Hosts,
         NEW waits, NEW time \in Nat,
         where = "sleeping" => time =< TendEvery,
         where \in Hosts => time =< CheckLimit /\ waits[where] = "quiet"
  PROVE  /\ PassLeft(where, waits, time) \in Nat
         /\ where \notin {"sleeping", "waiting"} => PassLeft(where, waits, time) =< Checks(Hosts)
         /\ where \notin {"sleeping", "waiting"} /\ waits[h] # "quiet" =>
              PassLeft(where, waits, time) =< Checks(Hosts \ {h})
         /\ Until(h, where, waits, time) \in Nat
         /\ Until(h, where, waits, time) =< DeadAtMost
<1> DEFINE P == Pending(waits)
<1>1. P \subseteq Hosts /\ (waits[h] # "quiet" => P \subseteq Hosts \ {h})
      /\ (where \in Hosts => where \in P \/ time > CheckLimit)
  BY DEF Pending
<1>2. Checks(P) \in Nat /\ Checks(Hosts) \in Nat /\ Checks(Hosts \ {h}) \in Nat
      /\ Checks(P) =< Checks(Hosts) /\ (waits[h] # "quiet" => Checks(P) =< Checks(Hosts \ {h}))
      /\ Checks(P \ {where}) \in Nat
      /\ (where \in P => Checks(P) = Checks(P \ {where}) + CheckLimit)
  <2>1. Checks(P \ {where}) \in Nat
    BY <1>1, ChecksAre
  <2>2. waits[h] # "quiet" => Checks(P) =< Checks(Hosts \ {h})
    BY <1>1, ChecksAre
  <2>3. Checks(P) =< Checks(Hosts)
    BY <1>1, ChecksAre
  <2> QED
    BY <1>1, <2>1, <2>2, <2>3, ChecksAre
<1> HIDE DEF P
<1>3. PassLeft(where, waits, time) =
        IF where \in Hosts THEN time + Checks(P \ {where}) ELSE Checks(P)
  BY DEF PassLeft, P
<1>4. /\ PassLeft(where, waits, time) \in Nat
      /\ where \notin {"sleeping", "waiting"} => PassLeft(where, waits, time) =< Checks(P)
  BY <1>1, <1>2, <1>3, SessionPoolAssumption
<1>5. /\ DeadAtMost = (Quiet - 1) + Checks(Hosts \ {h}) + TendEvery + Checks(Hosts)
      /\ Quiet \in Nat \ {0} /\ TendEvery \in Nat
  BY DeadAtMostIs, SessionPoolAssumption
<1>6. where \in {"sleeping", "waiting"} =>
        Until(h, where, waits, time) \in Nat /\ Until(h, where, waits, time) =< DeadAtMost
  BY <1>2, <1>5 DEF Until
<1>7. where \notin {"sleeping", "waiting"} =>
        Until(h, where, waits, time) \in Nat /\ Until(h, where, waits, time) =< DeadAtMost
  BY <1>2, <1>4, <1>5 DEF Until
<1> QED
  BY <1>2, <1>4, <1>6, <1>7

LEMMA PendingAre ==
  ASSUME NEW waits, DOMAIN waits = Hosts, NEW g \in Hosts
  PROVE  Pending([waits EXCEPT ![g] = "no"]) = Pending(waits) \ {g}
BY DEF Pending

\* What happens to a session in a step that is not the clock's.
Steady(h) ==
  \/ gone'[h] = 0
  \/ /\ gone'[h] = gone[h] /\ kept[h] # Nothing /\ kept'[h] # Nothing
     /\ kept'[h].link # "up" /\ kept'[h].quiet = kept[h].quiet

LEMMA SameSteady ==
  ASSUME PoolInv, NEW h \in Hosts, Late(h), UNCHANGED <<kept[h], gone[h]>>
  PROVE  Steady(h)
BY DEF PoolInv, PoolShape, Late, Steady

LEMMA OperationSteady ==
  ASSUME PoolInv, NEW h \in Hosts, Late(h), NEW t \in Threads, Start(t) \/ Operation(t)
  PROVE  Steady(h)
<1> USE DEF PoolInv, PoolShape
<1>1. CASE Start(t) \/ HomeAnswered(t) \/ UseKept(t) \/ Open(t) \/ OpenFailed(t)
  BY <1>1, SameSteady
     DEF Start, RecallHome, AskHome, BeginOperation, HomeAnswered, UseKept, Open, OpenFailed, poolVars
<1>2. CASE SessionOpened(t) \/ Broke(t)
  <2>1. CASE host[t] = h
    BY <1>2, <2>1 DEF SessionOpened, Broke, Steady
  <2>2. CASE host[t] # h
    BY <1>2, <2>2, SameSteady DEF SessionOpened, Broke
  <2> QED
    BY <2>1, <2>2
<1>3. CASE Served(t)
  <2>1. CASE host[t] = h
    BY <1>3, <2>1 DEF Served, Steady, Late
  <2>2. CASE host[t] # h
    BY <1>3, <2>2, SameSteady DEF Served
  <2> QED
    BY <2>1, <2>2
<1> QED
  BY <1>1, <1>2, <1>3 DEF Operation

LEMMA TendSteady ==
  ASSUME PoolInv, NEW h \in Hosts, Late(h), Tend
  PROVE  Steady(h)
<1> USE DEF PoolInv, PoolShape
<1>1. CASE Wake \/ BeginPass \/ EndPass
  BY <1>1, SameSteady DEF Wake, BeginPass, EndPass
<1>2. ASSUME NEW g \in Hosts, Look(g) \/ Check(g) \/ Alive(g) \/ Dead(g) PROVE Steady(h)
  <2>1. CASE g # h
    BY <1>2, <2>1, SameSteady DEF Look, Check, Alive, Dead
  <2>2. CASE g = h
    <3>1. CASE Look(h)
      BY <3>1, SameSteady DEF Look, Steady
    <3>2. CASE Check(h)
      BY <3>2, SameSteady DEF Check
    <3>3. CASE Alive(h)
      BY <3>3 DEF Alive, Steady, Late
    <3>4. CASE Dead(h)
      BY <3>4 DEF Dead, NotAlive, Steady
    <3> QED
      BY <1>2, <2>2, <3>1, <3>2, <3>3, <3>4
  <2> QED
    BY <2>1, <2>2
<1> QED
  BY <1>1, <1>2 DEF Tend

LEMMA WorldSteady ==
  ASSUME PoolInv, NEW h \in Hosts, Late(h), World \/ UNCHANGED poolVars
  PROVE  Steady(h)
<1> USE DEF PoolInv, PoolShape
<1>1. ASSUME NEW g \in Hosts, Sever(g) \/ Exit(g) PROVE Steady(h)
  <2>1. CASE g # h
    BY <1>1, <2>1, SameSteady DEF Sever, Exit
  <2>2. CASE g = h
    <3>1. kept[h] # Nothing /\ IsSession(kept[h]) /\ kept'[h] # Nothing
      <4>1. IsSession(kept[h]) /\ "severed" \in Links /\ "exited" \in Links
        BY <1>1, <2>2 DEF Sever, Exit, Links
      <4>2. /\ [kept[h] EXCEPT !.link = "severed"] # Nothing
            /\ [kept[h] EXCEPT !.link = "exited"] # Nothing
        BY <4>1, SessionEdits, SessionsAre
      <4> QED
        BY <1>1, <2>2, <4>1, <4>2 DEF Sever, Exit
    <3>2. kept'[h].link \in {"severed", "exited"} /\ kept'[h].quiet = kept[h].quiet
      BY <1>1, <2>2, <3>1 DEF Sever, Exit, IsSession, Sessions
    <3> QED
      BY <1>1, <2>2, <3>1, <3>2 DEF Sever, Exit, Steady
  <2> QED
    BY <2>1, <2>2
<1>2. CASE UNCHANGED poolVars
  BY <1>2, SameSteady DEF poolVars
<1>3. ASSUME NEW g \in Hosts, Configure(g) PROVE Steady(h)
  BY <1>3, SameSteady DEF Configure
<1> QED
  BY <1>1, <1>2, <1>3 DEF World

\* A step that is not the clock's keeps a session's record straight, and what
\* is late stays as late as it was.
LEMMA SteadyKeeps ==
  ASSUME PoolInv, PoolInv', NEW h \in Hosts, QuietAsLong(h), Steady(h)
  PROVE  Late(h)' /\ QuietAsLong(h)' /\ gone'[h] \in Nat /\ gone'[h] =< gone[h]
<1>1. gone[h] \in Nat /\ gone'[h] \in Nat
  BY DEF PoolInv, PoolShape
<1>2. kept'[h] # Nothing => kept'[h].quiet \in Nat
  <2>1. kept'[h] # Nothing => kept'[h] \in Sessions
    BY DEF PoolInv, PoolShape, IsSession
  <2> QED
    BY <2>1 DEF Sessions
<1> QED
  BY <1>1, <1>2 DEF Steady, Late, QuietAsLong

LEMMA SameDeadline ==
  ASSUME PoolInv, PoolInv', NEW h \in Hosts, InGoodTime, Steady(h), UNCHANGED tender
  PROVE  Deadline(h)'
<1>1. gone'[h] =< gone[h] /\ gone[h] \in Nat /\ gone'[h] \in Nat
  BY SteadyKeeps DEF PoolInv, PoolShape, InGoodTime
<1>2. Until(h, tending, due, timer) \in Nat /\ DeadAtMost \in Nat
  BY UntilIs, DeadAtMostIs DEF PoolInv, PoolShape, PoolMutex, InGoodTime, Limits
<1>3. Until(h, tending', due', timer') = Until(h, tending, due, timer)
  BY DEF tender
<1> QED
  BY <1>1, <1>2, <1>3 DEF InGoodTime, Deadline

\* One that was never late, or is closed, has all the time there is.
LEMMA NothingLate ==
  ASSUME PoolInv', Limits', NEW h \in Hosts, gone'[h] = 0
  PROVE  Deadline(h)'
<1>1. Until(h, tending', due', timer') =< DeadAtMost /\ Until(h, tending', due', timer') \in Nat
  BY UntilIs DEF PoolInv, PoolShape, PoolMutex, Limits
<1> QED
  BY <1>1 DEF Deadline

LEMMA TendLimits ==
  ASSUME PoolInv, PoolInv', Limits, Tend
  PROVE  Limits'
BY SessionPoolAssumption
   DEF Limits, Tend, Wake, BeginPass, EndPass, Look, Check, Alive, Dead, PoolInv, PoolShape

LEMMA TendDeadline ==
  ASSUME PoolInv, PoolInv', InGoodTime, Tend, NEW h \in Hosts
  PROVE  Deadline(h)'
<1> DEFINE U == Until(h, tending, due, timer)
           V == Until(h, tending', due', timer')
<1>1. Steady(h) /\ Limits'
  BY TendSteady, TendLimits DEF InGoodTime
<1>2. gone'[h] =< gone[h] /\ gone[h] \in Nat /\ gone'[h] \in Nat
  BY <1>1, SteadyKeeps DEF PoolInv, PoolShape, InGoodTime
<1>3. U \in Nat /\ V \in Nat /\ DeadAtMost \in Nat
  BY <1>1, UntilIs, DeadAtMostIs DEF PoolInv, PoolShape, PoolMutex, InGoodTime, Limits
<1>4. ASSUME V =< U PROVE Deadline(h)'
  BY <1>2, <1>3, <1>4 DEF InGoodTime, Deadline
<1>5. ASSUME gone'[h] = 0 PROVE Deadline(h)'
  BY <1>1, <1>5, NothingLate
<1>a. TendEvery \in Nat /\ Checks(Hosts) \in Nat /\ timer \in Nat
      /\ PassLeft(tending, due, timer) \in Nat
  BY SessionPoolAssumption, ChecksAre, UntilIs
     DEF PoolInv, PoolShape, PoolMutex, InGoodTime, Limits
<1>b. DOMAIN due = Hosts /\ Hosts \cap {"sleeping", "waiting", "passing"} = {}
  BY SessionPoolAssumption DEF PoolInv, PoolShape
<1>6. CASE Wake
  <2>1. V =< U
    BY <1>6, <1>a DEF Wake, Until
  <2> QED
    BY <1>4, <2>1
<1>7. CASE BeginPass
  <2>1. CASE due'[h] \in {"quiet", "expired"}
    <3>1. V = PassLeft(tending', due', timer') /\ U = Checks(Hosts)
      BY <1>7, <2>1 DEF BeginPass, Until
    <3>2. PassLeft(tending', due', timer') =< Checks(Hosts)
      BY <1>1, <1>7, UntilIs DEF BeginPass, PoolInv, PoolShape, PoolMutex, Limits
    <3> QED
      BY <1>4, <3>1, <3>2
  <2>2. CASE due'[h] = "no"
    <3>1. kept[h] = Nothing
      BY <1>7, <2>2 DEF BeginPass, Judged, PoolInv, PoolShape
    <3> QED
      BY <1>2, <1>5, <3>1 DEF InGoodTime, Late
  <2>3. CASE due'[h] = "recent"
    <3>1. kept[h] # Nothing /\ kept[h].quiet < Quiet
      BY <1>7, <2>3 DEF BeginPass, Judged, PoolInv, PoolShape
    <3>2. gone[h] =< Quiet - 1
      <4>1. kept[h].quiet \in Nat
        BY <3>1 DEF PoolInv, PoolShape, IsSession, Sessions
      <4> QED
        BY <1>2, <3>1, <4>1, SessionPoolAssumption DEF InGoodTime, QuietAsLong
    <3>3. V = PassLeft(tending', due', timer') + TendEvery + Checks(Hosts)
      BY <1>7, <2>3 DEF BeginPass, Until
    <3>4. PassLeft(tending', due', timer') =< Checks(Hosts \ {h})
          /\ PassLeft(tending', due', timer') \in Nat
      BY <1>1, <1>7, <2>3, UntilIs DEF BeginPass, PoolInv, PoolShape, PoolMutex, Limits
    <3>5. Checks(Hosts \ {h}) \in Nat
      BY ChecksAre
    <3> QED
      BY <1>2, <1>a, <3>2, <3>3, <3>4, <3>5, DeadAtMostIs, SessionPoolAssumption DEF Deadline
  <2> QED
    BY <1>7, <2>1, <2>2, <2>3 DEF BeginPass, Judged
<1>8. ASSUME NEW g \in Hosts, Look(g) PROVE Deadline(h)'
  <2>1. PassLeft(tending', due', timer') =< PassLeft(tending, due, timer)
    <3>1. tending = "passing" /\ UNCHANGED <<tending, timer>>
          /\ Pending(due') = Pending(due) \ {g}
      BY <1>8, <1>b, PendingAre DEF Look
    <3>2. Checks(Pending(due) \ {g}) =< Checks(Pending(due))
      BY ChecksAre DEF Pending
    <3> QED
      BY <1>b, <3>1, <3>2 DEF PassLeft
  <2>2. PassLeft(tending', due', timer') \in Nat
    BY <1>1, UntilIs DEF PoolInv, PoolShape, PoolMutex, Limits
  <2>3. CASE due'[h] = due[h] \/ due[h] = "recent"
    <3>1. V =< U
      BY <1>8, <1>a, <1>b, <2>1, <2>2, <2>3 DEF Look, Until
    <3> QED
      BY <1>4, <3>1
  <2>4. CASE ~(due'[h] = due[h] \/ due[h] = "recent")
    <3>1. gone'[h] = 0
      BY <1>8, <2>4 DEF Look, Retains, PoolInv, PoolShape
    <3> QED
      BY <1>5, <3>1
  <2> QED
    BY <2>3, <2>4
<1>9. ASSUME NEW g \in Hosts, Check(g) PROVE Deadline(h)'
  <2>1. PassLeft(tending', due', timer') = PassLeft(tending, due, timer)
    <3>1. tending = "passing" /\ tending' = g /\ timer' = CheckLimit /\ due' = due
          /\ g \in Pending(due)
      BY <1>9 DEF Check, Pending
    <3>2. Checks(Pending(due)) = Checks(Pending(due) \ {g}) + CheckLimit
          /\ Checks(Pending(due) \ {g}) \in Nat
      BY <3>1, ChecksAre DEF Pending
    <3> QED
      BY <1>b, <3>1, <3>2, SessionPoolAssumption DEF PassLeft
  <2>2. V =< U
    BY <1>9, <1>a, <1>b, <2>1 DEF Check, Until
  <2> QED
    BY <1>4, <2>2
<1>10. ASSUME NEW g \in Hosts, Alive(g) \/ Dead(g) PROVE Deadline(h)'
  <2>1. CASE g = h
    <3>1. gone'[h] = 0
      BY <1>2, <1>10, <2>1 DEF Alive, Dead, NotAlive, InGoodTime, Late, PoolInv, PoolShape
    <3> QED
      BY <1>5, <3>1
  <2>2. CASE g # h
    <3>1. tending = g /\ tending' = "passing" /\ timer' = timer
          /\ Pending(due') = Pending(due) \ {g}
      BY <1>10, <1>b, PendingAre DEF Alive, Dead
    <3>2. Checks(Pending(due) \ {g}) \in Nat
      BY ChecksAre DEF Pending
    <3>3. PassLeft(tending', due', timer') =< PassLeft(tending, due, timer)
          /\ PassLeft(tending', due', timer') \in Nat
      BY <1>a, <1>b, <3>1, <3>2 DEF PassLeft
    <3>4. due'[h] = due[h]
      BY <1>10, <1>b, <2>2 DEF Alive, Dead
    <3>5. V =< U
      BY <1>a, <1>b, <3>1, <3>3, <3>4 DEF Until
    <3> QED
      BY <1>4, <3>5
  <2> QED
    BY <2>1, <2>2
<1>11. CASE EndPass
  <2>1. V =< U
    BY <1>11, <1>a DEF EndPass, Until
  <2> QED
    BY <1>4, <2>1
<1> QED
  BY <1>6, <1>7, <1>8, <1>9, <1>10, <1>11 DEF Tend

LEMMA TickInTime ==
  ASSUME PoolInv, PoolInv', InGoodTime, Tick
  PROVE  InGoodTime'
<1> USE DEF PoolInv, PoolShape
<1>1. Limits'
  BY SessionPoolAssumption DEF InGoodTime, Limits, Tick
<1> SUFFICES ASSUME NEW h \in Hosts PROVE (Late(h) /\ QuietAsLong(h) /\ Deadline(h))'
  BY <1>1 DEF InGoodTime
<1> DEFINE U == Until(h, tending, due, timer)
           V == Until(h, tending', due', timer')
<1>2. U \in Nat /\ V \in Nat /\ DeadAtMost \in Nat /\ gone[h] \in Nat /\ gone[h] =< DeadAtMost
  <2>1. U \in Nat /\ V \in Nat /\ DeadAtMost \in Nat /\ gone[h] \in Nat
    BY <1>1, UntilIs, DeadAtMostIs DEF PoolMutex, InGoodTime, Limits
  <2> QED
    BY <2>1 DEF InGoodTime, Deadline
<1>3. gone'[h] \in Nat /\ gone'[h] =< gone[h] + 1
  BY <1>2 DEF Tick, Older
<1>4. gone'[h] # gone[h] =>
        kept[h] # Nothing /\ kept[h].link = "severed" /\ lock \notin Threads
  BY DEF Tick
<1>5. /\ kept[h] = Nothing => kept'[h] = Nothing
      /\ kept[h] # Nothing => kept'[h] # Nothing /\ kept'[h].link = kept[h].link
                              /\ kept'[h].quiet = Older(kept[h].quiet, Quiet)
  BY AgedIs, SessionsAre DEF Tick, Aged
<1>6. Late(h)'
  BY <1>2, <1>3, <1>4, <1>5 DEF InGoodTime, Late
<1>7. QuietAsLong(h)'
  <2>1. kept[h] # Nothing => kept[h].quiet \in Nat
    BY DEF IsSession, Sessions
  <2> QED
    BY <1>2, <1>3, <1>5, <2>1, SessionPoolAssumption DEF InGoodTime, QuietAsLong, Older
<1>8. CASE gone'[h] # gone[h]
  <2>1. tending = "sleeping" \/ tending \in Hosts
    BY <1>4, <1>8 DEF Tick, SomeoneReady, PoolMutex, InPass
  <2>2. timer \in Nat \ {0} /\ timer' = timer - 1 /\ UNCHANGED <<tending, due>>
    BY <2>1 DEF Tick, SomeoneReady
  <2>3. PassLeft(tending', due', timer') = PassLeft(tending, due, timer) - 1
        \/ tending \notin Hosts
    <3>1. Checks(Pending(due) \ {tending}) \in Nat
      BY ChecksAre DEF Pending
    <3> QED
      BY <2>2, <3>1 DEF PassLeft
  <2>4. PassLeft(tending, due, timer) \in Nat /\ Checks(Hosts) \in Nat /\ TendEvery \in Nat
    BY UntilIs, ChecksAre, SessionPoolAssumption DEF PoolMutex, InGoodTime, Limits
  <2>5. V = U - 1
    BY <2>1, <2>2, <2>3, <2>4, SessionPoolAssumption DEF Until
  <2> QED
    BY <1>2, <1>3, <1>6, <1>7, <2>5 DEF InGoodTime, Deadline
<1>9. CASE gone'[h] = gone[h]
  <2>1. timer \in Nat /\ timer' \in Nat /\ timer' =< timer /\ UNCHANGED <<tending, due>>
    BY DEF Tick
  <2>2. PassLeft(tending', due', timer') =< PassLeft(tending, due, timer)
    <3>1. Checks(Pending(due) \ {tending}) \in Nat /\ Checks(Pending(due)) \in Nat
      BY ChecksAre DEF Pending
    <3> QED
      BY <2>1, <3>1 DEF PassLeft
  <2>3. PassLeft(tending, due, timer) \in Nat /\ Checks(Hosts) \in Nat /\ TendEvery \in Nat
        /\ PassLeft(tending', due', timer') \in Nat
    BY <1>1, UntilIs, ChecksAre, SessionPoolAssumption DEF PoolMutex, InGoodTime, Limits
  <2>4. V =< U
    BY <2>1, <2>2, <2>3 DEF Until
  <2> QED
    BY <1>2, <1>6, <1>7, <1>9, <2>4 DEF InGoodTime, Deadline
<1> QED
  BY <1>8, <1>9

LEMMA NextInTime ==
  ASSUME PoolInv, PoolInv', InGoodTime, [PoolNext]_poolVars
  PROVE  InGoodTime'
<1>1. CASE Tick
  BY <1>1, TickInTime
<1>2. CASE Tend
  <2>1. \A h \in Hosts : Steady(h)
    BY <1>2, TendSteady DEF InGoodTime
  <2>2. \A h \in Hosts : Late(h)' /\ QuietAsLong(h)'
    BY <2>1, SteadyKeeps DEF InGoodTime
  <2> QED
    BY <1>2, <2>2, TendLimits, TendDeadline DEF InGoodTime
<1>3. ASSUME World \/ UNCHANGED poolVars \/ \E t \in Threads : Start(t) \/ Operation(t)
      PROVE  InGoodTime'
  <2>1. \A h \in Hosts : Steady(h)
    BY <1>3, OperationSteady, WorldSteady DEF InGoodTime
  <2>2. UNCHANGED tender
    BY <1>3 DEF World, Sever, Exit, Configure, poolVars, Start, RecallHome, AskHome, BeginOperation, Operation,
                HomeAnswered, UseKept, Open, SessionOpened, OpenFailed, Served, Broke
  <2>3. \A h \in Hosts : Late(h)' /\ QuietAsLong(h)' /\ Deadline(h)'
    BY <2>1, <2>2, SteadyKeeps, SameDeadline DEF InGoodTime
  <2> QED
    BY <2>2, <2>3 DEF InGoodTime, Limits, tender
<1> QED
  BY <1>1, <1>2, <1>3 DEF PoolNext

\* A kept link that died without ssh noticing is found within a quiet period,
\* one sleep and two passes, whatever operations and other sessions do
\* (proc.rs, tend_sessions).
THEOREM FoundHolds == PoolSpec => []FoundInTime
<1>1. PoolInit => InGoodTime
  <2>1. SUFFICES ASSUME PoolInit, NEW h \in Hosts PROVE Late(h) /\ QuietAsLong(h) /\ Deadline(h)
    BY SessionPoolAssumption DEF PoolInit, InGoodTime, Limits
  <2>2. Until(h, tending, due, timer) =< DeadAtMost /\ Until(h, tending, due, timer) \in Nat
    <3>1. tending = "sleeping" /\ timer = TendEvery /\ TendEvery \in Nat /\ tending \notin Hosts
      BY <2>1, SessionPoolAssumption DEF PoolInit
    <3>2. TendEvery =< TendEvery
      BY <3>1
    <3> QED
      BY <3>1, <3>2, UntilIs
  <2>3. DeadAtMost \in Nat
    BY DeadAtMostIs
  <2> QED
    BY <2>1, <2>2, <2>3 DEF PoolInit, Late, QuietAsLong, Deadline
<1>2. PoolInv /\ PoolInv' /\ InGoodTime /\ [PoolNext]_poolVars => InGoodTime'
  BY NextInTime
<1>3. PoolInv /\ InGoodTime => FoundInTime
  <2>1. SUFFICES ASSUME PoolInv, InGoodTime, NEW h \in Hosts PROVE gone[h] =< DeadAtMost
    BY DEF FoundInTime
  <2>2. Until(h, tending, due, timer) \in Nat /\ gone[h] \in Nat /\ DeadAtMost \in Nat
    BY <2>1, UntilIs, DeadAtMostIs DEF PoolInv, PoolShape, PoolMutex, InGoodTime, Limits
  <2> QED
    BY <2>1, <2>2 DEF InGoodTime, Deadline
<1> QED
  BY <1>1, <1>2, <1>3, PoolInvInit, PoolInvNext, PTL DEF PoolSpec

=============================================================================
