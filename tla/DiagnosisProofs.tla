--------------------------- MODULE DiagnosisProofs ---------------------------
(***************************************************************************)
(* Proofs about Diagnosis, for every set of targets, relays, objects and   *)
(* combinations, any number of runs and of changes of the host: a finished *)
(* report is complete, probes leave nothing, and the conversation writes   *)
(* only what it has checked and registers only what it has written.        *)
(***************************************************************************)
EXTENDS Diagnosis, SequenceTheorems, TLAPS

\* What the steps update is a function and a record.
Fields == {"kind", "target", "dir", "relay", "config", "connection", "sftp", "object",
           "sender", "key"}
Shape ==
  /\ objects \in [Objects -> {"unused", "held", "gone"}]
  /\ DOMAIN job = Fields

\* What is about to be saved was vouched for, and what is about to be
\* registered is what the file says.
SavingOK == at = "saving" => job.relay \in vouched
RegisteringOK == at = "registering" => hotkey = job.key

IInv == Shape /\ ProbesLeaveNothing /\ SavingOK /\ RegisteringOK

LEMMA NoJobFields == DOMAIN NoJob = Fields
BY DEF NoJob, Fields

LEMMA InitEstablishes == Init => IInv
BY NoJobFields DEF Init, IInv, Shape, ProbesLeaveNothing, SavingOK, RegisteringOK

LEMMA BeginDoctorKeeps ==
  ASSUME IInv, NEW requested \in Targets \cup {None}, BeginDoctor(requested)
  PROVE  IInv'
<1>1. DOMAIN job' = Fields
  BY NoJobFields DEF BeginDoctor
<1> QED
  BY <1>1 DEF IInv, Shape, ProbesLeaveNothing, SavingOK, RegisteringOK, BeginDoctor, Goes

LEMMA DoctorKeeps ==
  ASSUME IInv, Doctor
  PROVE  IInv'
<1>1. CASE LookAtClipboard
  BY <1>1 DEF LookAtClipboard, IInv, Shape, ProbesLeaveNothing, SavingOK, RegisteringOK, Goes, file
<1>2. CASE Probed
  BY <1>2 DEF Probed, IInv, Shape, ProbesLeaveNothing, SavingOK, RegisteringOK, Goes, file
<1>3. CASE Greeted
  BY <1>3 DEF Greeted, IInv, Shape, ProbesLeaveNothing, SavingOK, RegisteringOK, Goes, file
<1>4. CASE Resolved
  BY <1>4 DEF Resolved, IInv, Shape, ProbesLeaveNothing, SavingOK, RegisteringOK, Goes, file
<1>5. CASE NotProbed \/ NoInbox \/ Inbox
  BY <1>5 DEF NotProbed, NoInbox, Inbox, IInv, Shape, ProbesLeaveNothing, SavingOK,
              RegisteringOK, Goes, file
<1>6. CASE RoundTrip
  BY <1>6 DEF RoundTrip, IInv, Shape, ProbesLeaveNothing, SavingOK, RegisteringOK, Goes, file
<1>7. CASE KeystrokeInjection
  BY <1>7 DEF KeystrokeInjection, IInv, Shape, ProbesLeaveNothing, SavingOK, RegisteringOK,
              Goes, file
<1>8. CASE NoRelay
  BY <1>8 DEF NoRelay, IInv, Shape, ProbesLeaveNothing, SavingOK, RegisteringOK, Goes, file
<1>9. CASE ConfigVersion
  BY <1>9, NoJobFields DEF ConfigVersion, IInv, Shape, ProbesLeaveNothing, SavingOK,
                           RegisteringOK, Goes, file
<1> QED
  BY <1>1, <1>2, <1>3, <1>4, <1>5, <1>6, <1>7, <1>8, <1>9 DEF Doctor

\* A verdict ends the probe: nothing is in hand, and "saving" is for what passed.
LEMMA VerdictGoes ==
  ASSUME NEW status \in {"pass", "fail"}, Verdict(status)
  PROVE  /\ at' \in {"config", "saving", "asking what now"}
         /\ at' = "saving" => vouched' = vouched \cup {job.relay}
BY DEF Verdict, Goes

LEMMA ProbeKeeps ==
  ASSUME IInv, ProbeRelay
  PROVE  IInv'
<1>1. ASSUME NEW o \in Objects, Publish(o) PROVE IInv'
  <2>1. CASE Goes("retrieving") /\ UNCHANGED <<found, vouched, excused>>
    BY <1>1, <2>1 DEF Publish, Goes, IInv, Shape, ProbesLeaveNothing, SavingOK, RegisteringOK
  <2>2. CASE excused' = excused \cup {o} /\ Verdict("fail")
    <3>1. at' # "registering"
      BY <2>2, VerdictGoes
    <3>2. job'.relay = job.relay
      BY <1>1 DEF Publish, IInv, Shape, Fields
    <3>3. SavingOK'
      BY <2>2, <3>2, VerdictGoes DEF SavingOK
    <3>4. ProbesLeaveNothing'
      BY <1>1, <2>2 DEF Publish, IInv, Shape, ProbesLeaveNothing
    <3> QED
      BY <1>1, <3>1, <3>3, <3>4 DEF Publish, IInv, Shape, RegisteringOK
  <2> QED
    BY <1>1, <2>1, <2>2 DEF Publish
<1>2. CASE NotPublished
  <2>1. at' # "registering" /\ SavingOK'
    BY <1>2, VerdictGoes DEF NotPublished, SavingOK
  <2> QED
    BY <1>2, <2>1 DEF NotPublished, IInv, Shape, ProbesLeaveNothing, RegisteringOK
<1>3. CASE Retrieve
  <2>1. at' # "registering" /\ SavingOK'
    BY <1>3, VerdictGoes DEF Retrieve, Goes, SavingOK
  <2>2. Shape'
    BY <1>3 DEF Retrieve, IInv, Shape
  <2>3. ProbesLeaveNothing'
    BY <1>3 DEF Retrieve, IInv, Shape, ProbesLeaveNothing
  <2> QED
    BY <2>1, <2>2, <2>3 DEF IInv, RegisteringOK
<1>4. CASE NotRetrieved
  BY <1>4 DEF NotRetrieved, AfterMiss, Goes, IInv, Shape, ProbesLeaveNothing, SavingOK,
              RegisteringOK
<1>5. CASE Revoke
  <2>1. at' # "registering" /\ SavingOK'
    BY <1>5, VerdictGoes DEF Revoke, SavingOK
  <2>2. Shape'
    BY <1>5 DEF Revoke, IInv, Shape
  <2>3. ProbesLeaveNothing'
    BY <1>5 DEF Revoke, IInv, Shape, ProbesLeaveNothing
  <2> QED
    BY <2>1, <2>2, <2>3 DEF IInv, RegisteringOK
<1> QED
  BY <1>1, <1>2, <1>3, <1>4, <1>5 DEF ProbeRelay

LEMMA SetupKeeps ==
  ASSUME IInv, Setup
  PROVE  IInv'
<1> USE DEF IInv, Shape, ProbesLeaveNothing, SavingOK, RegisteringOK, Goes
<1>1. ASSUME NEW address \in Addresses, Enter(address) PROVE IInv'
  BY <1>1 DEF Enter, file
<1>2. CASE Skip
  BY <1>2, NoJobFields DEF Skip, file
<1>3. CASE TryAgain \/ SaveAnyway \/ Different
  BY <1>3 DEF TryAgain, SaveAnyway, Different, EnterDifferent, file
<1>4. CASE Save
  BY <1>4, NoJobFields DEF Save
<1>5. ASSUME NEW key \in Keys, ChooseKey(key) PROVE IInv'
  BY <1>5 DEF ChooseKey, KeyWritten, Fields
<1>6. CASE Register \/ NotRegistered
  BY <1>6, NoJobFields DEF Register, NotRegistered, file
<1> QED
  BY <1>1, <1>2, <1>3, <1>4, <1>5, <1>6 DEF Setup

LEMMA BeginSetupKeeps ==
  ASSUME IInv, NEW sender \in BOOLEAN, BeginSetup(sender)
  PROVE  IInv'
<1>1. DOMAIN job' = Fields
  BY NoJobFields DEF BeginSetup
<1>2. at' \in {"publishing", "asking"}
  BY DEF BeginSetup, Goes
<1> QED
  BY <1>1, <1>2 DEF BeginSetup, IInv, Shape, ProbesLeaveNothing, SavingOK, RegisteringOK

\* One step per group of actions. A process that is killed takes the excuse
\* for the object it had with it.
LEMMA NextKeeps ==
  ASSUME IInv, [Next]_vars
  PROVE  IInv'
<1>1. CASE Changes
  BY <1>1 DEF Changes, file, IInv, Shape, ProbesLeaveNothing, SavingOK, RegisteringOK
<1>2. CASE Killed
  BY <1>2, NoJobFields DEF Killed, Goes, IInv, Shape, ProbesLeaveNothing, SavingOK, RegisteringOK
<1>3. CASE UNCHANGED vars
  BY <1>3 DEF vars, file, IInv, Shape, ProbesLeaveNothing, SavingOK, RegisteringOK
<1> QED
  BY <1>1, <1>2, <1>3, BeginDoctorKeeps, BeginSetupKeeps, DoctorKeeps, ProbeKeeps, SetupKeeps
     DEF Next

LEMMA Invariance == Spec => []IInv
<1> QED
  BY InitEstablishes, NextKeeps, PTL DEF Spec

\* No probe leaves an object with a relay, unless nobody could have taken it
\* back, whatever is lost on the way and wherever a command is killed
\* (clift-relay, probe_relay).
THEOREM ProbesAlwaysLeaveNothing == Spec => []ProbesLeaveNothing
BY Invariance, PTL DEF IInv

\* A relay is saved only if it was checked, or insisted on, in this very
\* conversation (first_run.rs, relay).
THEOREM OnlyCheckedIsSaved == Spec => SavedOnlyChecked
<1>1. ASSUME IInv, [Next]_vars PROVE [url' # url => url' \in vouched]_vars
  <2>1. CASE Save
    BY <1>1, <2>1 DEF Save, IInv, SavingOK
  <2>2. CASE Next /\ ~Save
    <3>1. url' = url
      BY <2>2 DEF Next, BeginDoctor, BeginSetup, Doctor, ProbeRelay, Setup, Changes, Killed,
         LookAtClipboard, NotProbed, Probed, Greeted, Resolved, NoInbox, Inbox, RoundTrip,
         KeystrokeInjection, NoRelay, ConfigVersion, Publish, NotPublished, Retrieve,
         NotRetrieved, Revoke, Enter, Skip, TryAgain, SaveAnyway, Different, ChooseKey,
         Register, NotRegistered, file
    <3> QED
      BY <3>1
  <2> QED
    BY <1>1, <2>1, <2>2
<1> QED
  BY <1>1, Invariance, PTL DEF Spec, SavedOnlyChecked

\* The login entry is started with the combination just chosen: it was in the
\* file before the entry read it (first_run.rs, hotkey).
THEOREM ChosenIsRegistered == Spec => RegisteredAsChosen
<1>1. ASSUME IInv, [Next]_vars PROVE [login' # login => login' = job.key]_vars
  <2>1. CASE Register
    BY <1>1, <2>1 DEF Register, IInv, RegisteringOK
  <2>2. CASE Next /\ ~Register
    <3>1. login' = login
      BY <2>2 DEF Next, BeginDoctor, BeginSetup, Doctor, ProbeRelay, Setup, Changes, Killed,
         LookAtClipboard, NotProbed, Probed, Greeted, Resolved, NoInbox, Inbox, RoundTrip,
         KeystrokeInjection, NoRelay, ConfigVersion, Publish, NotPublished, Retrieve,
         NotRetrieved, Revoke, Enter, Skip, TryAgain, SaveAnyway, Different, Save, ChooseKey,
         NotRegistered
    <3> QED
      BY <3>1
  <2> QED
    BY <1>1, <2>1, <2>2
<1> QED
  BY <1>1, Invariance, PTL DEF Spec, RegisteredAsChosen

-----------------------------------------------------------------------------
(* Every check once                                                          *)

Labels ==
  {"platform", "clipboard", "ssh client", "host resolution", "authentication",
   "sftp subsystem", "remote home", "inbox permissions", "upload and cleanup",
   "keystroke injection", "relay", "config version"}
Entries == [name : Labels, status : {"pass", "fail", "warn"}]

\* Lines that come after the first k, in report order.
After(k, lines) ==
  lines \in Seq(Entries) /\ \A i \in 1 .. Len(lines) : lines[i].name = All[k + i]

\* A report of k lines, and m lines that come next.
First(r, k) == After(0, r) /\ Len(r) = k
Following(k, lines, m) == After(k, lines) /\ Len(lines) = m

Begun(k) == First(report, k)

\* How far a report is at each place; a conversation has none.
ReportOK ==
  /\ at = "clipboard" => job.kind = "doctor" /\ Begun(0)
  /\ at \in {"probing", "greeting", "resolving"} => job.kind = "doctor" /\ Begun(2)
  /\ at = "inbox" => job.kind = "doctor" /\ Begun(6)
  /\ at = "uploading" => job.kind = "doctor" /\ Begun(8)
  /\ at = "typing" => job.kind = "doctor" /\ Begun(9)
  /\ at = "no relay" => job.kind = "doctor" /\ Begun(10)
  /\ at \in {"publishing", "retrieving", "revoking"} =>
       IF job.kind = "doctor" THEN Begun(10) ELSE report = <<>>
  /\ at = "config" => job.kind = "doctor" /\ Begun(11)
  /\ at \in {"asking", "asking what now", "saving", "choosing a key", "registering"} =>
       job.kind # "doctor" /\ report = <<>>
  /\ at = "idle" => report = <<>> \/ Begun(12)

\* What is where in three sequences put one behind the other.
Behind(S, abc, a, b, c) ==
  /\ abc \in Seq(S) /\ Len(abc) = (Len(a) + Len(b)) + Len(c)
  /\ \A i \in 1 .. Len(a) : abc[i] = a[i]
  /\ \A i \in 1 .. Len(b) : abc[Len(a) + i] = b[i]
  /\ \A i \in 1 .. Len(c) : abc[(Len(a) + Len(b)) + i] = c[i]

LEMMA ThreeParts ==
  ASSUME NEW S, NEW a \in Seq(S), NEW b \in Seq(S), NEW c \in Seq(S)
  PROVE  Behind(S, (a \o b) \o c, a, b, c)
<1> DEFINE abc == (a \o b) \o c
<1> DEFINE k == Len(a)
<1> DEFINE l == Len(b)
<1> DEFINE m == Len(c)
<1> DEFINE ab == a \o b
<1>1. k \in Nat /\ l \in Nat /\ m \in Nat
  BY LenProperties
<1>2. /\ ab \in Seq(S) /\ Len(ab) = k + l
      /\ \A i \in 1 .. (k + l) : ab[i] = IF i <= k THEN a[i] ELSE b[i - k]
  BY ConcatProperties
<1>3. /\ abc \in Seq(S) /\ Len(abc) = Len(ab) + m
      /\ \A i \in 1 .. (Len(ab) + m) : abc[i] = IF i <= Len(ab) THEN ab[i] ELSE c[i - Len(ab)]
  BY <1>2, ConcatProperties DEF abc
<1> HIDE DEF k, l, m, ab, abc
<1>4. ASSUME NEW i \in 1 .. k PROVE abc[i] = a[i]
  <2>1. i \in 1 .. (k + l) /\ i \in 1 .. ((k + l) + m) /\ i <= k /\ i <= k + l
    BY <1>1
  <2> QED
    BY <1>2, <1>3, <2>1
<1>5. ASSUME NEW i \in 1 .. l PROVE abc[k + i] = b[i]
  <2> DEFINE j == k + i
  <2>1. j \in 1 .. (k + l) /\ j \in 1 .. ((k + l) + m) /\ ~(j <= k) /\ j <= k + l /\ j - k = i
    BY <1>1
  <2> HIDE DEF j
  <2>2. abc[j] = ab[j] /\ ab[j] = b[j - k]
    BY <1>2, <1>3, <2>1
  <2> QED
    BY <2>1, <2>2 DEF j
<1>6. ASSUME NEW i \in 1 .. m PROVE abc[(k + l) + i] = c[i]
  <2> DEFINE j == (k + l) + i
  <2>1. j \in 1 .. ((k + l) + m) /\ ~(j <= k + l) /\ j - (k + l) = i
    BY <1>1
  <2> HIDE DEF j
  <2>2. abc[j] = c[j - (k + l)]
    BY <1>2, <1>3, <2>1
  <2> QED
    BY <2>1, <2>2 DEF j
<1>7. Len(abc) = (k + l) + m
  BY <1>2, <1>3
<1> QED
  BY <1>3, <1>4, <1>5, <1>6, <1>7 DEF k, l, m, abc, Behind

LEMMA TheRemote ==
  /\ Remote \in Seq(Labels) /\ Len(Remote) = 7
  /\ Remote[1] = "ssh client" /\ Remote[2] = "host resolution" /\ Remote[3] = "authentication"
  /\ Remote[4] = "sftp subsystem" /\ Remote[5] = "remote home"
  /\ Remote[6] = "inbox permissions" /\ Remote[7] = "upload and cleanup"
BY DEF Remote, Labels

LEMMA TheTwelve ==
  /\ All \in Seq(Labels) /\ Len(All) = 12
  /\ All[1] = "platform" /\ All[2] = "clipboard"
  /\ \A i \in 1 .. 7 : All[2 + i] = Remote[i]
  /\ All[10] = "keystroke injection" /\ All[11] = "relay" /\ All[12] = "config version"
<1> DEFINE a == <<"platform", "clipboard">>
<1> DEFINE c == <<"keystroke injection", "relay", "config version">>
<1>1. a \in Seq(Labels) /\ c \in Seq(Labels) /\ Len(a) = 2 /\ Len(c) = 3
  BY DEF Labels
<1>2. /\ a[1] = "platform" /\ a[2] = "clipboard"
      /\ c[1] = "keystroke injection" /\ c[2] = "relay" /\ c[3] = "config version"
  OBVIOUS
<1>3. All = (a \o Remote) \o c
  BY DEF All
<1> HIDE DEF a, c
<1>4. Remote \in Seq(Labels) /\ Len(Remote) = 7
  BY TheRemote
<1>5. /\ All \in Seq(Labels) /\ Len(All) = (Len(a) + Len(Remote)) + Len(c)
      /\ \A i \in 1 .. Len(a) : All[i] = a[i]
      /\ \A i \in 1 .. Len(Remote) : All[Len(a) + i] = Remote[i]
      /\ \A i \in 1 .. Len(c) : All[(Len(a) + Len(Remote)) + i] = c[i]
  <2>1. a \in Seq(Labels) /\ Remote \in Seq(Labels) /\ c \in Seq(Labels)
    BY <1>1, <1>4
  <2> QED
    <3>1. Behind(Labels, (a \o Remote) \o c, a, Remote, c)
      BY <2>1, ThreeParts
    <3> QED
      BY <3>1, <1>3 DEF Behind
<1>6. /\ Len(All) = 12
      /\ All[1] = a[1] /\ All[2] = a[2]
      /\ \A i \in 1 .. 7 : All[2 + i] = Remote[i]
      /\ All[9 + 1] = c[1] /\ All[9 + 2] = c[2] /\ All[9 + 3] = c[3]
  BY <1>1, <1>4, <1>5
<1>7. All[10] = c[1] /\ All[11] = c[2] /\ All[12] = c[3]
  BY <1>6
<1> QED
  BY <1>2, <1>5, <1>6, <1>7

LEMMA LinesAre ==
  ASSUME NEW names \in Seq(Labels), NEW status \in {"pass", "fail", "warn"}
  PROVE  /\ Lines(names, status) \in Seq(Entries)
         /\ Len(Lines(names, status)) = Len(names)
         /\ \A i \in 1 .. Len(names) : Lines(names, status)[i].name = names[i]
<1>1. DOMAIN names = 1 .. Len(names) /\ Len(names) \in Nat
  OBVIOUS
<1>2. \A i \in 1 .. Len(names) : names[i] \in Labels
  OBVIOUS
<1>3. \A i \in 1 .. Len(names) : Line(names[i], status) \in Entries
  BY <1>2 DEF Line, Entries
<1> QED
  BY <1>1, <1>3 DEF Lines, Line

LEMMA AfterBoth ==
  ASSUME NEW k \in Nat, NEW s, NEW t, After(k, s), After(k + Len(s), t)
  PROVE  After(k, s \o t) /\ Len(s \o t) = Len(s) + Len(t)
<1> DEFINE m == Len(s)
<1> DEFINE n == Len(t)
<1>1. s \in Seq(Entries) /\ t \in Seq(Entries) /\ m \in Nat /\ n \in Nat
  BY LenProperties DEF After
<1>2. /\ s \o t \in Seq(Entries) /\ Len(s \o t) = m + n
      /\ \A i \in 1 .. (m + n) : (s \o t)[i] = IF i <= m THEN s[i] ELSE t[i - m]
  BY <1>1, ConcatProperties
<1>3. /\ \A i \in 1 .. m : s[i].name = All[k + i]
      /\ \A i \in 1 .. n : t[i].name = All[(k + m) + i]
  BY DEF After
<1> HIDE DEF m, n
<1>4. ASSUME NEW i \in 1 .. (m + n) PROVE (s \o t)[i].name = All[k + i]
  <2>1. CASE i <= m
    <3>1. i \in 1 .. m
      BY <1>1, <2>1
    <3> QED
      BY <1>2, <1>3, <2>1, <3>1
  <2>2. CASE ~(i <= m)
    <3> DEFINE j == i - m
    <3>1. j \in 1 .. n /\ (k + m) + j = k + i
      BY <1>1, <2>2
    <3>2. (s \o t)[i] = t[j]
      BY <1>2, <2>2
    <3> HIDE DEF j
    <3>3. t[j].name = All[(k + m) + j]
      BY <1>3, <3>1
    <3> QED
      BY <3>1, <3>2, <3>3
  <2> QED
    BY <2>1, <2>2
<1>5. Len(s \o t) = m + n
  BY <1>2
<1>6. \A i \in 1 .. Len(s \o t) : (s \o t)[i].name = All[k + i]
  BY <1>4, <1>5
<1> QED
  BY <1>2, <1>6 DEF After, m, n

\* What is said next comes next.
LEMMA SaysNext ==
  ASSUME NEW k \in Nat, NEW m \in Nat, NEW n \in Nat, n = k + m, NEW r, NEW lines,
         First(r, k), Following(k, lines, m)
  PROVE  First(r \o lines, n)
<1>1. 0 + k = k /\ 0 \in Nat /\ 0 + Len(r) = k /\ Len(r) = k /\ Len(lines) = m
  BY DEF First, Following
<1>2. After(0, r) /\ After(0 + Len(r), lines)
  BY <1>1 DEF First, Following
<1>3. After(0, r \o lines) /\ Len(r \o lines) = Len(r) + Len(lines)
  BY <1>1, <1>2, AfterBoth
<1> QED
  BY <1>1, <1>3 DEF First

LEMMA OneAfter ==
  ASSUME NEW k \in Nat, NEW e \in Entries, e.name = All[k + 1]
  PROVE  Following(k, <<e>>, 1)
<1>1. <<e>> \in Seq(Entries) /\ Len(<<e>>) = 1 /\ <<e>>[1] = e
  OBVIOUS
<1> QED
  BY <1>1 DEF After, Following

LEMMA TwoAfter ==
  ASSUME NEW k \in Nat, NEW e \in Entries, NEW f \in Entries,
         e.name = All[k + 1], f.name = All[k + 2]
  PROVE  Following(k, <<e, f>>, 2)
<1>1. <<e, f>> \in Seq(Entries) /\ Len(<<e, f>>) = 2
  OBVIOUS
<1>2. ASSUME NEW i \in 1 .. 2 PROVE <<e, f>>[i].name = All[k + i]
  <2>1. i = 1 \/ i = 2
    OBVIOUS
  <2> QED
    BY <2>1
<1> QED
  BY <1>1, <1>2 DEF After, Following

LEMMA FourAfter ==
  ASSUME NEW k \in Nat, NEW e \in Entries, NEW f \in Entries, NEW g \in Entries, NEW h \in Entries,
         e.name = All[k + 1], f.name = All[k + 2], g.name = All[k + 3], h.name = All[k + 4]
  PROVE  Following(k, <<e, f, g, h>>, 4)
<1>1. <<e, f, g, h>> \in Seq(Entries) /\ Len(<<e, f, g, h>>) = 4
  OBVIOUS
<1>2. ASSUME NEW i \in 1 .. 4 PROVE <<e, f, g, h>>[i].name = All[k + i]
  <2>1. i = 1 \/ i = 2 \/ i = 3 \/ i = 4
    OBVIOUS
  <2> QED
    BY <2>1
<1> QED
  BY <1>1, <1>2 DEF After, Following

LEMMA LineIs ==
  ASSUME NEW name \in Labels, NEW status \in {"pass", "fail", "warn"}
  PROVE  Line(name, status) \in Entries /\ Line(name, status).name = name
BY DEF Line, Entries

\* Each of the twelve, by its number.
LEMMA ByNumber ==
  /\ All[1] = "platform" /\ All[2] = "clipboard" /\ All[3] = "ssh client"
  /\ All[4] = "host resolution" /\ All[5] = "authentication" /\ All[6] = "sftp subsystem"
  /\ All[7] = "remote home" /\ All[8] = "inbox permissions" /\ All[9] = "upload and cleanup"
  /\ All[10] = "keystroke injection" /\ All[11] = "relay" /\ All[12] = "config version"
<1>1. \A i \in 1 .. 7 : All[2 + i] = Remote[i]
  BY TheTwelve
<1>2. /\ All[2 + 1] = Remote[1] /\ All[2 + 2] = Remote[2] /\ All[2 + 3] = Remote[3]
      /\ All[2 + 4] = Remote[4] /\ All[2 + 5] = Remote[5] /\ All[2 + 6] = Remote[6]
      /\ All[2 + 7] = Remote[7]
  BY <1>1
<1>3. /\ All[3] = Remote[1] /\ All[4] = Remote[2] /\ All[5] = Remote[3] /\ All[6] = Remote[4]
      /\ All[7] = Remote[5] /\ All[8] = Remote[6] /\ All[9] = Remote[7]
  BY <1>2
<1> QED
  BY <1>3, TheRemote, TheTwelve

\* All seven about the host.
LEMMA TheSeven ==
  ASSUME NEW status \in {"pass", "fail", "warn"}
  PROVE  Following(2, Lines(Remote, status), 7)
<1> DEFINE lines == Lines(Remote, status)
<1>1. Remote \in Seq(Labels) /\ Len(Remote) = 7 /\ \A i \in 1 .. 7 : All[2 + i] = Remote[i]
  BY TheRemote, TheTwelve
<1>2. /\ lines \in Seq(Entries) /\ Len(lines) = Len(Remote)
      /\ \A i \in 1 .. Len(Remote) : lines[i].name = Remote[i]
  BY <1>1, LinesAre
<1> HIDE DEF lines
<1>3. Following(2, lines, 7)
  BY <1>1, <1>2 DEF Following, After
<1> QED
  BY <1>3 DEF lines

\* The first two.
LEMMA TheFirstTwo ==
  ASSUME NEW status \in {"pass", "fail", "warn"}
  PROVE  First(<<Line("platform", "pass"), Line("clipboard", status)>>, 2)
<1> DEFINE e == Line("platform", "pass")
<1> DEFINE f == Line("clipboard", status)
<1>1. e \in Entries /\ f \in Entries /\ e.name = "platform" /\ f.name = "clipboard"
  BY DEF Line, Entries, Labels
<1> HIDE DEF e, f
<1>2. 0 + 1 = 1 /\ 0 + 2 = 2 /\ 0 \in Nat
  OBVIOUS
<1>3. e.name = All[0 + 1] /\ f.name = All[0 + 2]
  BY <1>1, <1>2, ByNumber
<1>4. Following(0, <<e, f>>, 2)
  BY <1>1, <1>2, <1>3, TwoAfter
<1>5. First(<<e, f>>, 2)
  BY <1>4 DEF First, Following
<1> QED
  BY <1>5 DEF e, f

LEMMA LookAtClipboardReports ==
  ASSUME ReportOK, LookAtClipboard
  PROVE  ReportOK'
<1>1. After(0, report) /\ Len(report) = 0 /\ job' = job /\ job.kind = "doctor"
  BY DEF LookAtClipboard, ReportOK, Begun, First
<1>2. PICK status \in {"pass", "fail", "warn"} :
        report' = report \o (<<Line("platform", "pass"), Line("clipboard", status)>>
                             \o IF job.target = None THEN Lines(Remote, "warn") ELSE <<>>)
  BY DEF LookAtClipboard, Says
<1> DEFINE two == <<Line("platform", "pass"), Line("clipboard", status)>>
<1>3. First(two, 2)
  BY TheFirstTwo
<1> HIDE DEF two
<1>4. report = <<>>
  BY <1>1 DEF After
<1>5. CASE job.target = None
  <2> DEFINE lines == Lines(Remote, "warn")
  <2>1. First(two \o lines, 9)
    BY <1>3, TheSeven, SaysNext
  <2> HIDE DEF lines
  <2>2. two \o lines \in Seq(Entries)
    BY <2>1 DEF First, After
  <2>3. report' = <<>> \o (two \o lines)
    BY <1>2, <1>4, <1>5 DEF two, lines
  <2>4. report' = two \o lines
    BY <2>2, <2>3, ConcatEmptySeq
  <2>5. Begun(9)' /\ at' = "typing"
    BY <1>5, <2>1, <2>4 DEF LookAtClipboard, Goes, Begun
  <2> QED
    BY <1>1, <2>5 DEF ReportOK
<1>6. CASE job.target # None
  <2>1. two \in Seq(Entries)
    BY <1>3 DEF First, After
  <2>2. report' = <<>> \o (two \o <<>>)
    BY <1>2, <1>4, <1>6 DEF two
  <2>3. report' = two
    BY <2>1, <2>2, ConcatEmptySeq
  <2>4. Begun(2)' /\ at' = "probing"
    BY <1>3, <1>6, <2>3 DEF LookAtClipboard, Goes, Begun
  <2> QED
    BY <1>1, <2>4 DEF ReportOK
<1> QED
  BY <1>5, <1>6

LEMMA NotProbedReports ==
  ASSUME ReportOK, NotProbed
  PROVE  ReportOK'
<1>1. First(report, 2) /\ job' = job /\ job.kind = "doctor" /\ at' = "typing"
  BY DEF NotProbed, ReportOK, Goes, Begun
<1>2. report' = report \o Lines(Remote, "fail")
  BY DEF NotProbed, Says, Unprobed
<1>3. First(report \o Lines(Remote, "fail"), 9)
  BY <1>1, TheSeven, SaysNext
<1>4. Begun(9)'
  BY <1>2, <1>3 DEF Begun
<1> QED
  BY <1>1, <1>4 DEF ReportOK

\* What the probe leaves for the next steps, and what the doctor knew before.
Marks == {"pass", "fail", "warn"}
ProbeOK ==
  /\ config \in {"none", "fine", "odd", "broken"}
  /\ at # "idle" /\ job.kind = "doctor" => job.config \in {"none", "fine", "odd", "broken"}
  /\ at = "resolving" => job.sftp \in Marks

LEMMA ResolvedReports ==
  ASSUME ReportOK, ProbeOK, Resolved
  PROVE  ReportOK'
<1>1. First(report, 2) /\ job' = job /\ job.kind = "doctor" /\ at' = "inbox"
  BY DEF Resolved, ReportOK, Goes, Begun
<1> DEFINE ssh == IF job.connection = <<"warn", "warn", "warn">> THEN "fail" ELSE "pass"
<1>2. PICK resolution \in {"pass", "fail"} :
        report' = report \o <<Line("ssh client", ssh), Line("host resolution", resolution),
                              Line("authentication", Authentication),
                              Line("sftp subsystem", job.sftp)>>
  BY DEF Resolved, Says
<1>3. ssh \in Marks /\ resolution \in Marks /\ Authentication \in Marks /\ job.sftp \in Marks
  BY DEF ProbeOK, Resolved, Authentication, Marks
<1> HIDE DEF ssh
<1> DEFINE e == Line("ssh client", ssh)
<1> DEFINE f == Line("host resolution", resolution)
<1> DEFINE g == Line("authentication", Authentication)
<1> DEFINE h == Line("sftp subsystem", job.sftp)
<1>4. /\ "ssh client" \in Labels /\ "host resolution" \in Labels
      /\ "authentication" \in Labels /\ "sftp subsystem" \in Labels
  BY DEF Labels
<1>5. /\ e \in Entries /\ f \in Entries /\ g \in Entries /\ h \in Entries
      /\ e.name = "ssh client" /\ f.name = "host resolution"
      /\ g.name = "authentication" /\ h.name = "sftp subsystem"
  BY <1>3, <1>4, LineIs DEF Marks
<1>6. report' = report \o <<e, f, g, h>>
  BY <1>2
<1> HIDE DEF e, f, g, h
<1>7. 2 + 1 = 3 /\ 2 + 2 = 4 /\ 2 + 3 = 5 /\ 2 + 4 = 6
  OBVIOUS
<1>8. e.name = All[2 + 1] /\ f.name = All[2 + 2] /\ g.name = All[2 + 3] /\ h.name = All[2 + 4]
  BY <1>5, <1>7, ByNumber
<1>9. Following(2, <<e, f, g, h>>, 4)
  BY <1>5, <1>8, FourAfter
<1>10. First(report \o <<e, f, g, h>>, 6)
  BY <1>1, <1>9, SaysNext
<1>11. Begun(6)'
  BY <1>6, <1>10 DEF Begun
<1> QED
  BY <1>1, <1>11 DEF ReportOK

LEMMA TheThree ==
  ASSUME NEW status \in {"pass", "fail", "warn"}
  PROVE  Following(6, Lines(<<"remote home", "inbox permissions", "upload and cleanup">>, status), 3)
<1> DEFINE names == <<"remote home", "inbox permissions", "upload and cleanup">>
<1> DEFINE lines == Lines(names, status)
<1>1. names \in Seq(Labels) /\ Len(names) = 3
  BY DEF Labels
<1>2. names[1] = "remote home" /\ names[2] = "inbox permissions" /\ names[3] = "upload and cleanup"
  OBVIOUS
<1> HIDE DEF names
<1>3. 6 + 1 = 7 /\ 6 + 2 = 8 /\ 6 + 3 = 9
  OBVIOUS
<1>4. names[1] = All[6 + 1] /\ names[2] = All[6 + 2] /\ names[3] = All[6 + 3]
  BY <1>2, <1>3, ByNumber
<1>5. /\ lines \in Seq(Entries) /\ Len(lines) = Len(names)
      /\ \A i \in 1 .. Len(names) : lines[i].name = names[i]
  BY <1>1, LinesAre
<1> HIDE DEF lines
<1>6. Len(lines) = 3 /\ \A i \in 1 .. 3 : lines[i].name = names[i]
  BY <1>1, <1>5
<1>7. ASSUME NEW i \in 1 .. 3 PROVE lines[i].name = All[6 + i]
  <2>1. i = 1 \/ i = 2 \/ i = 3
    OBVIOUS
  <2> QED
    BY <1>4, <1>6, <2>1
<1>8. Following(6, lines, 3)
  BY <1>5, <1>6, <1>7 DEF Following, After
<1> QED
  BY <1>8 DEF lines, names

LEMMA TheTwo ==
  ASSUME NEW status \in {"pass", "fail", "warn"}
  PROVE  Following(6, Lines(<<"remote home", "inbox permissions">>, status), 2)
<1> DEFINE names == <<"remote home", "inbox permissions">>
<1> DEFINE lines == Lines(names, status)
<1>1. names \in Seq(Labels) /\ Len(names) = 2
  BY DEF Labels
<1>2. names[1] = "remote home" /\ names[2] = "inbox permissions"
  OBVIOUS
<1> HIDE DEF names
<1>3. 6 + 1 = 7 /\ 6 + 2 = 8
  OBVIOUS
<1>4. names[1] = All[6 + 1] /\ names[2] = All[6 + 2]
  BY <1>2, <1>3, ByNumber
<1>5. /\ lines \in Seq(Entries) /\ Len(lines) = Len(names)
      /\ \A i \in 1 .. Len(names) : lines[i].name = names[i]
  BY <1>1, LinesAre
<1> HIDE DEF lines
<1>6. Len(lines) = 2 /\ \A i \in 1 .. 2 : lines[i].name = names[i]
  BY <1>1, <1>5
<1>7. ASSUME NEW i \in 1 .. 2 PROVE lines[i].name = All[6 + i]
  <2>1. i = 1 \/ i = 2
    OBVIOUS
  <2> QED
    BY <1>4, <1>6, <2>1
<1>8. Following(6, lines, 2)
  BY <1>5, <1>6, <1>7 DEF Following, After
<1> QED
  BY <1>8 DEF lines, names

LEMMA InboxReports ==
  ASSUME ReportOK, NoInbox \/ Inbox
  PROVE  ReportOK'
<1>1. First(report, 6) /\ job' = job /\ job.kind = "doctor"
  BY DEF NoInbox, Inbox, ReportOK, Begun
<1>2. CASE NoInbox
  <2> DEFINE lines == Lines(<<"remote home", "inbox permissions", "upload and cleanup">>, "fail")
  <2>1. Following(6, lines, 3)
    BY TheThree
  <2>2. report' = report \o lines /\ at' = "typing"
    BY <1>2 DEF NoInbox, Says, Goes
  <2> HIDE DEF lines
  <2>3. First(report \o lines, 9)
    BY <1>1, <2>1, SaysNext
  <2>4. Begun(9)'
    BY <2>2, <2>3 DEF Begun
  <2> QED
    BY <1>1, <2>2, <2>4 DEF ReportOK
<1>3. CASE Inbox
  <2> DEFINE lines == Lines(<<"remote home", "inbox permissions">>, "pass")
  <2>1. Following(6, lines, 2)
    BY TheTwo
  <2>2. report' = report \o lines /\ at' = "uploading"
    BY <1>3 DEF Inbox, Says, Goes
  <2> HIDE DEF lines
  <2>3. First(report \o lines, 8)
    BY <1>1, <2>1, SaysNext
  <2>4. Begun(8)'
    BY <2>2, <2>3 DEF Begun
  <2> QED
    BY <1>1, <2>2, <2>4 DEF ReportOK
<1> QED
  BY <1>2, <1>3

LEMMA RoundTripReports ==
  ASSUME ReportOK, RoundTrip
  PROVE  ReportOK'
<1>1. First(report, 8) /\ job' = job /\ job.kind = "doctor" /\ at' = "typing"
  BY DEF RoundTrip, ReportOK, Goes, Begun
<1>2. PICK status \in {"pass", "fail", "warn"} : report' = report \o <<Line("upload and cleanup", status)>>
  BY DEF RoundTrip, Says
<1> DEFINE e == Line("upload and cleanup", status)
<1>3. e \in Entries /\ e.name = "upload and cleanup"
  BY DEF Line, Entries, Labels
<1> HIDE DEF e
<1>4. 8 + 1 = 9
  OBVIOUS
<1>5. e.name = All[8 + 1]
  BY <1>3, <1>4, ByNumber
<1>6. Following(8, <<e>>, 1)
  BY <1>3, <1>5, OneAfter
<1>7. First(report \o <<e>>, 9)
  BY <1>1, <1>6, SaysNext
<1>8. Begun(9)'
  BY <1>2, <1>7 DEF Begun, e
<1> QED
  BY <1>1, <1>8 DEF ReportOK

LEMMA KeystrokeReports ==
  ASSUME ReportOK, KeystrokeInjection
  PROVE  ReportOK'
<1>0. job' = job /\ job.kind = "doctor" /\ at' \in {"no relay", "publishing"}
  BY DEF KeystrokeInjection, ReportOK, Goes
<1>1. First(report, 9)
  BY DEF KeystrokeInjection, ReportOK, Begun
<1>2. PICK status \in {"pass", "fail", "warn"} : report' = report \o <<Line("keystroke injection", status)>>
  BY DEF KeystrokeInjection, Says
<1> DEFINE e == Line("keystroke injection", status)
<1>3. e \in Entries /\ e.name = "keystroke injection"
  BY DEF Line, Entries, Labels
<1> HIDE DEF e
<1>4. 9 + 1 = 10
  OBVIOUS
<1>5. e.name = All[9 + 1]
  BY <1>3, <1>4, ByNumber
<1>6. Following(9, <<e>>, 1)
  BY <1>3, <1>5, OneAfter
<1>7. First(report \o <<e>>, 10)
  BY <1>1, <1>6, SaysNext
<1>8. Begun(10)'
  BY <1>2, <1>7 DEF Begun, e
<1> QED
  BY <1>0, <1>8 DEF ReportOK

LEMMA ConfigVersionReports ==
  ASSUME ReportOK, ConfigVersion, ProbeOK
  PROVE  ReportOK'
<1>1. First(report, 11) /\ at' = "idle"
  BY DEF ConfigVersion, ReportOK, Goes, Begun
<1>2. PICK status \in {"pass", "fail", "warn"} : report' = report \o <<Line("config version", status)>>
  BY DEF ConfigVersion, Says, ReportOK, ProbeOK
<1> DEFINE e == Line("config version", status)
<1>3. e \in Entries /\ e.name = "config version"
  BY DEF Line, Entries, Labels
<1> HIDE DEF e
<1>4. 11 + 1 = 12
  OBVIOUS
<1>5. e.name = All[11 + 1]
  BY <1>3, <1>4, ByNumber
<1>6. Following(11, <<e>>, 1)
  BY <1>3, <1>5, OneAfter
<1>7. First(report \o <<e>>, 12)
  BY <1>1, <1>6, SaysNext
<1>8. Begun(12)'
  BY <1>2, <1>7 DEF Begun, e
<1> QED
  BY <1>1, <1>8 DEF ReportOK

LEMMA RelayLine ==
  ASSUME Begun(10), NEW status \in {"pass", "fail", "warn"}, Says(<<Line("relay", status)>>)
  PROVE  Begun(11)'
<1>1. First(report, 10)
  BY DEF Begun
<1> DEFINE e == Line("relay", status)
<1>2. e \in Entries /\ e.name = "relay"
  BY DEF Line, Entries, Labels
<1> HIDE DEF e
<1>3. 10 + 1 = 11
  OBVIOUS
<1>4. e.name = All[10 + 1]
  BY <1>2, <1>3, ByNumber
<1>5. Following(10, <<e>>, 1)
  BY <1>2, <1>4, OneAfter
<1>6. First(report \o <<e>>, 11)
  BY <1>1, <1>5, SaysNext
<1> QED
  BY <1>6 DEF Begun, Says, e

LEMMA NoRelayReports ==
  ASSUME ReportOK, NoRelay
  PROVE  ReportOK'
<1>1. Begun(10) /\ job' = job /\ job.kind = "doctor" /\ at' = "config"
      /\ Says(<<Line("relay", "warn")>>)
  BY DEF NoRelay, ReportOK, Goes
<1>2. Begun(11)'
  BY <1>1, RelayLine
<1> QED
  BY <1>1, <1>2 DEF ReportOK

\* A verdict is a line for the doctor only.
LEMMA VerdictReports ==
  ASSUME ReportOK, at \in {"publishing", "retrieving", "revoking"}, job'.kind = job.kind,
         NEW status \in {"pass", "fail"}, Verdict(status)
  PROVE  ReportOK'
<1>1. CASE job.kind = "doctor"
  <2>1. Begun(10) /\ Says(<<Line("relay", status)>>) /\ at' = "config"
    BY <1>1 DEF ReportOK, Verdict, Goes
  <2>2. Begun(11)'
    BY <2>1, RelayLine
  <2> QED
    BY <1>1, <2>1, <2>2 DEF ReportOK
<1>2. CASE job.kind # "doctor"
  <2>1. report = <<>> /\ report' = report /\ at' \in {"saving", "asking what now"}
    BY <1>2 DEF ReportOK, Verdict, Goes, found
  <2> QED
    BY <1>2, <2>1 DEF ReportOK
<1> QED
  BY <1>1, <1>2

DoctorInv == Shape /\ ReportOK /\ ProbeOK

LEMMA InitReports == Init => DoctorInv
BY NoJobFields DEF Init, DoctorInv, Shape, ReportOK, ProbeOK, NoJob

\* Where the doctor is.
LEMMA DoctorStepReports ==
  ASSUME DoctorInv, Doctor
  PROVE  ReportOK'
<1> USE DEF DoctorInv
<1>1. CASE Probed
  <2>1. at' = "greeting" /\ report' = report /\ job'.kind = job.kind
    BY <1>1 DEF Probed, Goes, Shape, Fields
  <2> QED
    BY <1>1, <2>1 DEF Probed, ReportOK, Begun
<1>2. CASE Greeted
  <2>1. at' = "resolving" /\ report' = report /\ job'.kind = job.kind
    BY <1>2 DEF Greeted, Goes, Shape, Fields
  <2> QED
    BY <1>2, <2>1 DEF Greeted, ReportOK, Begun
<1> QED
  BY <1>1, <1>2, LookAtClipboardReports, NotProbedReports, ResolvedReports, InboxReports,
     RoundTripReports, KeystrokeReports, NoRelayReports, ConfigVersionReports DEF Doctor

LEMMA DoctorStepProbes ==
  ASSUME DoctorInv, Doctor
  PROVE  ProbeOK'
<1> USE DEF DoctorInv, Shape, Fields, ProbeOK, Goes
<1>1. CASE Probed
  BY <1>1 DEF Probed, file
<1>2. CASE Greeted
  BY <1>2 DEF Greeted, Marks, file
<1>3. CASE ConfigVersion
  BY <1>3 DEF ConfigVersion, file
<1>4. CASE Doctor /\ ~Probed /\ ~Greeted /\ ~ConfigVersion
  <2>1. job' = job /\ at' # "resolving" /\ at # "idle" /\ config' = config
    BY <1>4 DEF Doctor, LookAtClipboard, NotProbed, Resolved, NoInbox, Inbox, RoundTrip,
                KeystrokeInjection, NoRelay, file
  <2> QED
    BY <2>1
<1> QED
  BY <1>1, <1>2, <1>3, <1>4

LEMMA ProbeRelayReports ==
  ASSUME DoctorInv, ProbeRelay
  PROVE  ReportOK' /\ ProbeOK'
<1>1. at \in {"publishing", "retrieving", "revoking"} /\ config' = config
  BY DEF ProbeRelay, Publish, NotPublished, Retrieve, NotRetrieved, Revoke, file
<1>2. job'.kind = job.kind /\ job'.config = job.config
  BY DEF ProbeRelay, Publish, NotPublished, Retrieve, NotRetrieved, Revoke, DoctorInv, Shape,
         Fields
<1>3. \/ \E status \in {"pass", "fail"} : Verdict(status)
      \/ at' \in {"retrieving", "revoking"} /\ report' = report
  BY DEF ProbeRelay, Publish, NotPublished, Retrieve, NotRetrieved, Revoke, AfterMiss, Goes, found
<1>4. CASE \E status \in {"pass", "fail"} : Verdict(status)
  <2>1. at' # "resolving"
    BY <1>4, VerdictGoes
  <2> QED
    BY <1>1, <1>2, <1>4, <2>1, VerdictReports DEF DoctorInv, ProbeOK
<1>5. CASE at' \in {"retrieving", "revoking"} /\ report' = report
  BY <1>1, <1>2, <1>5 DEF DoctorInv, ReportOK, ProbeOK, Begun
<1> QED
  BY <1>3, <1>4, <1>5

LEMMA SetupReports ==
  ASSUME DoctorInv, Setup
  PROVE  ReportOK' /\ ProbeOK'
<1>1. /\ at \in {"asking", "asking what now", "saving", "choosing a key", "registering"}
      /\ at' \in {"idle", "publishing", "asking", "asking what now", "saving", "choosing a key",
                  "registering"}
      /\ report' = report
  BY DEF Setup, Enter, Skip, TryAgain, SaveAnyway, Different, EnterDifferent, Save, ChooseKey,
         Register, NotRegistered, Goes, found
<1>2. job.kind # "doctor" /\ report = <<>>
  BY <1>1 DEF DoctorInv, ReportOK
<1>3. job'.kind = job.kind \/ (at' = "idle" /\ job' = NoJob)
  BY DEF Setup, Enter, Skip, TryAgain, SaveAnyway, Different, Save, ChooseKey, Register,
         NotRegistered, Goes, DoctorInv, Shape, Fields
<1>4. config' \in {config, "fine"}
  BY DEF Setup, Enter, Skip, TryAgain, SaveAnyway, Different, Save, ChooseKey, Register,
         NotRegistered, file
<1> QED
  BY <1>1, <1>2, <1>3, <1>4 DEF ReportOK, ProbeOK, DoctorInv

LEMMA BeginReports ==
  ASSUME DoctorInv,
         \/ \E requested \in Targets \cup {None} : BeginDoctor(requested)
         \/ \E sender \in BOOLEAN : BeginSetup(sender)
  PROVE  ReportOK' /\ ProbeOK' /\ DOMAIN job' = Fields
<1>1. ASSUME NEW requested \in Targets \cup {None}, BeginDoctor(requested)
      PROVE  ReportOK' /\ ProbeOK' /\ DOMAIN job' = Fields
  <2>1. DOMAIN job' = Fields /\ job'.kind = "doctor" /\ job'.config = config
    BY <1>1, NoJobFields DEF BeginDoctor, Fields
  <2>2. at' = "clipboard" /\ report' = <<>> /\ config' = config
    BY <1>1 DEF BeginDoctor, Goes, file
  <2>3. Begun(0)'
    BY <2>2 DEF Begun, First, After
  <2> QED
    BY <2>1, <2>2, <2>3 DEF ReportOK, ProbeOK, DoctorInv
<1>2. ASSUME NEW sender \in BOOLEAN, BeginSetup(sender)
      PROVE  ReportOK' /\ ProbeOK' /\ DOMAIN job' = Fields
  <2>1. DOMAIN job' = Fields /\ job'.kind = "setup"
    BY <1>2, NoJobFields DEF BeginSetup, Fields
  <2>2. at' \in {"publishing", "asking"} /\ report' = <<>> /\ config' = config
    BY <1>2 DEF BeginSetup, Goes, file
  <2> QED
    BY <2>1, <2>2 DEF ReportOK, ProbeOK, DoctorInv
<1> QED
  BY <1>1, <1>2

\* IInv is needed for its Shape only.
LEMMA NextReports ==
  ASSUME IInv, DoctorInv, [Next]_vars
  PROVE  DoctorInv'
<1>1. Shape'
  BY NextKeeps DEF IInv
<1>2. CASE Changes
  BY <1>1, <1>2 DEF Changes, DoctorInv, ReportOK, ProbeOK, Begun, found, file
<1>3. CASE Killed
  BY <1>1, <1>3 DEF Killed, DoctorInv, ReportOK, ProbeOK, Goes, file
<1>4. CASE UNCHANGED vars
  <2>1. at' = at /\ job' = job /\ report' = report /\ config' = config
    BY <1>4 DEF vars, found, file
  <2>2. ReportOK'
    BY ZenonT(30), <2>1 DEF DoctorInv, ReportOK, Begun, First, After
  <2>3. ProbeOK'
    BY <2>1 DEF DoctorInv, ProbeOK
  <2> QED
    BY <1>1, <2>2, <2>3 DEF DoctorInv
<1> QED
  BY <1>1, <1>2, <1>3, <1>4, DoctorStepReports, DoctorStepProbes, ProbeRelayReports,
     SetupReports, BeginReports DEF Next, DoctorInv

\* A finished report has each of the twelve lines once, in order, whatever
\* failed, hung or changed on the way (doctor.rs, run).
THEOREM EveryCheckAlwaysOnce == Spec => []EveryCheckOnce
<1>1. ASSUME ReportOK PROVE EveryCheckOnce
  <2>1. SUFFICES ASSUME First(report, 12)
                 PROVE  [i \in DOMAIN report |-> report[i].name] = All
    BY <1>1 DEF ReportOK, EveryCheckOnce, Begun
  <2>2. report \in Seq(Entries) /\ Len(report) = 12 /\ \A i \in 1 .. 12 : report[i].name = All[0 + i]
    BY <2>1 DEF First, After
  <2>3. DOMAIN report = 1 .. 12
    BY <2>2
  <2>4. All \in Seq(Labels) /\ Len(All) = 12
    BY TheTwelve
  <2>5. DOMAIN All = 1 .. 12 /\ All = [i \in 1 .. 12 |-> All[i]]
    BY <2>4
  <2>6. \A i \in 1 .. 12 : report[i].name = All[i]
    BY <2>2
  <2> QED
    BY <2>3, <2>5, <2>6
<1>2. DoctorInv => EveryCheckOnce
  BY <1>1 DEF DoctorInv
<1> QED
  BY <1>2, Invariance, InitReports, NextReports, PTL DEF Spec
=============================================================================
