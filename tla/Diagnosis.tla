------------------------------ MODULE Diagnosis ------------------------------
(***************************************************************************)
(* Looking before trusting: `clift doctor` (diagnostics/doctor.rs,          *)
(* cmd/doctor.rs, clift-transport/src/probe.rs) and the first-time setup,   *)
(* which saves a relay only after the same round trip through it and        *)
(* starts the key of the user's choice at login (cmd/first_run.rs). What    *)
(* they look at changes under them: a host comes and goes between two       *)
(* checks, a relay loses requests and answers.                              *)
(***************************************************************************)
EXTENDS Naturals, Sequences, FiniteSetsExt

CONSTANTS Targets,    \* aliases, as numbers in their order, all on one SSH host
          Addresses,  \* relays, as RelaySettings::new leaves their addresses
          Objects,    \* what the probes leave with a relay
          Keys,       \* key combinations, the default among them
          MaxChanges, MaxRuns,
          None

ASSUME DiagnosisAssumption ==
  /\ Targets \subseteq Nat /\ IsFiniteSet(Targets)
  /\ MaxChanges \in Nat /\ MaxRuns \in Nat
  /\ None \notin Targets \cup Addresses \cup Objects

VARIABLES
  client,     \* an OpenSSH client is installed
  host,       \* how the SSH host answers
  config,     \* "none", "fine", "odd" or "broken": what config.toml is
  url,        \* the relay.url in it
  known, default,  \* the targets in it
  hotkey,     \* the combination in it, or the default one
  login,      \* the combination the login entry was started with
  env,        \* CLIFT_RELAY_URL: None, an address, or "bad"
  objects,    \* object -> "unused", "held" by a relay, or "gone"
  at, job,    \* where the command is, and with what
  report,     \* the lines of the doctor's report so far
  examined,   \* checks whose subject was really looked at in this run
  vouched,    \* addresses of this conversation that worked or were insisted on
  excused,    \* objects nobody could have taken back
  changes, runs

file == <<config, url, known, default, hotkey>>
world == <<client, host, env, changes>>
found == <<report, examined>>
vars == <<world, file, login, objects, at, job, found, vouched, excused, runs>>

\* CheckName::ALL, in report order.
Remote == <<"ssh client", "host resolution", "authentication", "sftp subsystem",
            "remote home", "inbox permissions", "upload and cleanup">>
All == <<"platform", "clipboard">> \o Remote \o <<"keystroke injection", "relay", "config version">>

Elements == {All[i] : i \in DOMAIN All}
Line(name, status) == [name |-> name, status |-> status]
Lines(names, status) == [i \in DOMAIN names |-> Line(names[i], status)]

NoJob == [kind |-> None, target |-> None, dir |-> None, relay |-> None, config |-> None,
          connection |-> None, sftp |-> None, object |-> None, sender |-> FALSE, key |-> None]

Answers == {"up", "no sftp", "refusing", "unknown key", "unreachable", "silent"}

Init ==
  /\ client = TRUE /\ host = "up"
  /\ config \in {"none", "fine", "odd", "broken"}
  /\ url \in Addresses \cup {None} /\ known \in SUBSET Targets
  /\ default \in known \cup {None}
  /\ config = "none" => url = None /\ known = {}
  /\ hotkey \in Keys /\ login = None
  /\ env \in Addresses \cup {None, "bad"}
  /\ objects = [o \in Objects |-> "unused"]
  /\ at = "idle" /\ job = NoJob
  /\ report = <<>> /\ examined = {} /\ vouched = {} /\ excused = {}
  /\ changes = 0 /\ runs = 0

TypeOK ==
  /\ client \in BOOLEAN /\ host \in Answers
  /\ config \in {"none", "fine", "odd", "broken"} /\ url \in Addresses \cup {None}
  /\ known \subseteq Targets /\ default \in known \cup {None}
  /\ hotkey \in Keys /\ login \in Keys \cup {None}
  /\ env \in Addresses \cup {None, "bad"}
  /\ objects \in [Objects -> {"unused", "held", "gone"}]
  /\ job.kind \in {None, "doctor", "setup"} /\ job.object \in Objects \cup {None}
  /\ job.relay \in Addresses \cup {None} /\ job.key \in Keys \cup {None}
  /\ \A i \in DOMAIN report : report[i] \in [name : Elements, status : {"pass", "fail", "warn"}]
  /\ examined \subseteq Elements /\ vouched \subseteq Addresses /\ excused \subseteq Objects
  /\ changes \in 0..MaxChanges /\ runs \in 0..MaxRuns

Goes(place) == at' = place
Says(lines) == report' = report \o lines
Looked(names) == examined' = examined \cup names

\* The host, or the way to it, changes at any time before its last check.
Changes ==
  /\ changes < MaxChanges
  /\ at \in {"clipboard", "probing", "greeting", "resolving", "inbox", "uploading"}
  /\ host' \in {"up", "unreachable", "silent"} \ {host}
  /\ changes' = changes + 1
  /\ UNCHANGED <<client, env, file, login, objects, at, job, found, vouched, excused, runs>>

-----------------------------------------------------------------------------
(* What a command knows before it starts.                                   *)

Loads == config # "broken"

\* The environment beats the file; a relay that cannot be used is none.
Configured == env # None \/ (Loads /\ url # None)
Settings == IF env # None THEN (IF env \in Addresses THEN env ELSE None)
            ELSE IF Loads THEN url ELSE None

\* The inbox that is looked at is the one of the first target on that host.
InboxOf(target) == IF Loads /\ target \in known THEN Min(known) ELSE None

BeginDoctor(requested) ==
  /\ at = "idle" /\ runs < MaxRuns
  /\ runs' = runs + 1
  /\ Loads => requested \in known \cup {None}   \* an unknown target is refused
  /\ LET target == IF requested = None /\ Loads THEN default ELSE requested IN
       job' = [NoJob EXCEPT !.kind = "doctor", !.target = target, !.dir = InboxOf(target),
                            !.relay = Settings, !.config = config]
  /\ Goes("clipboard")
  /\ report' = <<>> /\ examined' = {}
  /\ client' \in BOOLEAN /\ host' \in Answers   \* as they have become
  /\ UNCHANGED <<env, changes, file, login, objects, vouched, excused>>

LookAtClipboard ==
  /\ at = "clipboard"
  /\ \E status \in {"pass", "fail", "warn"} :
       /\ Says(<<Line("platform", "pass"), Line("clipboard", status)>>
               \o IF job.target = None THEN Lines(Remote, "warn") ELSE <<>>)
       /\ Looked({"platform"} \cup IF status = "warn" THEN {} ELSE {"clipboard"})
  /\ Goes(IF job.target = None THEN "typing" ELSE "probing")
  /\ UNCHANGED <<world, file, login, objects, job, vouched, excused, runs>>

-----------------------------------------------------------------------------
(* The probe of the host (probe.rs), and the lines made of it.              *)

\* What one `ssh <host> true` proves: connection, host key, authentication.
Connection ==
  CASE ~client -> <<"warn", "warn", "warn">>
    [] client /\ host \in {"up", "no sftp"} -> <<"pass", "pass", "pass">>
    [] client /\ host = "refusing" -> <<"pass", "pass", "fail">>
    [] client /\ host = "unknown key" -> <<"pass", "fail", "warn">>
    [] client /\ host = "unreachable" -> <<"fail", "warn", "warn">>

\* A command that is not answered in time is no answer: the probe fails.
Unprobed_Short == Lines(SubSeq(Remote, 1, 6), "fail")
Unprobed == Lines(Remote, "fail")

NotProbed ==
  /\ at = "probing" /\ client /\ host = "silent"
  /\ Says(Unprobed)
  /\ Goes("typing")
  /\ UNCHANGED <<world, file, login, objects, job, examined, vouched, excused, runs>>

Probed ==
  /\ at = "probing" /\ (client => host # "silent")
  /\ job' = [job EXCEPT !.connection = Connection]
  /\ Looked({"ssh client"} \cup IF client THEN {"authentication"} ELSE {})
  /\ Goes("greeting")
  /\ UNCHANGED <<world, file, login, objects, report, vouched, excused, runs>>

\* The SFTP subsystem is asked for only after a login.
Greeted ==
  /\ at = "greeting"
  /\ IF job.connection = <<"pass", "pass", "pass">>
       THEN /\ job' = [job EXCEPT !.sftp = IF host = "up" THEN "pass" ELSE "fail"]
            /\ Looked({"sftp subsystem"})
       ELSE job' = [job EXCEPT !.sftp = "warn"] /\ UNCHANGED examined
  /\ Goes("resolving")
  /\ UNCHANGED <<world, file, login, objects, report, vouched, excused, runs>>

\* Any of the three that failed.
Authentication == IF \E i \in 1..3 : job.connection[i] = "fail" THEN "fail" ELSE "pass"

\* ssh -G on the alias.
Resolved ==
  /\ at = "resolving"
  /\ LET missing == job.connection = <<"warn", "warn", "warn">> IN
     \E resolution \in (IF client THEN {"pass", "fail"} ELSE {"fail"}) :
       Says(<<Line("ssh client", IF missing THEN "fail" ELSE "pass"),
              Line("host resolution", resolution),
              Line("authentication", Authentication),
              Line("sftp subsystem", job.sftp)>>)
  /\ Looked({"host resolution"})
  /\ Goes("inbox")
  /\ UNCHANGED <<world, file, login, objects, job, vouched, excused, runs>>

\* ensure_inbox. Without a target in the file the inbox is the usual one.
Usable == client /\ host = "up"

NoInbox ==   \* out of reach, or the server refuses a step
  /\ at = "inbox"
  /\ Says(Lines(<<"remote home", "inbox permissions", "upload and cleanup">>, "fail"))
  /\ Goes("typing")
  /\ UNCHANGED <<world, file, login, objects, job, examined, vouched, excused, runs>>

Inbox ==
  /\ at = "inbox" /\ Usable
  /\ Says(Lines(<<"remote home", "inbox permissions">>, "pass"))
  /\ Looked({"remote home", "inbox permissions"})
  /\ Goes("uploading")
  /\ UNCHANGED <<world, file, login, objects, job, vouched, excused, runs>>

\* verify_round_trip (RemoteDirs).
RoundTrip ==
  /\ at = "uploading"
  /\ \E status \in (IF Usable THEN {"pass", "fail"} ELSE {"fail"}) :
       Says(<<Line("upload and cleanup", status)>>)
  /\ Looked({"upload and cleanup"})
  /\ Goes("typing")
  /\ UNCHANGED <<world, file, login, objects, job, vouched, excused, runs>>

\* The permission, and whether the login entry starts the binary that has it.
KeystrokeInjection ==
  /\ at = "typing"
  /\ \E status \in {"pass", "warn"} : Says(<<Line("keystroke injection", status)>>)
  /\ Looked({"keystroke injection"})
  /\ Goes(IF job.relay = None THEN "no relay" ELSE "publishing")
  /\ UNCHANGED <<world, file, login, objects, job, vouched, excused, runs>>

NoRelay ==
  /\ at = "no relay"
  /\ Says(<<Line("relay", "warn")>>)
  /\ Goes("config")
  /\ UNCHANGED <<world, file, login, objects, job, examined, vouched, excused, runs>>

ConfigVersion ==
  /\ at = "config"
  /\ Says(<<Line("config version", CASE job.config = "broken" -> "fail"
                                     [] job.config \in {"none", "odd"} -> "warn"
                                     [] job.config = "fine" -> "pass")>>)
  /\ Looked({"config version"})
  /\ Goes("idle") /\ job' = NoJob
  /\ UNCHANGED <<world, file, login, objects, vouched, excused, runs>>

-----------------------------------------------------------------------------
(* probe_relay: seal, leave it there, take it back, compare.                *)

\* The doctor writes the line and goes on, the conversation goes by it.
Verdict(status) ==
  IF job.kind = "doctor"
  THEN Says(<<Line("relay", status)>>) /\ Looked({"relay"}) /\ Goes("config")
       /\ UNCHANGED vouched
  ELSE /\ Goes(IF status = "pass" THEN "saving" ELSE "asking what now")
       /\ vouched' = IF status = "pass" THEN vouched \cup {job.relay} ELSE vouched
       /\ UNCHANGED found

Publish(o) ==
  /\ at = "publishing" /\ objects[o] = "unused"
  /\ objects' = [objects EXCEPT ![o] = "held"]
  /\ job' = [job EXCEPT !.object = o]
  /\ \/ Goes("retrieving") /\ UNCHANGED <<found, vouched, excused>>
     \/ excused' = excused \cup {o} /\ Verdict("fail")   \* the answer is lost
  /\ UNCHANGED <<world, file, login, runs>>

NotPublished ==
  /\ at = "publishing"
  /\ Verdict("fail")
  /\ UNCHANGED <<world, file, login, objects, job, excused, runs>>

\* Taken, and what came back opens to what was sealed, or does not.
Retrieve ==
  /\ at = "retrieving" /\ objects[job.object] = "held"
  /\ objects' = [objects EXCEPT ![job.object] = "gone"]
  /\ \/ \E status \in {"pass", "fail"} : Verdict(status)
     \/ Goes("revoking") /\ UNCHANGED <<found, vouched>>   \* the answer is lost
  /\ UNCHANGED <<world, file, login, job, excused, runs>>

AfterMiss_Report == Verdict("fail")
AfterMiss == Goes("revoking") /\ UNCHANGED <<found, vouched>>

NotRetrieved ==
  /\ at = "retrieving"
  /\ AfterMiss
  /\ UNCHANGED <<world, file, login, objects, job, excused, runs>>

\* Best effort.
Revoke ==
  /\ at = "revoking"
  /\ \/ objects' = [objects EXCEPT ![job.object] = "gone"] /\ UNCHANGED excused
     \/ excused' = excused \cup {job.object} /\ UNCHANGED objects
  /\ Verdict("fail")
  /\ UNCHANGED <<world, file, login, job, runs>>

-----------------------------------------------------------------------------
(* The conversation about the relay (first_run.rs, relay).                  *)

\* On the machine one pastes from, or on a server. configured_relay reads the
\* file, and the environment through it.
BeginSetup(sender) ==
  /\ at = "idle" /\ runs < MaxRuns
  /\ runs' = runs + 1
  /\ report' = <<>> /\ examined' = {} /\ vouched' = {}
  /\ LET candidate == IF Loads THEN Settings ELSE None IN
       \/ /\ candidate # None   \* kept
          /\ job' = [NoJob EXCEPT !.kind = "setup", !.sender = sender, !.relay = candidate]
          /\ Goes("publishing")
       \/ job' = [NoJob EXCEPT !.kind = "setup", !.sender = sender] /\ Goes("asking")
  /\ UNCHANGED <<world, file, login, objects, excused>>

\* An address that cannot be one is asked for again.
Enter(address) ==
  /\ at = "asking"
  /\ job' = [job EXCEPT !.relay = address]
  /\ Goes("publishing")
  /\ UNCHANGED <<world, file, login, objects, found, vouched, excused, runs>>

Skip ==
  /\ at \in {"asking", "asking what now"}
  /\ Goes("idle") /\ job' = NoJob
  /\ UNCHANGED <<world, file, login, objects, found, vouched, excused, runs>>

TryAgain ==
  /\ at = "asking what now" /\ Goes("publishing")
  /\ UNCHANGED <<world, file, login, objects, job, found, vouched, excused, runs>>

SaveAnyway ==
  /\ at = "asking what now" /\ Goes("saving")
  /\ vouched' = vouched \cup {job.relay}
  /\ UNCHANGED <<world, file, login, objects, job, found, excused, runs>>

EnterDifferent_Keep == "saving"
EnterDifferent == "asking"

Different ==
  /\ at = "asking what now" /\ Goes(EnterDifferent)
  /\ UNCHANGED <<world, file, login, objects, job, found, vouched, excused, runs>>

\* write_key: a file that does not parse is not written, and nothing follows.
Save ==
  /\ at = "saving"
  /\ IF Loads THEN /\ url' = job.relay
                   /\ config' = IF config = "none" THEN "fine" ELSE config
     ELSE UNCHANGED <<url, config>>
  /\ IF Loads /\ job.sender THEN Goes("choosing a key") /\ UNCHANGED job
     ELSE Goes("idle") /\ job' = NoJob
  /\ UNCHANGED <<world, known, default, hotkey, login, objects, found, vouched, excused, runs>>

\* The combination is written before the entry that reads it; Enter keeps the
\* one there is, and what is no combination is asked for again.
KeyWritten_Later(key) == hotkey
KeyWritten(key) == key

ChooseKey(key) ==
  /\ at = "choosing a key"
  /\ hotkey' = KeyWritten(key)
  /\ job' = [job EXCEPT !.key = key]
  /\ Goes("registering")
  /\ UNCHANGED <<world, config, url, known, default, login, objects, found, vouched, excused, runs>>

\* clift hotkey --install reads the file.
Register ==
  /\ at = "registering"
  /\ login' = hotkey
  /\ Goes("idle") /\ job' = NoJob
  /\ UNCHANGED <<world, file, objects, found, vouched, excused, runs>>

NotRegistered ==   \* declined, not available here, or failed
  /\ at = "registering"
  /\ Goes("idle") /\ job' = NoJob
  /\ UNCHANGED <<world, file, login, objects, found, vouched, excused, runs>>

\* Ctrl+C, or the end of the input.
Killed ==
  /\ at # "idle"
  /\ Goes("idle") /\ job' = NoJob
  /\ report' = <<>> /\ examined' = {}
  /\ excused' = excused \cup {o \in Objects : objects[o] = "held" /\ job.object = o}
  /\ UNCHANGED <<world, file, login, objects, vouched, runs>>

-----------------------------------------------------------------------------
Doctor ==
  \/ LookAtClipboard \/ NotProbed \/ Probed \/ Greeted \/ Resolved \/ NoInbox \/ Inbox
  \/ RoundTrip \/ KeystrokeInjection \/ NoRelay \/ ConfigVersion
ProbeRelay ==
  \/ (\E o \in Objects : Publish(o)) \/ NotPublished \/ Retrieve \/ NotRetrieved \/ Revoke
Setup ==
  \/ (\E address \in Addresses : Enter(address)) \/ Skip \/ TryAgain \/ SaveAnyway \/ Different
  \/ Save \/ (\E key \in Keys : ChooseKey(key)) \/ Register \/ NotRegistered

Next ==
  \/ \E requested \in Targets \cup {None} : BeginDoctor(requested)
  \/ \E sender \in BOOLEAN : BeginSetup(sender)
  \/ Doctor \/ ProbeRelay \/ Setup \/ Changes \/ Killed

Spec == Init /\ [][Next]_vars

-----------------------------------------------------------------------------
\* No check stops another: whatever fails, hangs or changes half way, a report
\* that is finished has each of the twelve lines once (doctor.rs:3).
EveryCheckOnce ==
  at = "idle" /\ report # <<>> => [i \in DOMAIN report |-> report[i].name] = All

\* No probe leaves an object with a relay, unless nobody could have taken it
\* back: its id never arrived, the revocation failed, or the process died.
ProbesLeaveNothing ==
  \A o \in Objects : objects[o] = "held" =>
    o \in excused \/ (at \in {"retrieving", "revoking"} /\ job.object = o)

\* "Nothing is written until it has been checked" (first_run.rs), or until the
\* user has insisted on this very address.
SavedOnlyChecked == [][url' # url => url' \in vouched]_vars

\* The login entry starts the combination the user has just chosen and is then
\* told to press (first_run.rs: the order in which the two are written is the
\* order in which they take effect).
RegisteredAsChosen == [][login' # login => login' = job.key]_vars

\* "Reporting `Pass` for something that was never examined would be a lie"
\* (doctor.rs:12).
PassExamined == \A i \in DOMAIN report : report[i].status = "pass" => report[i].name \in examined

\* The inbox that is looked at is the one of the target that was asked for.
ChecksAskedTarget == at = "uploading" => job.dir \in {None, job.target}

=============================================================================
