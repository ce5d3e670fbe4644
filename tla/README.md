# Clift, specified

TLA+ models of [Clift](../src/README.md), a tool that puts files from a laptop's
clipboard where a command-line agent can read them: on an SSH server (Fast Mode,
over SFTP) or anywhere at all through an end-to-end encrypted relay (Universal
Mode). The modules are translated from the Rust sources under `../src`; TLC
checks them on small instances and TLAPS proves the properties that matter most
for every value of the constants.

    tlc -config relayd.cfg Relayd          tlapm RelaydProofs.tla
    tlc -config staging.cfg MCStaging      tlapm StagingProofs.tla
    tlc -config cloudrelay.cfg CloudRelay  tlapm CloudRelayProofs.tla
    tlc -config universal.cfg MCUniversal  tlapm UniversalProofs.tla
    tlc -config sftp.cfg SftpSession       tlapm TransportProofs.tla
    tlc -config sessions.cfg SessionPool   (in TransportProofs)
    tlc -config dirs.cfg MCRemoteDirs      (in StagingProofs)
    tlc -config settings.cfg MCSettings    tlapm SettingsProofs.tla
    tlc -config helper.cfg Helper          (in HotkeyProofs)
    tlc -config paste.cfg MCPaste          tlapm HotkeyProofs.tla
    tlc -config diagnosis.cfg MCDiagnosis  tlapm DiagnosisProofs.tla

Every invariant and every action property that a run checks is also a theorem
here, and so are the refinements; what stays with TLC are the five liveness
properties and the counterexamples. Section 14 collects what is assumed and what
cannot be proved.

`PROJECT.json` maps every definition to the lines it models and lists the runs,
the mutants (a plausible bug for every property, which TLC must find), the
findings, the hazards and the theorems. Eleven more configurations each end in a
counterexample, to a claim of a comment, a document or a test, or to a property
one might expect; the sections below say which and why (`relayd_total`,
`relayd_withdrawn`, `relayd_lost`, `staging_purged`, `staging_interrupted`,
`universal_restored`, `universal_unprinted`, `sessions_stale`, `helper_removed`,
`paste_typed`, and `diagnosis_pass`, the run `doctor_pass`).

## 1. The system and its parts

| Part | Where | State it keeps | Operations | Status |
|---|---|---|---|---|
| Self-hosted relay | `clift-relayd`: `main`, `server`, `store`, `ratelimit` | one `Mutex<HashMap<id, Object>>`, one `Mutex<HashMap<ip, Window>>`, locals of the worker threads | `POST`, `GET`, `DELETE`, health, sweep, restart | modelled, proved |
| Remote staging | `usecase/send`, `staging/batch`, `staging/atomic`, `upload.rs` | a batch directory on the host; `staged` in the sender | create the batch, upload each file, discard | modelled, proved |
| Cleanup of the inbox | `staging/clean`, `cmd/clean` | a listing, the report | list, remove by age or all, dry run | partly |
| Remote directories | `fsops.rs`, `staging/selfcheck` | directories and modes on the host | mkdir of missing levels, settle the mode, list, remove, self-check | modelled but for listings, proved |
| SFTP session | `session.rs`, `wire.rs` | request ids, early answers, deadline, broken or not | upload, rename, remove, list, read back | uploads and single requests modelled, proved |
| Session pool | `proc.rs`, `reuse.rs` | kept sessions per target, remembered cache homes | open, reuse, tend, drop | modelled, proved |
| Hosted relay | `relay/cloudflare/src/index.ts` | a SQL table and one alarm in a Durable Object | the same HTTP interface, alarm | modelled, proved |
| Relay client, Universal Mode | `clift-relay`, `usecase/publish`, `usecase/fetch`, `universal/*`, `cmd/universal`, `cmd/fetch` | a token | seal, publish, deliver, fetch, withdraw | modelled but for the formats, proved |
| Local inbox | `staging/inbox`, `staging/local` | a batch directory on this machine | write a batch atomically | the write modelled, proved |
| Configuration file | `config/*`, `usecase/setup`, `usecase/target`, `cmd/config` | one TOML file | load, migrate, change, save by rename, purge | modelled, proved |
| Scratch files | `runtime.rs` | a set of live paths, a signal thread | create, drop, remove all | modelled, proved |
| Names, limits, units | `domain/safe_name`, `domain/limits`, `config/units` | none | pure functions | not modelled |
| Paste, send, hotkey | `cmd/paste`, `cmd/send`, `cmd/hotkey`, `usecase/source` | one key press at a time | clipboard to insertion | modelled but for prompts, proved |
| Clipboard, injection | `clift-clipboard`, `clift-inject` | the desktop's clipboard; a login entry, an event, a queue | read, write, type; install, stop, wait for the key | modelled as far as order and failure go, proved |
| Doctor, first run | `diagnostics`, `probe.rs`, `cmd/doctor`, `cmd/first_run` | a report; a conversation | twelve checks; relay and key | modelled but for wording, proved |

How they interact. A *send* (`perform`) checks its limits, asks the host where
the inbox is, creates `inbox/<date>/<random id>/`, uploads every file under a
temporary name, renames it into place, and only then formats the paths that are
pasted. It talks to the host through `SshRunner::sftp`, which opens a session or
takes a kept one; a session is given up for good as soon as one answer does not
come in time. A *cleanup* (`clift clean`, or the tidy-up after a send) works in
the same directories in another process, with nothing shared but the host's file
system. In Universal Mode a *publish* seals the files under a fresh key, stores
the ciphertext on a relay and delivers a token with the id and the key; a
*fetch* consumes the object, opens it and writes a local batch. The two relays
implement one HTTP contract and share no code.

What is hard, part by part, and what makes the part correct:

* **Relay.** Eight worker threads and a sweeper share the store, and one `GET`
  takes the lock three times: to read the expiry, to take the object, and to
  put it back when the response could not be written. Everything can happen in
  between: another `GET` of the same id, a `DELETE`, a sweep, the deadline, a
  restart. Correct means: one delivery at most, no copy left behind or brought
  back, a put-back object keeps the deadline it was published with, nothing is
  served late, memory is bounded, an idle relay forgets.
* **Hosted relay.** One event at a time, except where `publish` awaits: bodies
  are read side by side, and the object may be evicted between the insertion of
  a row and the alarm that is to remove it. Correct means what it means for the
  daemon, and that one alarm covers objects of many lifetimes.
* **Staging.** Every request may be refused, lost, or executed with its answer
  lost; the process may be killed between any two; a cleanup may list the
  directory at any point and act on that listing later, by a clock of its own.
  Correct means: no path is handed out before every file is complete and in
  place, no half file under a final name, a failed send leaves nothing, a
  cleanup by age keeps its hands off live batches and young ones, a report of a
  removal is true.
* **Session.** Pipelined writes, answers that arrive early or late, deadlines.
  Correct means: every answer goes to its request, nothing is left over between
  operations, and what is said of an upload is so.
* **Pool.** A kept session looks usable and is dead; a thread that looks after
  sessions shares one lock with the operations that use them. Correct means: a
  dead one is found before long, an unused one is closed, and none is taken away
  from an operation that uses it.
* **Directories.** Two first sends of a day make the same directories; some
  servers ignore the mode that `mkdir` asks for. Correct means: private when
  done, no client fails because of another, what the user made is not touched.
* **Universal Mode.** A publish whose answer is lost, a token whose delivery
  fails, a withdrawal that meets a `GET` under way, a fetch that consumed the
  object and then fails locally.
* **Configuration.** Processes load, change and save one file, with questions
  and network checks in between. Correct means: readable at every moment, a
  default or a relay is not lost on the way, a failed save leaves no file.
* **Helper.** The login entry, the process it starts, and the process a new
  installation replaces. Correct means: what the user is told runs, runs; what
  was uninstalled ends; a press in the queue is not slept on.
* **Paste.** The clipboard, a scratch file, a signal thread, and a result that
  goes to a window or back to the clipboard, which other programs write.
* **Diagnosis.** A report of what changes while one looks; a conversation that
  writes only what it has checked.

`PROJECT.json`, "hazards", lists each of these at the line where it bites.

## 2. Plan

| # | Modules | Models | Proofs |
|---|---|---|---|
| 1 | `ObjectStore`, `RateLimit`, `Relayd`, `RelaydHistory` | the self-hosted relay | `RelaydProofs`: done |
| 2 | `BatchHandover`, `Staging`, `MCStaging` | sends and cleanups over one inbox | `StagingProofs`: done |
| 3 | `CloudRelay` | the Durable Object: SQL table, alarm, evictions; refines `ObjectStore` too | `CloudRelayProofs`: done |
| 4 | `Universal`, `MCUniversal` | publish, delivery of the token, fetch, withdrawal, local batch, composed with `ObjectStore`; refines `BatchHandover` too | `UniversalProofs`: done |
| 5 | `UploadPromise`, `SftpSession` | ids, the write window, early answers, deadlines, requests executed after the client gave up, the whole of `upload_atomic`; refines `UploadPromise` | `TransportProofs`: done |
| 6 | `SessionPool` | `SshRunner::sftp`, `tend_sessions`, idle limit, liveness check | `TransportProofs`: done |
| 7 | `RemoteDirs`, `MCRemoteDirs` | missing levels, races on them, `settle` and modes, the self-check | `StagingProofs`: done |
| 8 | `Settings`, `MCSettings` | the commands that change config.toml, kills, power losses | `SettingsProofs`: done |
| 9 | `Helper` | installing, replacing, stopping the helper; its queue | `HotkeyProofs`: done |
| 10 | `Paste`, `MCPaste` | a press or a command from the clipboard to the insertion; scratch files and signals | `HotkeyProofs`: done |
| 11 | `Diagnosis`, `MCDiagnosis` | `doctor` and the first-time setup | `DiagnosisProofs`: done |
| later | the listing and its parsing; `list` and `mkdirs_and_lstats` over `SftpSession`; `RemoteDirs` shown to do what `Staging` takes as one step | | |

Abstract specifications: `ObjectStore` (what any relay promises), `BatchHandover`
(what a send promises the agent) and `UploadPromise` (what an atomic upload
promises whoever watches the destination).

## 3. The relay: `RateLimit`, `Relayd`, `RelaydHistory`, `ObjectStore`

`ObjectStore` is the promise: an object is published, held, and then delivered
once or gone, for good.

`Relayd` is the program. State: `store` is `Store.objects`; `windows` the rate
limiter's table; `pc`, `asked`, `due`, `hand` are where each worker is and the
locals `id`, `expires_at` / the ttl, and the bytes it took out; `now` the
monotonic clock. `told` is the ids some client knows, `deadline` and `delivered`
are history. One action is one acquisition of the store's lock with the local
computation around it:

| Request | Actions |
|---|---|
| admission, every request | `Admitted`, `TooManyRequests`, `AnsweredAtOnce` |
| `POST` | `StartPublish`, `BodyRefused`, `PutAccepted` or `PutRefused`, `Answer` |
| `GET` | `StartRetrieve` (`expiry_of`), `Take` or `TakeMissed`, `Delivered`, `DeliveryFailed`, `DeliveryAbandoned`, `Restore` |
| `DELETE` | `Withdraw` |
| sweeper, clock, process | `Sweep`, `Tick`, `Restart` |

`drop_expired` is `Live`, and runs in exactly the actions whose code calls it;
`restore` checks the time before it takes the lock and does not drop or recount.
A ciphertext is its size. A response is written wholly or not: the client sees a
partial body as a failure, and so does the worker. Headers, wording and the
reading of settings are left out. `RateLimit` is the table of windows as pure
operators: every request is counted, the refused ones too, and the table is only
swept when it is large.

`RelaydHistory` adds what clients asked for, to state what the documentation
says of withdrawals, of failed deliveries and of the total ceiling.

**Run `relayd`** (two workers, three ids, a body and a total of one unit, ttl of
0, 1 and 3 with a maximum of 2, clock up to 2). Two workers are the fewest that
race; three ids let one be in a hand, one in the store and a third published
meanwhile, which is what the bound on the total needs; the ttls are one refused,
one short and one cut to the maximum; three requests per window of two ticks
reach the 429 and the next window, and a table limit of 0 makes the sweep of
windows happen. Bounds: `Horizon` (the clock stops, and only deadlines the clock
reaches are granted), one counted refusal per window. The state space is finite
and every action fires. It shows:

* `Custody`: the bytes of an id are in exactly one place; the invariant the
  proofs rest on.
* `OvershootBounded`: how far `restore` can exceed the total ceiling: by one
  object for every worker but one, never more.
* `ImplementsObjectStore`: the refinement, with `Stage` as the mapping.
* `EventuallyForgotten`: liveness. Fairness is weak, of `Sweep` and `Tick` only:
  the sweeper is a loop with a sleep, and time passes. Nothing is assumed of the
  workers, because a client may never read its response.

`SingleUse` and `LifetimeKept`, what a client can see of custody, and
`ServedInTime` (no step fills a worker's hand with an object past its deadline)
are proved; TLC agrees when they are added to the configuration.

**What does not hold** (configurations of these names, on `RelaydHistory`):

* `relayd_total`: `restore` ignores the total ceiling, so the relay holds more
  than "the most the relay will hold at once".
* `relayd_withdrawn`: a `DELETE` during a `GET` whose delivery then fails is
  answered 204, and the object is back afterwards.
* `relayd_lost`: `expiry_of` finds nothing because another `GET` has the object,
  that `GET` fails and restores it, `take` finds it, and this delivery fails too:
  with no known expiry the object is dropped, although the code says a dropped
  connection does not consume it.

**What is proved** (`RelaydProofs`, any number of workers, ids, addresses, any
sizes and limits, from `RelaydAssumption` and `RateLimitAssumption`): `TypeOK`
and, on top of it, `Custody` are inductive, one step per action. `SingleUse`
alone is not inductive: a step that delivers is safe only because no other hand
and no store has the same object, which is the third conjunct of `Custody`; and
`LifetimeKept` needs that the `due` of a worker is its object's deadline or
unknown. `ServedInTime` follows from the one step that fills a hand. For the
refinement, `Delivered` maps to `Deliver`, `PutAccepted` to `Publish` (expired
objects are forgotten in the same step), and `OthersOnlyLose` shows that every
other step makes no object appear, which is `Forget` or a stutter.
`OvershootBounded` is about a sum over the store, and sums need induction. So
the total is defined as the number of bytes held, `Bytes(store)` being the pairs
of an object and one of its bytes: the same number, and the library's theorems on
cardinalities apply. The invariant is not about the store, which `Restore` makes
larger, but about `Around`, the bytes in the store or in the hand of a worker: a
request moves them and never makes any (`NothingNew`), except `PutAccepted`. At
that moment the store is within `MaxTotal`, the worker that puts has nothing in
its hand, and each of the others has at most one object: hence `workers - 1`.

`RelaydAssumption` says the body of a request is not empty and `MaxObject <=
MaxTotal` because the code refuses anything else, and that the workers are
finitely many (`main` starts eight); the rest is typing.

Only checked by TLC: `EventuallyForgotten` (liveness), the three counterexamples.

## 4. The hosted relay: `CloudRelay`

The same HTTP interface in one Durable Object. State: `rows` are the SQL tables,
`alarm` the platform's one alarm, `windows` the request counters in memory;
`reading` holds the lifetime granted to each upload whose body is being read,
`arming` the id a `publish` has inserted and is scheduling the alarm for. `told`
is what clients know; `drawn`, `handed` and `cut` are history.

A step is everything between two awaits. `publish` has three: up to the body
(`StartPublish`), from the body to the last `INSERT` (`Insert`, `Full`,
`BodyRefused`), and `scheduleAlarm` with the answer (`Schedule`). `getAlarm` and
`setAlarm` are one step because the platform delivers no event to an object that
waits for its storage (`GateOpen`; the sources rely on that: "a Durable Object
runs one event at a time"). `GET`, `DELETE` and `alarm()` await nothing between
their first read and their last write: `Retrieve`, `Withdraw`, `FireAlarm`.
`Evict` is the end of the object in memory at any moment; a row inserted just
before is durable by then or not. Every admitted request drops what has expired.
The chunks of an object follow its row and are not modelled; a time is what
`Date.now()` says, which is taken never to go back.

**Run `cloudrelay`** (two uploads at a time, two ids, bodies of 1 and 2 units
with a ceiling of 3, ttls as for the daemon, clock up to 3): two uploads are what
it takes to overrun a ceiling or to move an alarm, and the horizon lets an alarm
fire twice. Bounds as for `Relayd`. It shows:

* `AlarmCovers`: the alarm is never later than the expiry of anything held,
  except of an object whose publish died between insertion and `setAlarm`. Such
  an object waits for the next request or for another object's alarm.
* `TotalCeiling`: exact here, where the daemon's can be exceeded: nothing is ever
  put back.
* `EventuallyForgotten`: with no request at all, alarms clear the tables. Weak
  fairness of `Schedule` (the storage answers), `FireAlarm` (the platform calls
  an alarm that is due) and `Tick`.
* `ImplementsObjectStore`: the same abstract store as the daemon.

`OneLife` (an id is in the tables once) and `KeptUntilDue` (evictions, alarms and
other requests cost nobody an object before its time) are proved.

**What is proved** (`CloudRelayProofs`, any number of uploads, ids, addresses,
any sizes and limits): `TypeOK`, `OneLife` and `AlarmCovers` are inductive, each
on `TypeOK`. `AlarmCovers` needs the exclusion of `arming`, for between `Insert`
and `Schedule` nothing covers the new row, and it rests on `MinFacts`, the
existence of a least expiry. `KeptUntilDue` and the refinement follow from
`OneLife`. `TotalCeiling` is inductive with the finiteness of what is held, the
total being counted in bytes as for the daemon: `Insert` looks at the room and
takes it in one step, and nothing else brings a row (`NoNewRow`). Only checked by
TLC: `EventuallyForgotten`.

## 5. The inbox: `Staging`, `BatchHandover`

`BatchHandover` is the promise to the agent: a batch is unheard of, then whole,
then expired.

`Staging` composes the sends and cleanups over one inbox. A step is one request
as the host executes it, with what the client does on the answer. The host is
`date`, `dir`, `touched`, `content`; a send is `pc`, `n` (which file), `staged`,
`since`; a cleanup is `cpc`, `cutoff` (its `now`), `listed`, `todo`, `batch`,
`names`, `emptied` (what it reports) and `dry`.

| Code | Actions |
|---|---|
| `perform`: limits, `ensure_all` | `StartSend`, `OverLimit`, `CreateBatch`, `CreateDate`, `CreateAgain` |
| `SftpSession::upload`, `verify`, `upload_atomic` | `Open`, `Write`, `Rename` with `Staged`, `Clear` |
| `stage_batch`'s `discard` | `DiscardFile`, `DiscardBatch` |
| refusals, breaks, kills | `Refused`, `Lost`, `Unanswered` inside every request, `Killed` |
| `clean` | `Begin`, `ListInbox`, `ListDate`, `NotListed`, `Finish`, `FinishAnyway`, `CleanerStops` |
| `remove_batch` | `ListBatch`, `SkipBatch`, `RemoveName`, `LeaveBatch`, `RemoveBatch` |

Abstractions, all of them named here: `mkdir` of the levels with their `lstat`s,
and the pipelined writes of an upload with the read-back, are one step each; one
date directory; a file is its index in the batch, under a temporary or a final
name; entries Clift did not make (links, nested directories, foreign files) are left
out; of directory modes there is only that the host may refuse to set one, which
leaves the new directory behind and fails the send (`Unanswered`, the rest is
`RemoteDirs`); a request still under way when its deadline passes
is executed before that or never; `Deadline` bounds a whole operation,
connecting included, and a suspended laptop is not modelled; variables that are
not read again are reset (`cutoff`, `since`), which changes no behaviour.

**Run `staging`** (two sends of two files, one cleanup by age, `MCStaging` with
the sends as a symmetry set). Two files are the fewest with a first, a last and
something staged before a failure; two sends are needed for the shared date
directory; one cleanup suffices because cleanups share nothing but the host.
`Retention` 3 is the smallest that exceeds `Deadline` + `Ahead` = 2, the
condition (`OnlyByAge`) under which the promises about live batches hold, and
`Horizon` 3 lets a batch expire. It shows:

* `ActiveUndisturbed`: a cleanup by age never reaches into a batch being sent.
  It is the deadline of an operation that makes this true: without it a stalled
  send is overtaken (that is the mutant).
* `KeptForRetention`: handed-out paths stay good for the retention less the
  difference of the clocks.
* `FailedLeavesNothing`: on a session that answers, with a host that sets modes
  and removes what it is asked to, a failed send leaves neither directory nor
  file, whatever a cleanup does at the same time.
* `ImplementsHandover`: the refinement of `BatchHandover`.

`NeverHalf` (no final name ever stands for half a file) and `ReportedGone` (what
a cleanup counts as removed is gone) are proved.

Deadlock checking is off: every send and cleanup ends, and the clock stops at the
horizon. Nothing is claimed to happen eventually, so no fairness is assumed.

**What does not hold**: `staging_purged`: `clift clean --all` during a send
removes a file already staged, and the send goes on to hand out its path.
`staging_interrupted`: when a session breaks after the host has executed the
rename, the upload reports a failure and the final name exists.

**What is proved** (`StagingProofs`, any number of sends, cleanups and files, any
retention, deadline and difference of the clocks, from `StagingAssumption`): the
invariants above and the refinement, from one inductive invariant
`IInv` with four parts.

* `TypeOK`.
* `SendOK`, per send: what is on the host is at most what the send believes it
  has put there and not taken back (`Tidy`), as long as every answer arrived; the
  files staged are the ones before the current one; what is about to be renamed
  is not short; and the operation is within its deadline. `FailedLeavesNothing`
  is its last line; alone it says nothing of the steps that lead to "failed".
* `CleanOK`, per cleanup: everything it has on a list is the batch of a send
  that will not make its directory again. That is why `ReportedGone` is stable.
* `Undisturbed`: a batch that is being sent, or was handed out less than the
  retention ago, is on no cleanup's list. `ListedByAge` is the arithmetic: its
  directory was touched after the current operation began, which is at most
  `Deadline` ago, so by a clock at most `Ahead` ahead it is younger than
  `Deadline + Ahead < Retention`. The condition is in the invariant
  (`OnlyByAge`), so the theorems hold for every value of the constants and say
  something for those that meet it.

The steps are split by who takes them. `SendingFrame` and `CleaningTakes` say
what a send, or a cleanup, can change at all: a send only its own batch, a
cleanup only less of the one in hand. Every later lemma reasons about the one
send or cleanup that moves. `RefinesBatchHandover` adds the assumptions that
nobody purges and that `Deadline + Ahead < Retention`; without them a batch may
be handed out with files missing, which is what `staging_purged` shows.

Only checked by TLC: the two counterexamples.

## 6. Universal Mode: `Universal`, `MCUniversal`

Publishers and fetchers around a relay. The relay is `ObjectStore`, the promise
both implementations are shown to keep, with one thing added that the promise
says nothing of: `hand`, the objects the relay has taken out to answer a `GET`. A
`DELETE` does not find these, and clift-relayd puts one back when its delivery
fails, after the `DELETE` was answered with 204 (section 3, `relayd_withdrawn`).
The hosted relay decides in one step and is the case where nothing is put back.
So a granted withdrawal has two outcomes, which the publisher cannot tell apart:
"withdrawn" when the object was in the store or nowhere, and "overtaken" when it
was in hand. `RelayForgets` is expiry, `RelayRestarts` a restart. A publisher
(`spc`, `token`) is a run of `clift paste --mode universal` or of `clift copy`; a fetcher (`fpc`,
`redeemed`, `n`, `disk`, `printed`) is a run of `clift fetch` or a key press that
redeems a token, a retry being one more fetcher. `shown` is the ids whose token
somebody may have: what a fetcher can try. `crashed` is history.

| Code | Actions |
|---|---|
| `publish` and the client's `POST` | `Publish`, `PublishUnheard` (stored, the answer lost), `NotPublished` |
| `deliver`, `report` | `Deliver`, `DeliverFails`, `Report`, `ReportFails` |
| `withdraw`, the client's `DELETE` | `Withdraw`, `WithdrawFails` (executed or not, and swallowed), both with `Deleted` |
| the `GET`, at the relay and at the client | `Ask` (taken out), `Retrieve`, `RetrieveUnheard` (consumed, and never arrives), `PutBack` (`restore`), `NotRetrieved` |
| `crypto::open`, `bundle::decode` | `Open` |
| `write_batch` | `MakeDirectory`, `NotCreated`, and per file: |
| `write_file_atomically` | `CreatePart`, `Fill`, `Sync`, `Rename`, `WriteFails`, `Discard`, `DiscardFails` |
| `redeem` after the write | `Tell`, `TellFails` |
| the world | `PublisherKilled`, `FetcherKilled`, `HostCrashes`, `RelayForgets`, `RelayRestarts` |

Abstractions: `take` refuses an id whose object is in hand, which is to say that
the store has no second copy (`Custody`, section 3); a ciphertext opens with its key or the fetch fails; the token's
text, the frame, media types and limits are left out; a fetcher's batch
directory is its own (its name is 128 random bits and `create_dir` refuses an
existing one), so the batches are indexed by fetcher; the directory itself, which
stays behind empty or with the files renamed so far when a fetch fails, is not a
variable. A delivery that fails may have shown the token all the same, because a
helper or a stream can fail after it has passed everything on. A crash loses
bytes that were not synced and undoes any renames, because nothing syncs the
directory; it does not bring back a removed file (it might: `NothingLeft` speaks
of fetchers whose host has not crashed). Each fetcher's host crashes on its own
and once; a host that two of them share is two such steps with nothing between.
`clift clean` on the fetching host is not composed with the fetch.

**Run `universal`** (two publishers, two fetchers, two ids, bundles of two files,
`MCUniversal` with publishers, fetchers and ids as symmetry sets): two fetchers
race for one token, and a second publisher makes them tell tokens apart; two
files are the fewest with one in place when the next fails. No counter needs a
bound. Deadlock checking is off because every run ends, and no fairness is
assumed because nothing is claimed to happen eventually. It shows:

* `WithdrawnUnread`: what a withdrawal found in the store, or did not find
  anywhere, is never with the relay again; and if the token never got through,
  the object is gone unread, whatever the relay had in hand. This is where a
  404 for a `DELETE` counting as success has to be right: the object was expired
  and not taken by somebody else.
* `NothingLeft`: no temporary file after a failure that could be tidied up.
* `ImplementsHandover`: what a send promises an agent, a fetch promises too:
  told once, of a whole batch. A path printed before a crash counts as expired.

`OneBatchPerToken` (retries, lost answers and races included, one fetcher at most
ever has the bytes of an object) and `WholeOrAbsent` (a name appears with all its
bytes on the disk, whenever the host goes down) are proved.

**What does not hold**: `universal_restored` (`WithdrawnForGood`): a delivery
fails after its token got through, somebody fetches, the publisher's `DELETE`
arrives while the relay has the object in hand and is answered with 204, the
fetch breaks off, and the object that the publisher reports as withdrawn is there
to be fetched once more. `universal_unprinted`: with the default delivery, and
with `clift copy`, the token is written by `report`; if that fails nothing is
withdrawn, and the object waits on the relay for its expiry.

**What is proved** (`UniversalProofs`, any number of publishers, fetchers, ids
and files): all of these and the refinement, from the inductive invariant
`IInv`. `OneBatchPerToken` needs that whoever has bytes had them delivered, for
then a held object is nobody's. `WithdrawnUnread` needs that only objects whose
token was shown are ever in hand or delivered (`RelayOK`): an "overtaken"
withdrawal of a token nobody has cannot happen, and what was forgotten while it
was in nobody's hand has nobody to put it back. The other three rest on `BatchOK`, the state
of a batch at each place of its fetcher: files before the current one in place,
no other temporary file than the current one's, and that one synced when it is
about to be renamed. `PublisherFrame` and `FetcherFrame` say that the two sides
meet at the relay only, `Lives` is all that can become of an object. The only
assumption is `UniversalAssumption`: a bundle has a file, which `encode` demands.

Only checked by TLC: the counterexamples.

## 7. Uploads over SFTP: `SftpSession`, `UploadPromise`

`UploadPromise` is what an atomic upload owes its caller: the destination appears
whole or not at all; it is there when the upload says "stored"; after "not
stored" it never appears; only when the session broke is nothing known.

`SftpSession` is one session and, over it, `upload_atomic`: open a temporary
file, set its mode, send chunks ahead of their answers up to a window, send the
read-back and the close behind the last chunk, collect every answer, compare,
then rename, or remove. The client is `place` (where in that sequence it is),
`next` (`next_id`), `pending` and `closing` (the ids whose answers are owed),
`sent`, `finished`, `failure`, `attrs` and `report`. The wire is `request` (sent
and not executed), `answer` (given and not taken) and `early`, the code's map of
answers read ahead. The server is `file` and `orderly`.

| Code | Actions |
|---|---|
| `upload_atomic`, `open_exclusive` | `BeginUpload`, `Opened`, `NotOpened` |
| `write_all`, `fill` | `SendChunk`, `SourceEnds`, `SendClosing`, `Collect`, `AllWritten` |
| `upload`, `verify` | `Release`, `LookedBack`, `Closed` with `Verdict` |
| the rest of `upload_atomic` | `Released`, `Renamed`, `Removed` |
| `realpath`, `lstat`, `set_mode`, `remove`, `rmdir`, `rename` | `Ask`, `Answered` |
| `wait`, `expect` | `Take` inside every step that takes an answer, `SetAside` |
| `next_packet`, `fail` | `TimesOut`, `Breaks` |
| the server, external | `Execute` (`Granted`, `Refused`), `Lost` |

A request is named by its serial number, which the code does not have; what is
compared is `Id`, the serial modulo `IdSpace`, because `next_id` wraps. The server
may refuse anything, ignore a mode, fail a close and close all the same, and
answer in any order; it executes requests in any order, or in theirs
(`orderly`). A server that breaks off may still execute what was sent, and after
that nothing more is believed of it. Abstractions: a chunk is its number; a size
is the last chunk written; packets, handles, names and the greeting are left out;
the temporary name is fresh (it is random) and the file under it is this upload's
alone; `list` and `mkdirs_and_lstats`, which send several requests of their own,
are not modelled; no session after this one, because what a new session does
with the same destination starts from `Said` "unknown" and is `Staging`'s.

**Run `sftp`** (`Window` 2, three chunks with two expected, `IdSpace` 4). A window
of two is the smallest in which answers can be swapped and a refusal can be
followed by a good answer; three chunks fill it and go on; a source with more
chunks than expected is a file that grew while it was read, one with fewer a file
that shrank. `IdSpace` is `Window + 2`, the least that keeps the ids of requests
that are owed apart, so ids are used again within one upload; the code's is 2^32.
`Limit` 10 bounds a session to one upload of any length with single operations
before and after it, or a refused upload and a second one. It shows:

* `RightAnswer`: an answer goes to its own request, whatever the order and
  although ids return. The mutant drops the comparison of ids.
* `Settled`: between operations no request and no answer is left over and no
  handle is open, refused and failed uploads included.
* `ImplementsUpload`: the refinement. The mutant reports a broken session as a
  refusal, although the rename may still be executed.
* `Returns`: no operation waits for ever. Fairness is weak and only of `Client`,
  the thread that runs the session, its deadline included: `next_packet` waits
  with a limit. Nothing is assumed of the server.

`StoredWhole` is proved: what is at the destination has every chunk that was
read, all that were expected, and a private mode, and nobody can write to it any
more; on a server that keeps the order it has no more than was expected. A server
that does not keep the order may read back a size that is right by accident; even
then what was read is all there.

Deadlock checking is off because a session may end, or reach `Limit`.

**What is proved** (`TransportProofs`, any window, number of chunks and size of
the id space of at least `Window + 2`): all of the above but `Returns`. The
inductive invariant has two halves. `InStep` says that the requests owed an
answer are the last `Width` ones made, in the order of `pending` and then of
`closing`, and that nothing else is under way (`StreamOK`); which answers are
owed at each place (`PlaceOK`); and that the bound leaves room (`RoomOK`).
`OwedApart` is the arithmetic: numbers closer than `IdSpace` with one remainder
are equal. Hence `Taken`: the answer that matches is the oldest one, and
`RightAnswer` and `Settled` follow. The other half relates the file to the
requests. `WritingOK` says what each request still under way is about (`Made`,
counted back from the last chunk), that every acknowledged chunk is written as
long as nothing failed, and that a granted read-back (`LookOK`) stays true: on an
orderly server no write is left to come. `VerdictRight` is the one place where
answers are weighed, and gives `Ready`; `DestinationOK` says that a rename is only
ever under way alone and on a file that is ready, which makes it safe to execute
late; `SaidOK` ties what was reported to what can still happen. The refinement
maps `Execute` of a rename to `Appear` and every return to `Answer`.

Assumptions: `SftpSessionAssumption` (a window of at least one, `IdSpace >= Window
+ 2`, serials up to the bound) and `NoneAssumption` (`None` is no request and no
answer). Only checked by TLC: `Returns`.

A remark that is not a finding: `upload.rs` says the mode is settled before the
first byte, and `write_all` sends it first without waiting for the answer. On a
server that ignores the mode of `open` and refuses `fsetstat`, chunks may be
written to a file with looser permissions before the upload fails and removes it.

## 8. Kept sessions: `SessionPool`

What `SshRunner` keeps (`proc.rs`) and the thread of the hotkey helper that looks
after it. State: `kept` is the map of sessions, `answered` the remembered cache
homes, `configured` which hosts the user multiplexes in `ssh`'s configuration,
`consulted` what `ssh -G` said of that when it was asked, `lock` the mutex around the sessions; `phase`, `host`, `left` are an operation and what is
left of its limit; `tending`, `due`, `timer` the tending thread and its pass.
Time is relative: a session carries its age since its last use and since it was
last heard, cut off at the limits the code compares them with, so no clock bounds
the run.

| Code | Actions |
|---|---|
| `resolve_cache_home` | `RecallHome`, `AskHome`, `HomeAnswered` |
| `sftp`, `open_session` | `BeginOperation`, `UseKept`, `Open`, `SessionOpened`, `OpenFailed` |
| the operation over it | `Served`, `Broke` |
| `user_multiplexes`, `reuse_args` | `Dump`, `MayAdd`, `Consults` |
| `start_tending`, `tend_sessions` | `Wake`, `BeginPass`, `Look`, `Check`, `Alive`, `Dead`, `EndPass` |
| the world | `Sever` (a link dies silently), `Exit` (ssh ends), `Configure` (the user changes the configuration), `Tick` |

A timer that is up is acted upon before time passes (`Ready`): a sleep or a wait
ends at its limit, give or take scheduling.

**Run `sessions`** (two hosts, of which the user sets up sharing for one, or drops
it, at any time; one key press at a time, which is what the helper does; limits of 1 to 3 ticks, each
different from the one it is compared with). It shows:

* `FoundInTime`: a link that died silently is found within a quiet period, a
  sleep and two passes over the hosts (`DeadAtMost`), not counting the time an
  operation has the lock. Two passes, because it may turn quiet just after one
  has gone by it. Longer than that no press waits for a timeout on a session that
  could have been known dead. The comment in `cmd/hotkey.rs` ("so a press never waits
  on a connection that died while nobody was using it") promises more: within
  that time a press does wait.
* `NotUnderHand`: an operation and the tending thread never have the same
  session in hand, so nothing is dropped or checked that is in use (the mutant is
  a pass that begins without the lock).
* `ClosedWhenUnused`: when presses stop, every session is closed in the end. A
  check must not count as use (the mutant). Fairness: weak, of the clock, of
  the tending thread and of an operation that has begun; none of presses.

**What does not hold**: `sessions_stale` (`UserLeftAlone`): `user_multiplexes` asks
`ssh -G` once per host and process. A user who sets up a `ControlMaster` while
the helper runs gets Clift's options on every connection until it is started
again, against `sshconfig.rs`, by which Clift may not override one ("do not
override" has to mean "do not pass the options at all"). The opposite, sharing
that was dropped or an `ssh -G` that failed once, costs speed only.

**What is proved** (`TransportProofs`, any hosts and threads, any number of
presses at once, any limits of at least a tick): `FoundInTime` and
`NotUnderHand`. Both rest on `PoolInv`: the shapes, and `PoolMutex`, that who is at
work on the sessions has the lock and that what it works on is in the map. From
that `NotUnderHand` is immediate: `BeginPass` and `Dead` drop nothing that is in
use. `FoundInTime` is not inductive: that a link was found in time follows from
when the thread will look next. `InGoodTime` says so: `Until` is the longest it may
take the thread to come to a host, from where it is, which checks are due and
what is left of its timer; `Deadline(h)` adds that to the time the link has been
dead, and the sum never exceeds `DeadAtMost`. Every tick moves one from the one to
the other, no step of the thread makes the wait longer, and a session that a pass
goes by has been quiet for less than the quiet period (`QuietAsLong`). A check
takes at most `CheckLimit`, so passes are bounded by the number of hosts
(`ChecksAre`).

The proof corrected the bound: with one pass, as it was stated first, it fails for
a quiet period of one tick and checks of two, which TLC confirms. Assumptions
(`SessionPoolAssumption`): there are finitely many hosts; every limit is at least
one tick; the thread that tends is none of the others, and no host is named like
one of its states. Only checked by TLC:
`ClosedWhenUnused` (liveness) and the counterexample.

Not modelled: the arguments and environment of `ssh`, the pipes that drain its
output, multiplexing over a control socket on hosts where Clift asks for it.

## 9. Directories on a host: `RemoteDirs`, `MCRemoteDirs`

`ensure_dirs` (`fsops.rs`) with everything it may meet, and the self-check. A
client sends the `mkdir`s and `lstat`s of all its directories before it reads an
answer, and then settles one after the other: makes missing parents (`nested`,
the calls of `ensure_in`), sets the mode of what it made itself, looks once more
at what somebody else may just have made, or fails and takes back the later
directories it had made. State: `tree` is the host, with kind, mode and maker of
what is there; `asks` the requests not yet executed, `heard` the answers.
`honours`, `chmods`, `writable` are what kind of server it is.

**Run `dirs`** (two sends, one self-check; the path of inbox and date, and one
batch each; every kind of server; an inbox that is absent, the user's, private,
loose, or a file; a cleaner that removes the empty date; a client may be killed
at any request). Two sends race for the two shared levels; a third client adds
nothing to a race of two. No counter needs a bound, and deadlock checking is off
because every client ends. It shows:

* `PrivateWhenDone`: who reports success has private directories, also on a
  server that ignores the mode of `mkdir`.
* `JustCause`: on a server that applies the mode, nobody fails because of
  somebody else's race: there is a user's directory in the way, or no right to
  write, or the cleaner took a directory.
* `NoStrayBatch`: a send that failed before its batch was settled has none.
* `UsersUntouched`: what the user made is looked at and never changed.

**What is proved** (`StagingProofs`, any number of senders and self-checks, with any
of them killed, on every kind of server): all four.

* `UsersUntouched` and `PrivateWhenDone` from `DirInv`, whose core is `Safe`, per
  client: a `chmod` under way is never for a directory of the user's, a `rmdir` only
  for the client's own batch; a path whose `mkdir` was granted is not the user's;
  what a client saw to fit still fits; and the paths before the one it settles do.
  The steps divide by who acts: `NextSpared` says what any step may do to a path
  (nothing becomes the user's, what is the user's stays, what fits stays), and a
  client's own steps change its own record only (`StepOwn`). The mode of a
  directory may change between a look and the answer to it; what makes the look
  worth something is that no request of any client loosens a directory.
* `NoStrayBatch` from `Batches`, on a server that applies the mode of `mkdir`: as
  long as a sender settles, its batch is asked for once, every `mkdir` is followed
  by its `lstat` (`Paired`, `Once`), and if the batch is there the sender knows that
  it made it (`Known`), so that what fails before leads to "undo" and its `rmdir`.
* `JustCause` by its contrapositive, `WillingOK`: while nothing outside gives a cause
  (`Willing`), no client is in or near a failure (`ClientOK`). Its heart is a race:
  a `mkdir` that failed because another client was first is followed by a look that
  finds the other one's directory fit (`AnswerOK`), and a level reported missing has
  its parent by the time it is asked for again (`SecondOK`).

Assumptions (`RemoteDirsAssumption`): no client is a sender and a self-check, and a
batch, which is named by its sender, is neither the inbox nor the date. TLC
found `DirInv`, `Batches` and `WillingOK` to hold on the instance of `dirs.cfg`.

Remarks. The documentation of `ensure_dirs` says that a failure "should leave
nothing behind that was not already there": what stays is the directory that
failed and every level above the wanted ones. `SelfCheckTrue` (a self-check fails
only where a send would) does not hold: two self-checks use one file name, and
the second finds the first one's file.

## 10. The configuration file: `Settings`, `MCSettings`

`config.toml` and the commands that write it, each a process: it reads the file
once (`base`), works out the next one (`next`), and puts it in place by a rename
from a temporary file beside it. Nothing locks it. A slot is a name for a temporary
file: free, with the file of a process (`Temporary`, which stands for its
`TempFile`), or taken by a file that no `TempFile` stands for (`Stray`). A document is its version, its
mode, whether it has a relay, its targets and the default, `odd` for keys this
build does not know and `health` for whatever makes it unreadable or refused.

| Code | Actions |
|---|---|
| `target add`, `use`, `rename`, `remove` | `Target` with `Refuses`, `Outcome` |
| `setup` | `Setup`, `Confirmed`, `Checked` |
| `config set`, the saves of the first-time setup | `Set` with `Edited`, `Validated` |
| `uninstall --purge` | `Purge`, `Confirmed`, `Remove` |
| `save_source`, `create_beside`, `TempFile` | `EnsureDirectory`, `CreateBeside`, `Write`, `Persist`, `NotRenamed`, the last and a failed `Write` with `Drop` |
| the world | `Kill`, `PowerLoss`, `Settle` (write-back) |

**Run `settings`** (two aliases, two processes, two names for temporary files
where the code has 64, both interchangeable): two commands overlap at every step;
with two slots both are taken, and a leftover refuses the next save. `Init` is
every file with the modes, versions and healths that matter, a newer version and
a default without a target included. It shows:

* `NeverUnreadable`: a file Clift can load stays one, through failures, kills
  and power losses. Renames may be undone by a power loss, because the
  directory is not synced: it comes back as it was last written (`before`, any
  number of renames ago), the temporary names included; the file it brings back
  was whole.
* `RouteKept`: a command that found the file as it still is changes where the
  next send goes only to where it was asked to. (A mutant loses the relay when a
  target is added.)
* `NoLitter`: a save that fails takes its temporary file along, whatever failed:
  the write, the sync or the rename. What remains under a temporary name was
  left by a process that was killed; or it has no `TempFile`: its removal was
  refused (`Drop` ignores that, `io.rs:254`), its mode could not be set, or a power
  loss brought it back.

Remarks. Commands that overlap overwrite each other: `RouteKept` is about those
that do not, and `DefaultNotStolen` ("later ones do not silently steal it",
`setup.rs:140`) fails for two first-time setups at once. `save` writes a rendered
`Config` and so drops the keys it does not know, which `config/edit.rs` promises
to keep for `config set` only. `create_beside` sets the mode before there is a
`TempFile` to drop, so a failing `chmod` leaves a file (`Stray` from the start),
and 64 such leftovers refuse every later save.

**What is proved** (`SettingsProofs`, any aliases, processes and names for
temporary files, from `SettingsAssumption`, which keeps `None` apart):
all three, from the inductive invariant `IInv`. None is inductive alone. That what
`Persist` puts in place can be loaded needs to be known back to the moment the command read the file: `NextParses` shows that rendering
the outcome of a command on a document that parses gives one that parses, and
`Worthy` carries it from there through the questions and checks of `setup` to the
rename. That a power loss finds nothing torn needs `SlotOK`, by which a temporary
file about to be renamed holds what was to be saved, and synced, so that `file` is
always `settled`; and `OneEach`, by which a process has one temporary file.
`RouteKept` compares what `Persist` puts in place with what a command read several
steps earlier. `Plan` bridges them: from the moment a command goes on to save, what
it will write is the outcome of that command on the document it read. So only
`OutcomeRoute` remains, about the operators alone: what an outcome makes of the
route of a document that parses. Every property of this run is proved.

## 11. The hotkey helper: `Helper`

What is registered, what runs and what the user is told. On macOS launchd owns
the process (`loaded`, `KeepAlive`); on Windows a named event is all there is to
find a helper and to stop it by (`EventExists`, `stop`). A helper reads its
combination, owns the event, registers the key and then waits: `queue` and
`fresh` are the messages in its queue and whether the system counts any as new.

| Code | Actions |
|---|---|
| `cmd/hotkey`: `listen` | `ReadFile`, `CreateEvent`, `Register` |
| the loops of `clift-inject/hotkey.rs` | `SeesStop`, `Wakes`, `Takes`, `PressDone`, `Drained` |
| `config set`, the first-time setup | `Save`, which may go on to install |
| `install` | `Define`, then `Bootout`, `Bootstrap` or `StopOld`, `OldStopped`, `Spawn`, `Seen`, `NotSeen` |
| `uninstall` | `NothingInstalled`, `Unload` or `StopFirst`, then `Delete` |
| the world | `Login`, `Logout`, `Foreground`, `Dies`, `Press`, combinations `taken` by others |

**Run `helper`** (two processes, two combinations, two presses; both platforms):
two processes are the old helper and the new one, and two presses are the fewest
of which one is left in the queue behind the other. It shows:

* `RunsAsSaid`: after "running now", the helper of the login entry has the
  combination of the file and not the one it replaced.
* `NeverAsleep`: the helper does not wait while a press is in its queue.
* `GoneAsSaid`: once the user was told that it is removed, the helpers of the
  login entry end that launchd let go of, or that the event found. Fairness:
  weak, of each helper's own steps; a press ends because every wait in it has a
  limit.

**What does not hold**: `helper_removed` (`StoppedAsSaid`): `uninstall.rs` promises
that "the helper it started is stopped". On macOS a `bootout` that fails, and a
user id that cannot be found, are ignored (`autostart.rs:315`): the definition
goes, "Removed" is said, and launchd goes on keeping the helper alive. On Windows a
helper that is only starting has no event to be stopped by, and takes one
afterwards.

**What is proved** (`HotkeyProofs`, any helpers, combinations and number of presses):
both invariants. `NeverAsleep` needs that only a helper that has the key gets
presses (`QueueKept`): a queue starts empty and is empty again when the key is
gone. `RunsAsSaid` is about a promise made at the end of an installation and what
happened at its beginning, and `Promised` carries it: once the old helper has
stopped, none of the login entry is alive until the new one is started
(`NoneBetween`, but for one that was only starting, `late`), so every helper
that has read a combination while the installer watches has read the one in the
file (`NewOnly`), and from "running" on a save takes the word back before it
changes what is configured. On macOS a bootout that failed leaves the label
loaded, `bootstrap` refuses it, and nothing is said to run. Only checked by TLC:
`GoneAsSaid` (liveness) and the counterexample.

`late` are the helpers that were only starting when a command looked for one to
stop: they have no event yet, so they cannot be found, and what the user is told
is not so for them. Both properties name them; the code says "running now" and
"Removed" all the same.
Simplifications: one command at a time; no login and no second helper from a
terminal while a command runs. Remarks: the event is created before the
key is registered, so "running" may be said of a helper that then fails to get
its key (`ClaimIsTrue`); "a press during a slow paste is a press the user has to
repeat" (`hotkey.rs`) is not so, for the queue is drained afterwards.

## 12. From the clipboard to the insertion: `Paste`, `MCPaste`

A key press, `clift paste`, `clift send` (a paste in Fast Mode), `--copy`,
`--inject`, and a press that redeems a token. The clipboard is `clipboard` (a
text, a file list, a picture) and, on Windows, the process that has it open
(`session`). The scratch file of a picture is `scratch`; `live` is `live_files`;
`caught` is what the signal thread has read of it. `job` is the locals of a run.
Uploads, publications and redemptions are the other modules' business: here each
succeeds or fails, or is done and its answer lost. What becomes of a published
object is history: `handed` (a run reported it as delivered), `typed` (its whole
line went to a window) and `astray` (nobody was handed it and nobody takes it
back: the run was killed, the answer to the publication or to the withdrawal was
lost, or it could not be printed, after which nothing is withdrawn).

| Code | Actions |
|---|---|
| `read_snapshot`, call by call | `Begin`, `ReadText`, `ReadFiles`, `ReadImage`, `NotConverted` |
| `ScratchFile` | `Create`, `Write`, `Drop`, `Forget` |
| the signal thread | `Catch`, `Dies` |
| `press`, `paste::run`, `resolve` | `Decide`, `ReadBytes`, `Send` |
| `deliver`, `write_text`, `type_into_focused_window` | `PrintOut`, `CopyOut`, `NotCopied`, `Inject`, `NotTyped` |
| `withdraw`; `redeem`, `onto_clipboard` | `Withdraw`; `Redeem`, `Offer` |
| the user and the system | `Copy`, `Permission`, `Killed` |

**Run `paste`** (two processes, two slots, two pictures and a file list, an object
of each direction; two copies or permission changes, two runs): two runs are a
press and a second press on what the first one left; two copies change the
clipboard once before and once within a run. It shows:

* `NotSpentByHabit`: pressing twice does not redeem what the first press has
  published: an instruction is no token (the mutant takes any text with one).
* `HandedOrTakenBack`: what a run published it reports as delivered or takes
  back, never both; what is taken back is not on offer on the clipboard; and what
  is still with the relay was handed out, is in the hands of a run, or went astray
  at a step that could do nothing about it (the mutant forgets to withdraw).
* `NothingLeft`: a scratch file is somebody's, or its process could not remove it.
* `SentAsCopied`: on Windows, what is sent is what was on the clipboard when the
  press looked: the clipboard stays open until the snapshot is complete.

**What does not hold**: `paste_typed` (`NotTakenBack`): typing fails at the last
key-up (`post_characters`) or for the last event only (`SendInput`), when the
whole line is in the window. Nothing tells that from a line cut short, so the
object is withdrawn, and the token that the user sees, or has sent off, is dead.

Remarks. On macOS nothing keeps the pasteboard from changing between the calls:
`NeverTheIcon` ("sending the icon instead of the files would be absurd") fails
when files are copied between the look for files and the look for a picture.
`HeldUntilRead` fails: `Drop` removes the file before it forgets it, so a signal
in between removes a name that another process may own by then. `CopyOut` empties
the clipboard before it fills it, so a failure loses what the user had. A
scratch file that cannot be written or removed stays, and nothing cleans the directory in a
later run, as `runtime.rs` says. On Windows no signal is handled.

**What is proved** (`HotkeyProofs`, any number of processes, names, pictures, files
and objects, any number of copies and runs): all four. The assumptions are that
the objects of this machine and those of a server are different ones
(`PasteAssumption`) and that `None` is no text and no file (`NoneIsApart`).
`HandedOrTakenBack` is not inductive: a withdrawal is safe only because its run is
the only one that has the object, and has shown it to nobody. That is `Kept`: two
runs never hold the same object, one that is held, unused or withdrawn is `Unsaid`
(nobody was handed it, the clipboard does not offer it), and one that is with the
relay is `Accounted` for: handed out, astray, or held by a run that is about to
deliver or to withdraw it. `Local`, in `Shape`, says what a run carries at each place, and that no token of
this machine is ever on the clipboard or in a snapshot, from which
`NotSpentByHabit` follows. `NothingLeft` needs that the list of a signal handler has
every file its process owns (`Listed`), that what the handler read of it before is
still enough when it acts (`Noted`), and an owner that is past `Drop` counts no
more, for the name may be another's by then (`Owned`). `SentAsCopied` follows from
`Undisturbed`: while a run reads, it is the one that has the clipboard open
(`LooksAt`), and a file that is owned is its owner's (`Wrote`).

## 13. Looking before trusting: `Diagnosis`, `MCDiagnosis`

`clift doctor` and the first-time conversation. Their answers are `report`, and
`url` and `hotkey` in the file with `login`, what the login entry started. A run
meets one configuration file out of all (absent, fine, with warnings, broken;
with or without a relay, targets, a default) and one environment. The host has a
state that changes between checks; the relay may lose a request or an answer;
`excused` are the objects nobody could take back.

| Code | Actions |
|---|---|
| `cmd/doctor`: `run`, `resolve_target` | `BeginDoctor` with `InboxOf`, `Settings` |
| `clipboard_check`, `injection_check`, `config_check` | `LookAtClipboard`, `KeystrokeInjection`, `ConfigVersion` |
| `probe.rs` | `Probed` with `Connection`, `NotProbed`, `Greeted` |
| `remote_checks`, `authentication` | `Resolved`, `NoInbox`, `Inbox`, `RoundTrip` |
| `probe_relay`, for both | `Publish`, `NotPublished`, `Retrieve`, `NotRetrieved`, `Revoke`, `NoRelay` |
| `Wizard::relay` | `BeginSetup`, `Enter`, `Skip`, `TryAgain`, `SaveAnyway`, `Different`, `Save` |
| `Wizard::hotkey` | `ChooseKey`, `Register`, `NotRegistered` |

**Run `diagnosis`** (two targets on one host, two relays, two combinations, two
objects, one change of the host, one report or conversation): two relays make
"another address" different from the first; two objects allow a second attempt
after one that left something. It shows:

* `EveryCheckOnce`: whatever fails or changes half way, a report has each of its
  twelve lines once.
* `ProbesLeaveNothing`: no test object stays with a relay that could be taken back.
* `SavedOnlyChecked`: an address in the file was checked in this conversation,
  or insisted on.
* `RegisteredAsChosen`: the entry starts the combination that the user was told
  to press.

**What does not hold.** `doctor_pass`: without an OpenSSH client the probe reports
connection, key and authentication as "not reached", and `authentication()`, which
looks for failures only, makes a Pass of it: "the host key matches known_hosts
and authentication succeeded".

Remarks. With two targets on one host the doctor looks at the first one's inbox
(`ChecksAskedTarget`). A `CLIFT_RELAY_URL` that is no address gives a warning
line "no relay is configured", where the comment in `cmd/doctor.rs` says that
"the failure becomes a failed check". "Keep it?" of a relay from the environment
writes it into the file. A clift-relayd that has a test object in hand for the
probe's own `GET` when the `DELETE` arrives may put it back (section 3): the relay
decides in one step here, so `ProbesLeaveNothing` is said of the requests of the
probe and not of that race.

**What is proved** (`DiagnosisProofs`, any targets, relays, combinations and
objects, any number of runs and changes, from `DiagnosisAssumption`): all four.
`ProbesLeaveNothing`, with `SavingOK` (what is about to be saved was vouched for)
and `RegisteringOK` (what is about to be registered is what the file says), is
inductive, and the two action properties follow from the one step that saves or
registers. `EveryCheckOnce` rests on `ReportOK`, which says of each place how many
lines the report has there and that they are the first ones in order; each step
then appends the lines that come next (`OneAfter` to `FourAfter`, `TheSeven` for a
probe that reached nothing). Only checked by TLC: the counterexample.

## 14. What is assumed, and what is not proved

A proof module holds the theorems of one component or of two that belong
together; the second one's definitions carry a prefix (`Pool`, `Dirs`, `Helper`)
where both would use a name. The definitions added to a proof module are parts
of inductive invariants or abbreviations, never state.

The assumptions are those of each module (`...Assumption`, `None...`); TLC
evaluates them in every run of a module that extends theirs. Beyond typing they say what the code
refuses or fixes: a body and a bundle are not empty, an object is no larger than
the total, there are finitely many workers and hosts, every limit in time is
positive, and the special values differ from the ordinary ones. No theorem
assumes a fairness condition or a bound of a run.

| Not proved | Why | Instead |
|---|---|---|
| `EventuallyForgotten` of both relays, `Returns`, `ClosedWhenUnused`, `GoneAsSaid` | liveness under fairness, which needs ENABLED and induction over a measure | TLC, in the runs of these names |
| `relayd_*`, `staging_*`, `universal_restored`, `universal_unprinted`, `sessions_stale`, `helper_removed`, `paste_typed`, `doctor_pass` and the properties that remarks call false | they do not hold | counterexamples by TLC |
| that an upload in pieces, as `SftpSession` has it, is the one step `Staging` takes | two modules with different states; `UploadPromise` is what they share | both are checked on their own |

## 15. Not modelled, and why

File names, limits and units are pure functions over text. Their cases are
characters and digits, which the repository's own tests and fuzz targets list; a
model would be the same list again. Pixel formats, key codes and media types are
tables. Wording, JSON and the spinner keep no state. Command lines and
environments of child processes, and the threads that drain their output, are
left out of `SessionPool`. The cryptography is taken as what it is used for: a
ciphertext opens with its key and with nothing else. Entries in an inbox that
Clift did not make, and several dates, are left out of `Staging`; no step of a
cleanup relates one date to another.
