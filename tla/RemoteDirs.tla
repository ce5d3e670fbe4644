----------------------------- MODULE RemoteDirs -----------------------------
(***************************************************************************)
(* The directories Clift makes on a host (clift-transport/src/fsops.rs):    *)
(* every sender ensures the inbox and its batch, every checker (setup,      *)
(* doctor) ensures the inbox and then tries it with a file of a fixed name  *)
(* (staging/selfcheck.rs). Each client talks to the server over a session   *)
(* of its own, so requests of different clients interleave, and a cleaner   *)
(* removes a date directory that has become empty.                          *)
(***************************************************************************)
EXTENDS Naturals, Sequences

CONSTANTS Uploaders, Checkers, Absent

ASSUME RemoteDirsAssumption ==
  /\ Uploaders \cap Checkers = {} /\ {"inbox", "date"} \cap Uploaders = {}
  /\ Absent \notin Uploaders \cup Checkers

VARIABLES
  honours,   \* the server applies the mode sent with mkdir
  chmods,    \* ... and executes setstat
  writable,  \* the account may create directories
  tree,      \* per path what is there: Absent or a node
  tried,     \* the file of the self check: Absent, or the checker it is from
  phase, at, \* per client: where it is, and the path of `want` it settles
  nested,    \* per client: the calls of ensure_in, innermost first
  second,    \* per client: the innermost call has made its parent
  asks,      \* per client: requests sent and not yet executed
  heard,     \* per client and path: the last answers to mkdir and lstat
  cleaned    \* the cleaner has removed a directory

server == <<honours, chmods, writable>>
calls == <<phase, at, nested, second>>
dirVars == <<server, tree, tried, calls, asks, heard, cleaned>>

Clients == Uploaders \cup Checkers
Paths == {"inbox", "date"} \cup Uploaders  \* a sender names its batch
Parent(p) == IF p = "date" THEN "inbox" ELSE "date"
Parents(p) == IF p = "inbox" THEN {} ELSE {Parent(p)}

Node(kind, mode, owner) == [kind |-> kind, mode |-> mode, owner |-> owner]
Nodes == [kind : {"dir", "file"}, mode : {"private", "loose"}, owner : {"clift", "user"}]

ASSUME AbsentAssumption == Absent \notin Nodes

Theirs ==
  {Node("dir", "private", "user"), Node("dir", "loose", "user"), Node("file", "private", "user")}
IsDir(node) == node # Absent /\ node.kind = "dir"

Want(c) == IF c \in Uploaders THEN <<"inbox", c>> ELSE <<"inbox">>
Request(op, p) == [op |-> op, path |-> p]
Pair(p) == <<Request("mkdir", p), Request("lstat", p)>>
Unheard == [made |-> "none", saw |-> Absent]

Checking == {"upload", "stat", "remove", "gone"}
ClientPlaces == {"idle", "settle", "chmod", "again", "undo", "done", "failed", "dead",
           "passed", "unwell"} \cup Checking

DirsTypeOK ==
  /\ {honours, chmods, writable} \subseteq BOOLEAN
  /\ tree \in [Paths -> Nodes \cup {Absent}]
  /\ tried \in Checkers \cup {Absent}
  /\ phase \in [Clients -> ClientPlaces]
  /\ at \in [Clients -> 1..3]
  /\ nested \in [Clients -> Seq(Paths)]
  /\ second \in [Clients -> BOOLEAN]
  /\ \A c \in Clients : \A i \in DOMAIN asks[c] : asks[c][i].path \in Paths
  /\ heard \in [Clients -> [Paths -> [made : {"none", "ok", "missing", "denied", "failure"},
                                      saw : Nodes \cup {Absent}]]]
  /\ \A p \in Paths : \A q \in Parents(p) : tree[p] # Absent => IsDir(tree[q])

DirsInit ==
  /\ honours \in BOOLEAN /\ chmods \in BOOLEAN /\ writable \in BOOLEAN
  /\ \E inbox \in Theirs \cup {Absent}, day \in {Node("dir", "private", "clift"), Absent} :
       /\ day # Absent => IsDir(inbox)
       /\ tree = [p \in Paths |-> CASE p = "inbox" -> inbox [] p = "date" -> day [] OTHER -> Absent]
  /\ tried = Absent
  /\ phase = [c \in Clients |-> "idle"]
  /\ at = [c \in Clients |-> 1]
  /\ nested = [c \in Clients |-> <<>>]
  /\ second = [c \in Clients |-> FALSE]
  /\ asks = [c \in Clients |-> <<>>]
  /\ heard = [c \in Clients |-> [p \in Paths |-> Unheard]]
  /\ cleaned = FALSE

-----------------------------------------------------------------------------
(* The server executes the requests of a session in order.                  *)

Hears(c, p, field, answer) ==
  heard' = [heard EXCEPT ![c][p] = IF field = "made" THEN [@ EXCEPT !.made = answer]
                                   ELSE [@ EXCEPT !.saw = answer]]

MkdirAnswer(p) ==
  CASE \E q \in Parents(p) : ~IsDir(tree[q]) -> "missing"
    [] tree[p] # Absent -> "failure"
    [] ~writable -> "denied"
    [] OTHER -> "ok"

Mkdir(c, p) ==
  /\ Hears(c, p, "made", MkdirAnswer(p))
  /\ tree' = IF MkdirAnswer(p) # "ok" THEN tree
             ELSE [tree EXCEPT ![p] = Node("dir", IF honours THEN "private" ELSE "loose", "clift")]

Lstat(c, p) == Hears(c, p, "saw", tree[p]) /\ UNCHANGED tree

SetMode(c, p) ==
  IF chmods /\ tree[p] # Absent
  THEN /\ tree' = [tree EXCEPT ![p] = [@ EXCEPT !.mode = "private"]]
       /\ Hears(c, p, "made", "ok")
  ELSE Hears(c, p, "made", IF tree[p] = Absent THEN "missing" ELSE "denied") /\ UNCHANGED tree

Empty(p) == \A q \in Paths : p \in Parents(q) => tree[q] = Absent
WithoutDir(p) == [tree EXCEPT ![p] = IF IsDir(@) /\ Empty(p) THEN Absent ELSE @]

Serve(c) ==
  /\ asks[c] # <<>>
  /\ LET ask == Head(asks[c]) IN
       \/ ask.op = "mkdir" /\ Mkdir(c, ask.path)
       \/ ask.op = "lstat" /\ Lstat(c, ask.path)
       \/ ask.op = "chmod" /\ SetMode(c, ask.path)
       \/ ask.op = "rmdir" /\ tree' = WithoutDir(ask.path) /\ UNCHANGED heard
  /\ asks' = [asks EXCEPT ![c] = Tail(@)]
  /\ UNCHANGED <<server, tried, calls, cleaned>>

-----------------------------------------------------------------------------
(* ensure_all, ensure_in and settle: a client goes on when it has the       *)
(* answers to all it sent.                                                  *)

Proceeds(c, place, requests) ==
  /\ phase' = [phase EXCEPT ![c] = place]
  /\ asks' = [asks EXCEPT ![c] = requests]

Path(c) == IF nested[c] = <<>> THEN Want(c)[at[c]] ELSE Head(nested[c])
Reported(c) == heard[c][Path(c)].made
Saw(c) == heard[c][Path(c)].saw
AllAnswered(c, place) == phase[c] = place /\ asks[c] = <<>>

\* Every mkdir and lstat is sent before the first answer is read.
BeginClient(c) ==
  /\ phase[c] = "idle"
  /\ Proceeds(c, "settle", IF c \in Uploaders THEN Pair("inbox") \o Pair(c) ELSE Pair("inbox"))
  /\ UNCHANGED <<server, tree, tried, at, nested, second, heard, cleaned>>

Fits_Kind(node) == IsDir(node)
Fits(node) == IsDir(node) /\ node.mode = "private"

\* The path is settled: the call of ensure_in returns to its caller, which
\* asks for its own directory again, or the next wanted path is next.
SettledOn(c) ==
  IF Len(nested[c]) > 1
  THEN /\ nested' = [nested EXCEPT ![c] = Tail(@)]
       /\ second' = [second EXCEPT ![c] = TRUE]
       /\ Proceeds(c, "settle", Pair(nested[c][2]))
       /\ UNCHANGED at
  ELSE /\ nested' = [nested EXCEPT ![c] = <<>>]
       /\ second' = [second EXCEPT ![c] = FALSE]
       /\ at' = [at EXCEPT ![c] = @ + 1]
       /\ Proceeds(c, IF at[c] < Len(Want(c)) THEN "settle"
                  ELSE IF c \in Checkers THEN "upload" ELSE "done", <<>>)

Forgets(c) == heard' = [heard EXCEPT ![c] = [p \in Paths |-> Unheard]]

\* The first failure is the answer. A later directory that this call created
\* with its first requests is removed again.
Created_None(c) == {}
Created(c) == {p \in {Want(c)[i] : i \in (at[c] + 1)..Len(Want(c))} : heard[c][p].made = "ok"}
Fails(c) ==
  /\ Proceeds(c, "undo", IF Created(c) = {} THEN <<>> ELSE <<Request("rmdir", c)>>)
  /\ nested' = [nested EXCEPT ![c] = <<>>]
  /\ second' = [second EXCEPT ![c] = FALSE]
  /\ Forgets(c)
  /\ UNCHANGED at

\* A parent is missing: ensure_in asks once more, then makes the parent, then
\* asks a last time.
MakeParent(c) ==
  /\ AllAnswered(c, "settle") /\ Reported(c) = "missing" /\ ~second[c]
  /\ LET next == IF nested[c] = <<>> THEN Path(c) ELSE Parent(Path(c)) IN
       /\ nested' = [nested EXCEPT ![c] = <<next>> \o @]
       /\ Proceeds(c, "settle", Pair(next))
  /\ UNCHANGED <<server, tree, tried, at, second, heard, cleaned>>

StillMissing(c) ==
  /\ AllAnswered(c, "settle") /\ Reported(c) = "missing" /\ second[c]
  /\ Fails(c)
  /\ UNCHANGED <<server, tree, tried, cleaned>>

\* "Failure" is what a server says of a path that is taken: what is there
\* decides, as it does for a directory this call made.
Decided_Made(c) == Reported(c) = "ok"
Decided(c) == Reported(c) \in {"ok", "failure"}

\* Whether this client may set the permissions: only what it created itself.
Ours_Any(c) == Reported(c) \in {"ok", "failure"}
Ours(c) == Reported(c) = "ok"

SettleNow(c) ==
  /\ AllAnswered(c, "settle") /\ Decided(c) /\ Fits(Saw(c))
  /\ SettledOn(c)
  /\ heard' = [heard EXCEPT ![c][Path(c)] = Unheard]
  /\ UNCHANGED <<server, tree, tried, cleaned>>

Tighten(c) ==
  /\ AllAnswered(c, "settle") /\ Ours(c) /\ IsDir(Saw(c)) /\ ~Fits(Saw(c))
  /\ Proceeds(c, "chmod", <<Request("chmod", Path(c)), Request("lstat", Path(c))>>)
  /\ UNCHANGED <<server, tree, tried, at, nested, second, heard, cleaned>>

\* Another Clift may have made it just now and not yet set its mode.
LookAgain(c) ==
  /\ AllAnswered(c, "settle") /\ ~Ours(c) /\ Decided(c)
  /\ Saw(c) # Absent /\ ~Fits(Saw(c))
  /\ Proceeds(c, "again", <<Request("lstat", Path(c))>>)
  /\ UNCHANGED <<server, tree, tried, at, nested, second, heard, cleaned>>

SettleFails(c) ==
  /\ AllAnswered(c, "settle")
  /\ Reported(c) # "missing"
  /\ ~Decided(c) \/ Saw(c) = Absent \/ (Reported(c) = "ok" /\ ~IsDir(Saw(c)))
  /\ Fails(c)
  /\ UNCHANGED <<server, tree, tried, cleaned>>

\* After a setstat or a second look, what is there now decides.
SettleLate(c) ==
  /\ AllAnswered(c, "chmod") \/ AllAnswered(c, "again")
  /\ IF Fits(Saw(c)) /\ Decided(c)
     THEN SettledOn(c) /\ heard' = [heard EXCEPT ![c][Path(c)] = Unheard]
     ELSE Fails(c)
  /\ UNCHANGED <<server, tree, tried, cleaned>>

Undone(c) ==
  /\ AllAnswered(c, "undo")
  /\ Proceeds(c, "failed", <<>>)
  /\ UNCHANGED <<server, tree, tried, at, nested, second, heard, cleaned>>

\* A client is killed; what it has sent is executed or lost.
Die(c) ==
  /\ phase[c] \notin {"idle", "done", "failed", "dead", "passed", "unwell"}
  /\ \E k \in 0..Len(asks[c]) : Proceeds(c, "dead", SubSeq(asks[c], 1, k))
  /\ nested' = [nested EXCEPT ![c] = <<>>]
  /\ second' = [second EXCEPT ![c] = FALSE]
  /\ Forgets(c)
  /\ UNCHANGED <<server, tree, tried, at, cleaned>>

-----------------------------------------------------------------------------
(* verify_round_trip: upload, look, remove, look again. The rename that     *)
(* ends an upload replaces nothing.                                         *)

Checks(c, place, next) ==
  /\ AllAnswered(c, place)
  /\ Proceeds(c, next, <<>>)
  /\ UNCHANGED <<server, tree, at, nested, second, heard, cleaned>>

Upload(c) ==
  \/ /\ tried = Absent /\ writable /\ Checks(c, "upload", "stat") /\ tried' = c
  \/ /\ tried # Absent \/ ~writable
     /\ Checks(c, "upload", "unwell") /\ UNCHANGED tried
Stat(c) ==
  /\ Checks(c, "stat", IF tried = Absent THEN "unwell" ELSE "remove")
  /\ UNCHANGED tried
\* A file that is already gone is removed all the same.
Remove(c) == Checks(c, "remove", "gone") /\ tried' = Absent
LookLast(c) ==
  /\ Checks(c, "gone", IF tried = Absent THEN "passed" ELSE "unwell")
  /\ UNCHANGED tried

-----------------------------------------------------------------------------
\* RemoteFs::remove on a date directory whose last batch is gone.
Clean ==
  /\ tree["date"] # Absent /\ Empty("date")
  /\ tree' = WithoutDir("date") /\ cleaned' = TRUE
  /\ UNCHANGED <<server, tried, calls, asks, heard>>

Step(c) ==
  \/ MakeParent(c) \/ StillMissing(c) \/ SettleNow(c) \/ Tighten(c) \/ LookAgain(c)
  \/ SettleFails(c) \/ SettleLate(c) \/ Undone(c)
  \/ Upload(c) \/ Stat(c) \/ Remove(c) \/ LookLast(c)

DirsNext == Clean \/ \E c \in Clients : BeginClient(c) \/ Serve(c) \/ Step(c) \/ Die(c)

DirsSpec == DirsInit /\ [][DirsNext]_dirVars

-----------------------------------------------------------------------------
\* A client that reports success leaves an inbox, and a batch, that are
\* private directories, also where mkdir ignores the mode and several first
\* sends run into each other (fsops.rs, settle).
PrivateWhenDone ==
  \A c \in Clients : phase[c] \in {"done", "passed"} \cup Checking =>
    \A i \in DOMAIN Want(c) :
      tree[Want(c)[i]] # Absent /\ tree[Want(c)[i]].mode = "private"

\* What the user had is checked and never corrected or removed (ensure_dir).
UsersUntouched ==
  [][\A p \in Paths : tree[p] # Absent /\ tree[p].owner = "user" => tree'[p] = tree[p]]_dirVars

\* On a server that applies the mode, clients that race for the same missing
\* directories do not fail each other: a failure has a cause outside Clift, or
\* the cleaner took a directory away underneath.
JustCause ==
  \A c \in Clients : phase[c] \in {"failed", "undo"} =>
    \/ ~writable \/ ~honours \/ cleaned
    \/ \E p \in Paths : tree[p] # Absent /\ tree[p].owner = "user"

\* A sender that stopped before its batch was settled has no batch on the
\* host, unless the server would not let it set the mode of one.
NoStrayBatch ==
  \A s \in Uploaders : phase[s] = "failed" /\ tree[s] # Absent => ~honours

\* A self check fails only on a host that would not take a send
\* (selfcheck.rs:9, "would a send work right now").
SelfCheckTrue == \A c \in Checkers : phase[c] = "unwell" => ~writable

=============================================================================
