# A verification development of rcargo

rcargo runs `cargo` on another machine: it sends the sources there with rsync,
runs cargo over ssh or through the daemon `rcargod`, streams the output back,
and optionally fetches the artifacts. This directory holds TLA+ models of it,
the TLC configurations that check them, and proofs for the TLA+ proof system.
Source references are to the files of this repository.

## 1. The system

### Parts, state and operations

| Part | Where | State | Operations |
|---|---|---|---|
| Protocol | `crates/rcargo-proto/src/lib.rs` | none | `Request`, `Event`, one JSON line each |
| Daemon session | `crates/rcargod/src/main.rs` `serve_one`, `run_cargo`, `emit` | position in the request stream; for a build: the child, two reader tasks, a waiter task, an unbounded channel | Hello, Build, Bye, lines that are no request, end of input, loss of the peer |
| Daemon process | same file, `main`, `futures_select`, `serve_tcp`, `serve_wt`, `handle_wt_session`; unit in `scripts/bootstrap-remote.sh` | one task per listener, one per connection, one per stream | bind, accept, handshake, `accept_bi`, exit, restart |
| WebTransport client | `crates/rcargo-client/src/webtransport_stub.rs` | one connection, one stream, the exit code seen | connect, send Hello and Build, half-close, read events, close |
| SSH transport | `crates/rcargo-client/src/transport/ssh.rs` | none between calls; the remote tree `remote_root/<key>/` and its `target/` | `sync_up` (mkdir, rsync), `run_cargo`, `pull_artifacts` |
| Invocation | `crates/rcargo-cli/src/main.rs` `run`, `main` | where it is in parsing, configuration, key, sync, run, pull | one sequence, every step may fail |
| Project key | `crates/rcargo-client/src/project_key.rs` | none | canonical path and git origin, hashed; override |
| Command line, local mode | `parse_args`, `run_local` in the same file; `scripts/install.sh` | none | one pass over the arguments; the first `cargo` on PATH, which may be rcargo |
| Configuration | `crates/rcargo-client/src/config.rs` | none | defaults, user file, project file, environment, flags; `sanity_check` |

### How they interact

`run` calls the transport, which starts programs (ssh, rsync, git) or opens a
WebTransport stream. The WebTransport client and a session exchange lines over
a byte stream, which may be lost at any moment. Inside a session three tasks
and the session itself share a channel; cargo is on the other side of two
pipes. Invocations share nothing locally but meet in the remote tree of a key,
where no lock of rcargo exists; cargo itself locks a profile's directory. The
daemon process ends with its first listener, and takes its sessions with it.

### What is hard, and what makes each part correct

* *Session*: three tasks and a slow or vanishing peer. Output in order and
  complete, Exit last and truthful, no build on top of another, cargo never
  stuck behind the peer, every session comes to its end.
* *WebTransport client*: silence, loss and refusal are not success.
* *Invocations*: half-finished syncs, leftovers of earlier ones, a remote cargo
  that outlives its connection. A success is a build of what was sent; what is
  pulled is that build; projects do not mix; `target/` survives.
* *Front end*: text on its way through a parser, a shell and rsync. Every argument
  comes out as it went in, four commands name one directory, the highest layer
  of configuration wins, what must not be uploaded or deleted is not, the last
  line of output is shown before the exit code is.
* *Daemon process*: a dead listener is noticed, crashes are repaired, clients do
  not wait for one another.

`PROJECT.json` lists every hazard at its line, with the properties that cover it.

## 2. Plan

Written, in this order (most important behaviour first):

1. `RcargoProto`, `BuildStream` (the promise), `RcargodSession` (the code that
   keeps it), `RcargodSessionProofs`
2. `WtBuild` (client composed with session)
3. `RcargoRun` (invocations against one remote host)
4. `RcargodDaemon`, `MCRcargodDaemon` (the process as a service)
5. the pure parts, each in a module of its own: `Texts`, `CommandLine`,
   `ConfigLayers`, `RemoteShell`, `RsyncRules`; `SshRun` for the ssh transport's
   tasks; and `Frontend`, which composes them into an invocation, with
   `MCFrontend`
6. proofs of what the runs check: `RcargodPromiseProofs` (the session implements
   `BuildStream`), `WtBuildProofs`, `RcargoRunProofs`, `RcargodDaemonProofs`,
   `RulesProofs` (lemmas about operators) and `FrontendProofs`

Next, all of it proofs:

7. the safety half of what is left to TLC because of liveness: that a session
   never stands where nobody can move it while cargo waits for a reader
   (behind `CargoNeverStalls`), and that a unit that restarts was ended by a
   crash (behind `CrashIsRepaired`)
8. the part of `SameDirectory` that does not read a command line: the daemon's
   directory and rsync's, for all roots and keys

## 3. Modules

**`RcargoProto`** holds requests, events, and `CodeOf`, the exit code that both
ends of every transport make of a child's status. A line of output is its
number within its stream; an event also carries the number of its build, which
the real stream leaves implicit.

**`BuildStream`** is the abstract specification of a session: an append-only
`wire`, builds with output per stream in order, then one Exit that tells how
cargo ended, or an Error and an Exit for a build that cannot start. It has no
tasks, pipes or channel.

**`RcargodSession`** is `serve_one` and `run_cargo`. `pc` is where the session
stands: `Read` (`next_line`), `Refuse` (the Error and Exit of a build that
cannot start), `Drain` (the `rx.recv()` loop), `Report` (the final Exit),
`Done`. `pending` are events it must write before it goes on; `Emit` is `emit`
with its wait for room in the transport. `ReadLine` and `ReaderStops` are
`out_task` and `err_task`, `WaitReaps` is `wait_task`, `SendersGone` is the
moment the last sender clone is dropped. The peer, the pipes, cargo and a
background process that inherits its pipes are external. A write on a pipe
blocks while the pipe is full and its reader alive; on a pipe whose reader has
gone it succeeds as far as this model is concerned (cargo gets an error and
decides for itself). With `Stdio` the process ends with its session.
`KeepsPromise` is the refinement: `Phase` maps `pc`, and the lines that may be
forwarded are those before the first that is no UTF-8.

**`WtBuild`** replaces the free peer of a session by the WebTransport client.
`client` follows `run_cargo` of `webtransport_stub.rs` line by line; every read
and write may fail once the connection is lost (`GiveUp`). `ExitStatus` is what
`main` of rcargo-cli makes of the outcome, the clamp to 8 bits included. `shown`
is what it has printed of each stream. `WtInv` is what `SuccessIsReal` rests on.

**`RcargoRun`** is a set of invocations against one remote host. `pc` follows
`run` through `sync_up`, `run_cargo`, `pull_artifacts`; rsync goes file by file,
cargo reads file by file, both in any order and interleaved with everything
else. A file is the directory and the number of its latest edit; what a build
leaves in `target/` is the sources it was compiled from. Keys are the pair that
`project_key_for` hashes. `LinkFails` is an ssh or WebTransport connection that
is never made or is lost, with a remote cargo that goes on or never starts. A
cargo that has found no file at all does not succeed. `Exclusive` keeps
invocations apart that share a key or a directory. `RunInv` and `ExclusiveInv`
are the inductive invariants behind its properties, without and with it.

**`RcargodDaemon`** is the process: listeners in the order of main's `Vec`,
`Select` for `futures_select` and main's return, connections through the three
stages of a WebTransport accept, and the systemd unit around it. A process may
crash (SIGKILL, SIGSEGV), end by a signal that systemd takes for a clean end
(SIGTERM, SIGINT, SIGHUP), or be stopped; `Restart=on-failure` is for the first.
`MCRcargodDaemon` gives its constants values.

**`Texts`** says what a text is here: a sequence of characters in which only
those that some code looks at stand for themselves. `<<"--rcargo-host">>` is
that flag, `<<"~", "/", "b">>` a path.

**`CommandLine`** is `parse_args`: a fold over the arguments, `wants` being the
flag whose `it.next()` comes next. **`ConfigLayers`** is `config.rs`: a layer is
a partial function, so that an unset field and an empty one differ.

**`RemoteShell`** has both ends of a command line: what `ssh.rs` writes (and
`project_key.rs`, for the key in it), and a small POSIX shell that takes it
apart again (`ShellReads`, one character at a time: quotes, escapes, blanks,
`&&`, a bare leading tilde). `RsyncPath` is the same directory as rsync is told
of it, `expand_tilde` as rcargod sees it.

**`RsyncRules`** has the rule lists and rsync's reading of them: for every
component of a path the first rule that fits decides; `--delete` spares what is
protected or, without `--delete-excluded`, excluded. A file is a path of names, a
name a stem and an extension.

**`SshRun`** is `run_cargo` of the ssh transport from the spawn on. `stage` is
where it waits: for ssh, then for the two tasks. ssh blocks on a full pipe; the
master of a shared connection may keep the pipes open when ssh has ended.

**`Frontend`** is one invocation, `run()` line by line, and applies all of the
above: `made` and `synced` are the directories that mkdir and rsync end up with
on the other side, `built` is the call that the remote cargo gets after the
shell, `called` the one that a local cargo gets. A shim makes `argv` the
arguments of the next rcargo. `MCFrontend` gives the inputs. What `RcargoRun`
splits (a transfer, a build) is one step here; what it leaves out (texts) is
here. `FrontInv` is the invariant that the proofs of its properties need.

Operators marked "Seeded fault" are plausible bugs of the code; no
specification uses them. Put in place of the operator they are named after,
each makes a property fail, which shows that the property is not vacuous.
`PROJECT.json` lists the pairs.

## 4. Runs

| Run | Question | Answer |
|---|---|---|
| `SessionOutput` | is output ordered, complete and closed under every interleaving? does the session keep its promise? | yes; the invariants of the proofs, `IInv` and `PromiseInv`, hold too |
| `SessionBuilds` | for any three requests, can one build meet another, or anything of it follow its Exit? | no |
| `SessionLiveness` | can a peer that never reads, or vanishes, hold cargo up? does every build report, does every session end? | cargo never, not even behind a reader that has ended; the rest if the peer reads and no process holds the pipes for ever |
| `SessionBinaryOutput` | is all output on the wire when Exit is sent? | **no**: a line that is no UTF-8 ends its reader |
| `WtBuild` | is exit status 0 always a real success, with all its output printed? do client and session come to an end? | yes, but both wait for ever on a process that outlives cargo and keeps its pipes for ever; `WtInv` holds |
| `WtRefused` | does the Exit code reach the user? | **no**: the client stops at the Error before it |
| `RunExclusive` | is a success a build of what was sent, is that what is pulled, does the remote `target/` of an override key survive? | yes, one invocation per key and directory at a time; `ExclusiveInv` holds |
| `RunOverlap` | do overlapping invocations of different directories stay apart, and are only successes pulled? does the `target/` of a hashed key survive any overlap? | yes; `RunInv` holds |
| `DaemonService` | are dead listeners noticed, crashes repaired, clients independent? | yes; a SIGTERM, SIGINT or SIGHUP is no crash to systemd |
| `DaemonRestart` | does a dead listener come back? | **no**: exit code 0 with `Restart=on-failure` |
| `Frontend` | do arguments, settings, paths and file lists mean to the remote shell, rsync and cargo what they meant to the user? is the output complete when the exit code is known, and does an invocation end? | yes; it ends if the programs, and the daemon, that it waits for do |
| `LocalShim` | does `--rcargo-local` stay local with rcargo installed as cargo? | **no**: the first cargo on PATH is rcargo |

The answers in bold are disagreements between code and documentation; the
findings in `PROJECT.json` quote both sides. Two more points a reader should
know are premises of properties instead. The Exit of a build waits for the end
of both pipes, so a process that outlives cargo and inherited them holds it
back, and with it the WebTransport client, which has no limit of its own
(`BackgroundDies` in `BuildFinishes`, `HangupEndsSession`, `ClientAnswers` and
`SessionFollowsClient`). When that client has gone, the session still waits: it
would notice only at its next write. The key of a directory changes with
its git origin, and with it the remote `target/`, although README.md:51-53 has
the same project always map to the same directory (`CacheStaysWarm` is about
directories whose remote is still the first one, or that set a key).

What `Frontend` showed besides, none of it promised otherwise by a property:

* `--include=*` precedes the excludes of `pull_artifacts`, which therefore never
  apply: `deps/` and `build/` are fetched, though ssh.rs:193-195 wants them left.
* A remote root `~user` splits a build: rsync expands it, `shell_quote_path`
  quotes it. rcargod expands only `~/`, not `~`. Both are exceptions of
  `SameDirectory`, and so is a daemon whose root is not the configured one, which
  nothing in a Build request could tell.
* The keys `.` and `..` pass `sanitize_basename`; the remote tree is then the
  remote root itself or its parent.
* A leading `--` reaches a remote cargo and not a local one.
* A line of output that is no UTF-8 ends its task, as in rcargod: what follows on
  that stream is not shown (`Readable` in `OutcomeIsWhole`).
* project_key.rs:16-18 has two copies of a repository share a key; the path is
  part of the hash, so they do not (`BuildsApart` needs it that way).

### Bounds

* *Session.* A pipe and the transport hold one line or event (`PipeCap`,
  `SockCap`), the tightest case: every write may block. `MaxLines = 2` makes
  reordering and loss within a stream possible, and with both streams lets
  output queue in all four places at once; `SessionLiveness` takes 3, more than
  the buffers between cargo and a peer that has stopped could hold if the
  channel were bounded like them. Two builds show leaks from one to the next,
  and three requests every pair of neighbours around a build; `SessionBuilds`
  has one line per pipe and no line that is not UTF-8, which `SessionOutput` and
  `SessionLiveness` have, and the process of `--stdio`, which the other runs do
  not have. Larger
  values add no new kind of state, and the proofs hold for all of them.
* *Invocations.* Two, because every property relates at most two; two files,
  so that a tree can be mixed; two directories that share a key or have keys
  of their own; one edit or deletion; one change of a remote per directory.
* *Front end.* Each set of inputs in `MCFrontend` varies one part and leaves the
  rest as usual, because the parts meet only in few places: all command lines of
  up to three arguments (a flag, its value, and what follows) with cargo on PATH
  being cargo, rcargo or absent; all arguments of up to three characters that a
  shell could misread; roots times keys times transports and daemon roots; every
  field present or absent in every layer, with a second field; up to two words in
  `rsync_args`, an include and an exclude of the same directory in either order
  among them; two lines on each stream through pipes that hold one. Local and
  remote trees have a file for each rule and each way to miss it.
* *Daemon.* Both listeners, two clients on one of them, and two troubles, so
  that a failure may hit a process that has been restarted.

### Fairness

Only what a runtime or an operating system schedules is fair: the session and
its tasks, the write of a line for which there is room, the end of a build that
has nothing more to write (a compiler terminates), the WebTransport client where
it can go on, systemd's timer, a listener's accept; in `Frontend` only run()
where it waits for nobody, and its two copying tasks. Peers, background
processes, the network, other programs, the user and the operator owe nothing,
and a handshake may hang for ever. What a liveness property needs of them is a
premise of that property and not part of the specification:

* `GoodPeer`: the peer keeps reading, as the clients of this repository do until
  Exit;
* `BackgroundDies`: a process that outlived cargo ends some time;
* `OthersAnswer`: mkdir, rsync, the local cargo and the daemon's stream do not
  keep run() waiting for ever (`Waits`), ssh goes on as long as it can write, and
  nothing holds its pipes for ever. What `InvocationEnds` then says is that
  rcargo itself is not what an invocation hangs on.

### Assumptions about the outside

The remote shell is a POSIX shell, ssh hands it one string. rsync is 3.2.4 or
later, which escapes a path it sends to a shell except for a leading tilde; words
of `rsync_args` are filter rules or `--delete-excluded`, no rule clears the list.
cargo locks the directory of a profile while it compiles, reads the sources
after it has the lock, and rebuilds what has changed (fingerprints and clock
skew are cargo's). rsync without failure makes a file what it was when it was
sent. A connection delivers in order what it delivers. Invocations build: one
that removes the remote `target/` (`rcargo clean`) is not in the model, and
`CacheStaysWarm` is about the others. `Exclusive` in `RunExclusive` stands for
a user who does not run two builds of one key, or in one directory, at the same
time (the pulls of two keys would meet in the one local `target/`); nothing in the
code prevents it, and nothing in the documentation promises more.

## 5. Proofs

Every theorem holds for all values of the constants that satisfy the `ASSUME` of
its module, bounds included: any number of lines, builds, requests, invocations,
directories, files, clients, rules. The inductive invariants are
INVARIANTs of the runs as well, but for two of an invocation: `OutcomeInv`, which
stands in its proof module, and `FrontInv`, whose parts are the state invariants
that `Frontend` checks and the state forms of its action properties.
Every theorem listed in `PROJECT.json` states a property that a run checks, but
for the three that carry what holds of a session over to the composition with a
client (`WtIsSession`, `WtStream`, `WtRefines`).

### The session (`RcargodSessionProofs`, `RcargodPromiseProofs`)

From `ConstantsAssumption` (pipes and transport hold at least one thing, codes
are of one byte): `Typed`, `InOrder`, `ExitCloses`, `OneBuildAtATime`.
`WireInOrder` and `ExitClosesBuild` are not inductive: what goes wrong on the
wire went wrong earlier, in the channel or in a pipe. `IInv` therefore speaks
about `Queue`, the wire followed by what is about to be written and by the
channel: it is in order from end to end (`QueueInv`), no line of the current
build in it is newer than the readers' count, all lines that were taken are in
it while the build drains, and its Exit is not. `PipeInv` continues the
numbering into the pipes. `PhaseInv` says who may be alive where the session
stands; from it follows that the channel is empty whenever nobody drains it,
and that a Build finds everything at rest. Most actions leave `Queue` alone or
move an event within it; only `Answer`, `RefuseBuild`, `ReadLine` and
`FinishBuild` append, and each has its lemma.

`Refines` is the refinement: a session is a behaviour of `BuildStream`. Each of
the promise's actions has a guard that the step of the code must be shown to
meet, and `IInv` does not suffice for three of them. `PendingInv` says what an
emit can be about to write, by the place of `serve_one`: otherwise a step that
writes could write anything. `GoodInv` says that what the readers take is
exactly the lines before the first that is no UTF-8: the promise's
`good`, which no variable of the code holds. `ReportInv` says that an Exit is
due only when these are all on the wire. `PromiseInductive` has the three.

### The WebTransport client (`WtBuildProofs`)

`WtIsSession` shows that `WtSpec` implies the session's specification, because
every step of the client is one of the peer; hence `WtStream` and `WtRefines`.
`SuccessReal` relates the exit status of a process on one host to the end of
cargo on another. `WtInv` carries it over the wire: there is one build
(`OneBuild`), an Exit 0 on the wire means that cargo has ended with 0 and its
lines went out before (`WireInv`, which needs `IInv` and `PromiseInv` of the
session), the client has printed what it has taken (`ShownInv`), so when it
takes an Exit 0 it has printed everything (`ZeroInv`). It assumes
`ClientAssumption`: the peer's bound has room for Hello and Build.

### Invocations (`RcargoRunProofs`)

`RunAssumption` says that there are directories, finitely many files, and at
least the profile that is built. Under any overlap (`RunInductive`):

* `Apart` (`BuildsApart`): a key that has a path is the key of that directory
  alone (`KeyInv`), so whatever a key leads to (tree, `target/`, what a cargo has
  read, what was pulled) stems from it (`ApartInv`).
* `Warm` (`CacheStaysWarm`): what a successful cargo leaves behind stays
  (`WarmInv`), and a directory whose remote did not change has kept its key.
  `CargoSucceeds` needs its guard here: a "success" with no file at all would
  look like an empty `target/`.
* `OnlySuccess` (`PullsOnlySuccess`), from the order in run() (`StageInv`).

With `Exclusive` (`ExclusiveInductive`), a hypothesis of the theorems:

* `OwnBuild` (`SuccessIsOwnBuild`): nobody else who is active has the key
  (`AloneInv`), so from its sync on the tree is what was sent, and cargo has read
  nothing else (`OwnInv`).
* `PulledOwn` (`PulledIsOwnBuild`) is the hard one. A cargo that an invocation
  left behind may still compile into the `target/` that is being pulled from.
  `LockInv` (cargo's lock) makes it wait; `SettledInv` says that, once the own
  cargo has succeeded, whoever compiles that profile has read nothing but what
  was sent, so that its build is the same one.

The attempt to prove it with one invocation per key failed: two keys of one
directory (with and without the override) pull into one local `target/`.
`Exclusive` therefore keeps directories apart as well.

### The daemon process (`RcargodDaemonProofs`)

`DaemonTyped`. The type invariant holds more than types: a process that has
ended leaves no listener and no connection behind, and a connection has come
only as far as its listener let it. The other properties of `RcargodDaemon` are
liveness.

### One invocation (`RulesProofs`, `FrontendProofs`)

`FrontAssumption` says what inputs are (a layer sets fields of the
configuration to texts, none in the environment sets `pull_artifacts`; a file is
a path of names). The user's rules are arbitrary, and so are layers, trees,
roots and arguments.

* `OutcomeWhole` (`OutcomeIsWhole`) is about the moment when run() goes on.
  `OutcomeInv` carries it there: what is copied is a readable prefix of what was
  written (`Copied`), a task ends only where it can read nothing more (`Ended`),
  which the exit of ssh makes final because nothing is written after it, the
  tasks are joined after the wait (`Staged`), and the code that run() returns is
  that of ssh (`Placed`).
* `TargetKept` (`TargetSurvives`), `UploadWhole` (`UploadIsWhole`) and
  `ProductsPulled` (`PullFetchesProducts`) rest on lemmas about filter lists: the
  first rule that fits decides (`FirstDecides`), the list of a sync is protect, six
  excludes and the user's words in that order (`SyncRulesAre`), so below `target/`
  the first two decide, and elsewhere a user's rule where no fixed one fits.
  `Trimmed` is therefore about the first of the user's rules that fits: an
  earlier `--include` of theirs keeps a file that a later `--exclude` names.
* `Precedence` (`ConfigPrecedence`): `InForce` reads the layers from the highest
  down, the code merges them from the lowest up, fills in defaults and overrides
  with flags; field by field they agree. `SplitArgs` and `merge_layers` are
  written without recursion so that this can be proved.
* `Hatch` (`EscapeHatch`), from where an invocation with `--rcargo-local` can be
  (`HatchInv`).
* `FrontTyped` (`FrontTypeOK`): that `exit` is one byte needs `OutcomeInv`, because
  the code of ssh comes to run() through `status`.
* `FrontInductive` has the state invariants among these, the effective
  configuration (`ConfigInv`) and the remote tree before and after the one
  transfer (`TreeInv`) in one; it is inductive with `OutcomeInv`.

### Model-checked only

* Liveness: `BuildFinishes`, `CargoNeverStalls`, `HangupEndsSession`,
  `ClientAnswers`, `SessionFollowsClient`, `InvocationEnds`, and of the daemon
  `ListenerLossIsSeen`, `CrashIsRepaired`, `NobodyWaitsForAnother`. The proof
  system has no support for fairness.
* `ForwardedVerbatim` and `SameDirectory`: the parser and the shell are folds over
  the arguments and characters of a line, and that a quoted text comes out of
  one as it went into the other for every text is an induction over that text.

## 6. Not modelled

The text of JSON, TOML, messages and logs, `ConfigSources` (printed only), TLS,
certificates and name resolution (`--rcargo-wt-host` may name a host that is not
the one rsync sends to), the environment of the child, Unicode outside ASCII in
names, and the words of `ssh_args` (handed to ssh as they are) are left out: no
property above depends on them. cargo's fingerprints and the clocks of the two
machines belong to cargo, and a collision of the 48-bit hash to probability.
The library surface, manifests, CI and tests have no state.
