------------------------------ MODULE Frontend ------------------------------
(***************************************************************************)
(* One invocation of rcargo over ssh, from the command line to the exit    *)
(* code: run() of rcargo-cli composed with the parser, the configuration,  *)
(* the command lines and filter rules of the ssh transport, the copying of *)
(* ssh's output, and with what shell and rsync on the other side make of   *)
(* it.  RcargoRun has the interleavings of such invocations and the parts  *)
(* of a transfer, WtBuild the build over WebTransport; here they are steps.*)
(***************************************************************************)
EXTENDS CommandLine, ConfigLayers, RemoteShell, RsyncRules, SshRun

CONSTANTS
  Inputs,       \* what a process may be started with
  LocalTree,    \* files of the project: paths, see RsyncRules
  RemoteTree,   \* files in its remote tree before
  ProfileTree   \* files of a profile's directory in the remote target/

(* A layer sets texts, and no variable of the environment is there for     *)
(* pull_artifacts.                                                         *)
Layered(i) ==
  /\ "pull_artifacts" \notin DOMAIN i.env
  /\ \A layer \in {i.user, i.project, i.env} :
       DOMAIN layer \subseteq Fields /\ \A f \in DOMAIN layer : layer[f] \in Seq(STRING)

(* A file is a path of names.                                              *)
ASSUME FrontAssumption ==
  /\ LocalTree \cup RemoteTree \cup ProfileTree \subseteq Seq(Names)
  /\ \A i \in Inputs : Layered(i)

VARIABLES
  input,   \* arguments, files, environment and PATH
  argv,    \* arguments of the rcargo process that runs: a shim starts others
  parsed,  \* what its parser made of them
  pc,      \* where its run() is
  cfg,     \* its effective configuration
  made, synced,  \* remote directory of mkdir and of rsync: a text
  tree,    \* the remote tree: file -> "remote" (was there) or "local" (was sent)
  built,   \* the call of the remote cargo, if any: <<[dir, args]>>
  called,  \* the call of the local cargo, if any: <<args>>
  pulled,  \* files that pull_artifacts has fetched
  exit     \* exit code

places == <<made, synced, tree>>
calls  == <<built, called, pulled>>
vars   == <<input, argv, parsed, pc, cfg, places, calls, exit, ssh_vars>>

Init ==
  /\ input \in Inputs
  /\ argv = input.argv /\ parsed = NoArgs /\ pc = "parse" /\ cfg = Default
  /\ made = <<>> /\ synced = <<>> /\ tree = [p \in RemoteTree |-> "remote"]
  /\ built = <<>> /\ called = <<>> /\ pulled = {} /\ exit = 0
  /\ SshInit

key == project_key_for(input.basename, input.env_key)

(* main hands the code on: every code here is a u8.                        *)
Finish(code) == pc' = "done" /\ exit' = code

-----------------------------------------------------------------------------
(* run(): up to the transport *)

Prints(p) == print_help(p) \/ print_version(p)

(* Seeded fault: --rcargo-local is looked at when there is a configuration. *)
ParseLoadsFirst ==
  /\ pc = "parse"
  /\ parsed' = parse_args(argv)
  /\ \/ parsed'.error /\ Finish(1)
     \/ ~parsed'.error /\ Prints(parsed') /\ Finish(0)
     \/ ~parsed'.error /\ ~Prints(parsed') /\ pc' = "load" /\ UNCHANGED exit
  /\ UNCHANGED <<input, argv, cfg, places, calls, ssh_vars>>

Parse ==
  /\ pc = "parse"
  /\ parsed' = parse_args(argv)
  /\ \/ parsed'.error /\ Finish(1)
     \/ ~parsed'.error /\ Prints(parsed') /\ Finish(0)
     \/ /\ ~parsed'.error /\ ~Prints(parsed')
        /\ pc' = IF local(parsed') THEN "local" ELSE "load"
        /\ UNCHANGED exit
  /\ UNCHANGED <<input, argv, cfg, places, calls, ssh_vars>>

WithoutSeparator(args) ==
  IF args # <<>> /\ Head(args) = <<"--">> THEN Tail(args) ELSE args

(* run_local starts the first cargo on PATH, which may be rcargo itself by *)
(* another name; its exit code is handed on.                               *)
RunLocal ==
  /\ pc = "local"
  /\ LET args == WithoutSeparator(parsed.cargo_args) IN
     \/ /\ input.cargo = "none"
        /\ Finish(1) /\ UNCHANGED <<argv, called>>
     \/ /\ input.cargo = "rcargo"
        /\ argv' = args /\ pc' = "parse" /\ UNCHANGED <<exit, called>>
     \/ /\ input.cargo = "cargo"
        /\ called' = <<args>> /\ UNCHANGED argv
        /\ \E c \in Statuses : Finish(CodeOf(c))
  /\ UNCHANGED <<input, parsed, cfg, places, built, pulled, ssh_vars>>

LoadConfig ==
  /\ pc = "load"
  /\ LET c  == apply_overrides(load(input.user, input.project, input.env),
                               cli_overrides(parsed))
         ok == input.broken = {} /\ sanity_check(c)
     IN \/ ~ok /\ Finish(1) /\ UNCHANGED cfg
        \/ ok /\ pc' = "configured" /\ cfg' = c /\ UNCHANGED exit
  /\ UNCHANGED <<input, argv, parsed, places, calls, ssh_vars>>

(* Explain the configuration, or build the transport: WebTransport only if *)
(* it was compiled in.                                                     *)
ChooseTransport ==
  /\ pc = "configured"
  /\ \/ explain_config(parsed) /\ Finish(0)
     \/ /\ ~explain_config(parsed)
        /\ IF transport_choice(parsed) = "Ssh" \/ input.webtransport
           THEN pc' = "mkdir" /\ UNCHANGED exit ELSE Finish(1)
  /\ UNCHANGED <<input, argv, parsed, cfg, places, calls, ssh_vars>>

-----------------------------------------------------------------------------
(* sync_up *)

Mkdir ==
  /\ pc = "mkdir"
  /\ made' = MkdirReads(mkdir_cmd(cfg.remote_root, key))
  /\ pc' = "rsync"
  /\ UNCHANGED <<input, argv, parsed, cfg, synced, tree, calls, exit, ssh_vars>>

Rsync ==
  /\ pc = "rsync"
  /\ synced' = HomeOf(RsyncPath(cfg.remote_root, key))
  /\ tree' = Mirror(tree, LocalTree, cfg.rsync_args)
  /\ pc' = "run"
  /\ UNCHANGED <<input, argv, parsed, cfg, made, calls, exit, ssh_vars>>

(* A command that cannot be spawned, or that fails.                        *)
CommandFails ==
  /\ pc \in {"mkdir", "rsync", "run"}
  /\ Finish(1)
  /\ UNCHANGED <<input, argv, parsed, cfg, places, calls, ssh_vars>>

-----------------------------------------------------------------------------
(* run_cargo and what follows it *)

(* The variant of the enum Transport that the calls of run() go to; sync_up *)
(* and pull_artifacts of both are those of ssh.                            *)
Via(kind) == transport_choice(parsed) = kind

RunOverSsh ==
  /\ pc = "run" /\ Via("Ssh")
  /\ built' = <<CargoCalled(build_remote_cargo_cmd(cfg.remote_root, key, parsed.cargo_args))>>
  /\ Spawn(input.lines)
  /\ pc' = "ssh"
  /\ UNCHANGED <<input, argv, parsed, cfg, places, called, pulled, exit>>

(* The request carries the key and the arguments; the root is rcargod's.   *)
RunOverWt ==
  /\ pc = "run" /\ Via("WebTransport")
  /\ built' = <<[dir |-> RsyncPath(expand_tilde(input.daemon_root), key),
                 args |-> parsed.cargo_args]>>
  /\ pc' = "stream"
  /\ UNCHANGED <<input, argv, parsed, cfg, places, called, pulled, exit, ssh_vars>>

(* The code of an outcome: artifacts are pulled after a success only.      *)
Outcome(code) ==
  IF cfg.pull_artifacts = True /\ code = 0
  THEN pc' = "pull" /\ UNCHANGED exit ELSE Finish(code)

SshReturns ==
  /\ pc = "ssh" /\ stage = "back"
  /\ Outcome(CodeOf(status[1]))
  /\ UNCHANGED <<input, argv, parsed, cfg, places, calls, ssh_vars>>

WtReturns ==
  /\ pc = "stream"
  /\ Finish(1) \/ \E c \in Statuses : Outcome(CodeOf(c))
  /\ UNCHANGED <<input, argv, parsed, cfg, places, calls, ssh_vars>>

(* Nothing is said about a pull that fails.                                *)
Pull ==
  /\ pc = "pull"
  /\ pulled' \in {{}, {p \in ProfileTree : Sent(PullRules, p)}}
  /\ Finish(0)
  /\ UNCHANGED <<input, argv, parsed, cfg, places, built, called, ssh_vars>>

-----------------------------------------------------------------------------

Rcargo ==
  \/ Parse \/ RunLocal \/ LoadConfig \/ ChooseTransport \/ Mkdir \/ Rsync
  \/ CommandFails \/ RunOverSsh \/ RunOverWt \/ SshReturns \/ WtReturns \/ Pull

front == <<input, argv, parsed, pc, cfg, places, calls, exit>>

AtRest == pc = "done" /\ UNCHANGED vars

Next ==
  \/ Rcargo \/ AtRest
  \/ (Transport \/ SshGoesOn \/ SshKilled \/ PipesClosed) /\ UNCHANGED front

Places == {"parse", "local", "load", "configured", "mkdir", "rsync", "run", "ssh",
           "stream", "pull", "done"}

(* Where run() waits for a program that it has started, or for the daemon. *)
Waits == {"local", "mkdir", "rsync", "stream", "pull"}

(* Where it goes on by itself.  Its every action changes pc, and nothing   *)
(* else does: a step of Moves is one of Rcargo.                            *)
CanGoOn == pc \in {"parse", "load", "configured", "run"} \/ (pc = "ssh" /\ stage = "back")
Moves   == CanGoOn /\ pc' \in Places

(* Only rcargo and its tasks are scheduled here: other programs, the       *)
(* network and the daemon owe nothing.                                     *)
Fairness == WF_pc(Moves) /\ WF_vars(Transport /\ UNCHANGED front)

Spec == Init /\ [][Next]_vars /\ Fairness
-----------------------------------------------------------------------------
(* Properties *)

FrontTypeOK ==
  /\ exit \in 0..255
  /\ pc \in Places
  /\ DOMAIN cfg = Fields /\ DOMAIN tree \subseteq LocalTree \cup RemoteTree
  /\ Len(built) <= 1 /\ Len(called) <= 1 /\ pulled \subseteq ProfileTree
  /\ SshTypeOK

(* What is rcargo's of a command line, said without a parser: flags, each  *)
(* with the argument behind it if it takes a value.  V: where the values   *)
(* are.                                                                    *)
IsOwn(args) ==
  \E V \in SUBSET DOMAIN args : \A i \in DOMAIN args :
    /\ i \in V <=> i > 1 /\ i - 1 \notin V /\ Is(args[i - 1], ValueFlags)
    /\ i \in V \/ Is(args[i], ValueFlags \cup Switches)
    /\ i = Len(args) => i \in V \/ ~Is(args[i], ValueFlags)

CargoPart(args) ==
  LET own == {n \in 0..Len(args) : IsOwn(SubSeq(args, 1, n))}
  IN  SubSeq(args, Max(own) + 1, Len(args))

(* The cargo that is started, on the other side of a shell or here, gets   *)
(* every argument behind rcargo's own, as it was written, in order, and no *)
(* other (README.md:82-83, main.rs:10-14).                                 *)
ForwardedVerbatim ==
  [][/\ built' # built => built'[1].args = CargoPart(argv)
     /\ called' # called => called'[1] = WithoutSeparator(CargoPart(argv))]_vars

(* From the first contact with the remote host on, every setting is that   *)
(* of the highest of command line, environment, project file, user file    *)
(* that has it, or the default (README.md:57, config.rs:1-2), the two      *)
(* lists split into words; no file was broken, and the host is no blank.   *)
InForce(f) ==
  LET layers == <<cli_overrides(parsed), input.env, input.project, input.user>>
      having == {n \in DOMAIN layers : f \in DOMAIN layers[n]}
      text   == layers[Min(having)][f]
  IN  IF having = {} THEN Default[f] ELSE IF f \in Lists THEN SplitArgs(text) ELSE text

ConfigPrecedence ==
  [][made' # made => /\ input.broken = {} /\ ~Blank(cfg.host)
                     /\ \A f \in Fields : cfg[f] = InForce(f)]_vars

(* ~user is a home to rsync, and a file name to a quoted shell word.       *)
NamesUser(root) == Len(root) > 1 /\ root[1] = "~" /\ root[2] # "/"

(* A daemon whose root is another one, or relative to where it was started.*)
DaemonElsewhere ==
  /\ Via("WebTransport")
  /\ \/ input.daemon_root # cfg.remote_root
     \/ Head(expand_tilde(input.daemon_root)) \notin {"/", "$HOME"}

(* mkdir through a shell, rsync by its own ssh, cd through a shell, or the *)
(* daemon: all name one directory, a child of the remote root, with the    *)
(* home put in for a leading ~ (ssh.rs:222-229).  Exceptions are roots of  *)
(* another user's home, the keys . and .., and a daemon that is elsewhere. *)
SameDirectory ==
  [][/\ synced' # synced => made = synced' \/ NamesUser(cfg.remote_root)
     /\ built' # built =>
          built'[1].dir = synced \/ NamesUser(cfg.remote_root) \/ DaemonElsewhere
     /\ made' # made /\ input.env_key \notin {<<".">>, <<"..">>} =>
          \E i \in DOMAIN made' :
            LET child == SubSeq(made', i, Len(made'))
            IN  /\ made' = HomeOf(cfg.remote_root) \o <<"/">> \o child \/ NamesUser(cfg.remote_root)
                /\ ~Contains(child, "/")]_vars

(* Names that are never uploaded (README.md:113-116), at any depth.        *)
Unsent(p) ==
  \/ \E i \in 1..(Len(p) - 1) : p[i] \in {Plain("target"), Plain("node_modules")}
  \/ \E i \in DOMAIN p : \/ p[i] \in {Plain(".DS_Store"), Plain(".env"), Name(".env", "local")}
                         \/ p[i].ext = "swp"

(* The user's rules that speak of component i of a path.                   *)
UserOn(p, i) ==
  {n \in DOMAIN cfg.rsync_args :
     /\ cfg.rsync_args[n] \in DOMAIN UserRules
     /\ LET r == UserRules[cfg.rsync_args[n]]
        IN  r.kind \in {"include", "exclude"} /\ Fits(r.glob, p[i]) /\ (r.dir => i < Len(p))}

(* Files of the project that the user trims by --exclude (README.md:119),  *)
(* with no --include of theirs before it.                                  *)
Trimmed(p) ==
  \E i \in DOMAIN p : \E n \in UserOn(p, i) :
    /\ UserRules[cfg.rsync_args[n]].kind = "exclude"
    /\ \A m \in UserOn(p, i) : n <= m

(* A sync sends everything of the project but the documented exceptions    *)
(* and what the user trims; no words in rsync_args let an exception        *)
(* through.                                                                *)
UploadIsWhole ==
  [][synced' # synced =>
       \A p \in LocalTree :
         (p \in DOMAIN tree' /\ tree'[p] = "local") <=> ~Unsent(p) /\ ~Trimmed(p)]_vars

(* Whatever rsync_args say, no sync deletes or overwrites a file below a   *)
(* remote target/: the cache of later builds (ssh.rs:47, ssh.rs:91).       *)
TargetSurvives ==
  \A p \in RemoteTree :
    (\E i \in 1..(Len(p) - 1) : p[i] = Plain("target")) => p \in DOMAIN tree /\ tree[p] = "remote"

(* A pull that works brings back every file that lies directly in the      *)
(* directory of a profile: libraries, and binaries without an extension.   *)
PullFetchesProducts ==
  pulled # {} => {p \in ProfileTree : Len(p) = 1} \subseteq pulled

(* run_cargo returns ssh's own exit code, 255 for none, and only when all  *)
(* lines of both streams that can be read have been copied.                *)
OutcomeIsWhole ==
  pc \in {"pull", "done"} /\ stage # "off" =>
    /\ stage = "back" /\ exit = CodeOf(status[1])
    /\ \A s \in Streams : shown[s] = Cardinality(Readable(s))

AsksLocal ==
  LET p == parse_args(input.argv) IN local(p) /\ ~p.error /\ ~Prints(p)

(* --rcargo-local needs no configuration and no remote host: it ends with  *)
(* the local cargo called (README.md:93-95), if cargo on PATH is cargo.    *)
EscapeHatch ==
  [][pc' \in {"done", "mkdir"} /\ input.cargo # "rcargo" /\ AsksLocal =>
       pc' = "done" /\ (called' # <<>> \/ input.cargo = "none")]_pc

(* The same with the shim installed as README.md:97-107 describes, which   *)
(* ends: "To get the real cargo back, run `rcargo --rcargo-local ...`".    *)
LocalStaysLocal == [][pc' = "mkdir" => ~AsksLocal]_pc

(* What others would have to do: programs end, and so does the stream of   *)
(* the daemon; ssh goes on as long as it can write, and nothing holds its  *)
(* pipes for ever.                                                         *)
OthersAnswer ==
  /\ []<>(pc \notin Waits)
  /\ WF_vars(SshGoesOn /\ UNCHANGED front) /\ <>[]~held

(* Then an invocation comes to its end: ssh is never stuck in a write that *)
(* rcargo ought to make room for, run() never waits for a task that waits  *)
(* for it, and rcargo does not start itself again and again where cargo on *)
(* PATH is rcargo.                                                         *)
InvocationEnds == OthersAnswer => <>(pc = "done")
-----------------------------------------------------------------------------
(* What the properties rest on: an invariant, step by step                 *)

(* Nothing is sent before the rsync of the invocation.                     *)
Unsynced == {"parse", "local", "load", "configured", "mkdir", "rsync"}

TreeInv ==
  /\ pc \in Unsynced => tree = [p \in RemoteTree |-> "remote"]
  /\ TargetSurvives

(* The configuration that the transport is made of.                        *)
ConfigInv ==
  /\ cfg.rsync_args \in Seq(Seq(STRING))
  /\ pc \in {"configured", "mkdir"} =>
       /\ input.broken = {} /\ ~Blank(cfg.host)
       /\ \A f \in Fields : cfg[f] = InForce(f)

(* Where --rcargo-local can be.                                            *)
HatchInv ==
  input.cargo # "rcargo" /\ AsksLocal =>
    /\ pc \in {"parse", "local", "done"}
    /\ pc = "parse" => argv = input.argv
    /\ pc = "done" => called # <<>> \/ input.cargo = "none"

FrontInv ==
  /\ Layered(input) /\ FrontTypeOK
  /\ TreeInv /\ ConfigInv /\ HatchInv /\ PullFetchesProducts
=============================================================================
