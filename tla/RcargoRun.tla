------------------------------ MODULE RcargoRun ------------------------------
(***************************************************************************)
(* Invocations of the rcargo command against one remote host: run() of     *)
(* rcargo-cli from the project key on, with the transport's sync_up,       *)
(* run_cargo and pull_artifacts.  Every step of it is a program started on *)
(* the side (ssh, rsync, the remote cargo), may fail, and is interleaved   *)
(* with other invocations, with the user who edits the sources, and with a *)
(* remote cargo that outlives the connection it was started over.          *)
(*                                                                         *)
(* A file is its latest content: which directory it was edited in, and the *)
(* number of the edit.  What a build leaves in target/ is the sources it   *)
(* was compiled from.                                                      *)
(***************************************************************************)
EXTENDS RcargoProto, FiniteSets

CONSTANTS
  Invocations,  \* runs of the rcargo command
  Dirs,         \* local project directories (names)
  Files,        \* source files of a project, none of them excluded
  Profiles,     \* directories of target/ that pull_artifacts asks for
  MaxEdits,     \* bound: edits of source files
  MaxOrigins,   \* bound: changes of a git remote
  Shared,       \* directories run with one RCARGO_PROJECT_KEY
  Exclusive     \* TRUE: no two invocations at a time with one key or directory

ASSUME RunAssumption ==
  /\ "none" \notin Dirs /\ Shared \subseteq Dirs /\ Dirs # {}
  /\ MaxEdits \in Nat /\ MaxOrigins \in Nat
  /\ Exclusive \in BOOLEAN /\ IsFiniteSet(Files)
  /\ IsFiniteSet(Profiles) /\ Profiles # {}

VARIABLES
  source,   \* per directory and file: its content
  edits,    \* edits so far
  origin,   \* per directory: which git remote it has
  product,  \* per directory and profile: what the local target/ holds
  tree,     \* per key and file: the remote sources
  cache,    \* per key and profile: what the remote target/ holds
  pc,       \* per invocation: where run() is
  dir, key, profile, pull,  \* its directory, key, profile, and --rcargo-pull-artifacts
  todo,     \* files rsync has not dealt with, or profiles not pulled yet
  sent,     \* per file: the content its rsync left in the remote tree
  cargo,    \* its remote cargo: "none", "started", "compiling", "exited"
  unread,   \* files that cargo has not read yet
  seen,     \* per file: the content cargo read
  status,   \* exit code of that cargo
  result,   \* exit code of the rcargo process
  missed    \* some rsync of pull_artifacts failed

local  == <<source, edits, origin>>
choice == <<dir, key, profile, pull>>
remote == <<cargo, unread, seen, status>>
vars   == <<local, product, tree, cache, pc, choice, todo, sent, remote,
            result, missed>>

-----------------------------------------------------------------------------
(* Contents and keys *)

Absent  == [dir |-> "none", rev |-> 0]
Content == {Absent} \cup [dir : Dirs, rev : 1..(MaxEdits + 1)]
Sources == [Files -> Content]
NoBuild == [f \in Files |-> Absent]

(* A key is the hash of the canonical path and the URL of git's origin, as *)
(* a pair, or the override, which is the same for all who set it.          *)
Keys == [path : Dirs, origin : 0..MaxOrigins] \cup {[path |-> "none", origin |-> 0]}

(* Seeded fault: the path is left out of the hash.                         *)
KeyOfOrigin(d) == [path |-> CHOOSE x \in Dirs : TRUE, origin |-> origin[d]]

KeyOf(d) ==
  IF d \in Shared THEN [path |-> "none", origin |-> 0]
                  ELSE [path |-> d, origin |-> origin[d]]

Init ==
  /\ source = [d \in Dirs |-> [f \in Files |-> [dir |-> d, rev |-> 1]]]
  /\ edits = 0 /\ origin = [d \in Dirs |-> 0]
  /\ product = [d \in Dirs |-> [p \in Profiles |-> NoBuild]]
  /\ tree = [k \in Keys |-> NoBuild]
  /\ cache = [k \in Keys |-> [p \in Profiles |-> NoBuild]]
  /\ pc = [i \in Invocations |-> "idle"]
  /\ dir = [i \in Invocations |-> CHOOSE d \in Dirs : TRUE]
  /\ key = [i \in Invocations |-> CHOOSE k \in Keys : TRUE]
  /\ profile = [i \in Invocations |-> CHOOSE p \in Profiles : TRUE]
  /\ pull = [i \in Invocations |-> FALSE]
  /\ todo = [i \in Invocations |-> {}]
  /\ sent = [i \in Invocations |-> NoBuild]
  /\ cargo = [i \in Invocations |-> "none"]
  /\ unread = [i \in Invocations |-> {}]
  /\ seen = [i \in Invocations |-> NoBuild]
  /\ status = [i \in Invocations |-> 0]
  /\ result = [i \in Invocations |-> 0]
  /\ missed = [i \in Invocations |-> FALSE]

Active(i) == pc[i] \notin {"idle", "done"}

-----------------------------------------------------------------------------
(* The user *)

Edit(d, f) ==
  /\ edits < MaxEdits
  /\ edits' = edits + 1
  /\ \E c \in {Absent, [dir |-> d, rev |-> edits + 2]} :
       source' = [source EXCEPT ![d][f] = c]
  /\ UNCHANGED <<origin, product, tree, cache, pc, choice, todo, sent, remote,
                 result, missed>>

SetOrigin(d) ==
  /\ origin[d] < MaxOrigins
  /\ origin' = [origin EXCEPT ![d] = @ + 1]
  /\ UNCHANGED <<source, edits, product, tree, cache, pc, choice, todo, sent,
                 remote, result, missed>>

(* project_key_for, once the command line and the configuration are read.  *)
Start(i, d, p) ==
  /\ pc[i] = "idle"
  /\ Exclusive => \A j \in Invocations :
                    Active(j) => key[j] # KeyOf(d) /\ dir[j] # d
  /\ pc' = [pc EXCEPT ![i] = "mkdir"]
  /\ dir' = [dir EXCEPT ![i] = d]
  /\ key' = [key EXCEPT ![i] = KeyOf(d)]
  /\ profile' = [profile EXCEPT ![i] = p]
  /\ \E b \in BOOLEAN : pull' = [pull EXCEPT ![i] = b]
  /\ UNCHANGED <<local, product, tree, cache, todo, sent, remote, result, missed>>

-----------------------------------------------------------------------------
(* sync_up *)

(* run() ends: with an outcome's exit code, or with 1 for an error.        *)
Done(i, c) ==
  /\ pc' = [pc EXCEPT ![i] = "done"]
  /\ result' = [result EXCEPT ![i] = c]

Mkdir(i) ==
  /\ pc[i] = "mkdir"
  /\ pc' = [pc EXCEPT ![i] = "rsync"]
  /\ todo' = [todo EXCEPT ![i] = Files]
  /\ UNCHANGED <<local, product, tree, cache, choice, sent, remote, result, missed>>

(* Seeded fault: rsync without --delete.                                   *)
SyncFileNoDelete(i, f) ==
  /\ pc[i] = "rsync" /\ f \in todo[i]
  /\ todo' = [todo EXCEPT ![i] = @ \ {f}]
  /\ IF source[dir[i]][f] = Absent THEN UNCHANGED tree
     ELSE tree' = [tree EXCEPT ![key[i]][f] = source[dir[i]][f]]
  /\ sent' = [sent EXCEPT ![i][f] = source[dir[i]][f]]
  /\ UNCHANGED <<local, product, cache, pc, choice, remote, result, missed>>

(* Seeded fault: target/ is neither excluded nor protected, so that the    *)
(* remote one is deleted where the local one holds nothing.                *)
SyncFileNoProtect(i, f) ==
  /\ pc[i] = "rsync" /\ f \in todo[i]
  /\ todo' = [todo EXCEPT ![i] = @ \ {f}]
  /\ tree' = [tree EXCEPT ![key[i]][f] = source[dir[i]][f]]
  /\ sent' = [sent EXCEPT ![i][f] = source[dir[i]][f]]
  /\ cache' = [cache EXCEPT ![key[i]] = product[dir[i]]]
  /\ UNCHANGED <<local, product, pc, choice, remote, result, missed>>

(* rsync makes one file of the remote tree what the local one is by then,  *)
(* or deletes it.  target/ is excluded and protected.                      *)
SyncFile(i, f) ==
  /\ pc[i] = "rsync" /\ f \in todo[i]
  /\ todo' = [todo EXCEPT ![i] = @ \ {f}]
  /\ tree' = [tree EXCEPT ![key[i]][f] = source[dir[i]][f]]
  /\ sent' = [sent EXCEPT ![i][f] = source[dir[i]][f]]
  /\ UNCHANGED <<local, product, cache, pc, choice, remote, result, missed>>

Synced(i) ==
  /\ pc[i] = "rsync" /\ todo[i] = {}
  /\ pc' = [pc EXCEPT ![i] = "run"]
  /\ UNCHANGED <<local, product, tree, cache, choice, todo, sent, remote, result, missed>>

(* Seeded fault: the exit status of mkdir and rsync is not looked at.      *)
SyncFailsUnseen(i) ==
  /\ pc[i] \in {"mkdir", "rsync"}
  /\ pc' = [pc EXCEPT ![i] = "run"]
  /\ UNCHANGED <<local, product, tree, cache, choice, todo, sent, remote, result, missed>>

(* ssh mkdir or rsync fails, at any point, and leaves what it has done.    *)
SyncFails(i) ==
  /\ pc[i] \in {"mkdir", "rsync"}
  /\ Done(i, 1)
  /\ UNCHANGED <<local, product, tree, cache, choice, todo, sent, remote, missed>>

-----------------------------------------------------------------------------
(* run_cargo, and cargo on the remote host *)

RunCargo(i) ==
  /\ pc[i] = "run"
  /\ pc' = [pc EXCEPT ![i] = "wait"]
  /\ cargo' = [cargo EXCEPT ![i] = "started"]
  /\ unread' = [unread EXCEPT ![i] = Files]
  /\ UNCHANGED <<local, product, tree, cache, choice, todo, sent, seen, status,
                 result, missed>>

(* cargo locks the directory of its profile in target/ while it compiles.  *)
CargoLocks(i) ==
  /\ cargo[i] = "started"
  /\ \A j \in Invocations :
       key[j] = key[i] /\ profile[j] = profile[i] => cargo[j] # "compiling"
  /\ cargo' = [cargo EXCEPT ![i] = "compiling"]
  /\ UNCHANGED <<local, product, tree, cache, pc, choice, todo, sent, unread,
                 seen, status, result, missed>>

CargoReads(i, f) ==
  /\ cargo[i] = "compiling" /\ f \in unread[i]
  /\ unread' = [unread EXCEPT ![i] = @ \ {f}]
  /\ seen' = [seen EXCEPT ![i][f] = tree[key[i]][f]]
  /\ UNCHANGED <<local, product, tree, cache, pc, choice, todo, sent, cargo,
                 status, result, missed>>

(* Without a single file there is no manifest, and nothing to succeed with. *)
CargoSucceeds(i) ==
  /\ cargo[i] = "compiling" /\ unread[i] = {} /\ seen[i] # NoBuild
  /\ cargo' = [cargo EXCEPT ![i] = "exited"]
  /\ status' = [status EXCEPT ![i] = 0]
  /\ cache' = [cache EXCEPT ![key[i]][profile[i]] = seen[i]]
  /\ UNCHANGED <<local, product, tree, pc, choice, todo, sent, unread, seen,
                 result, missed>>

(* A compile error, a missing cargo, or a signal that ends it.             *)
CargoFails(i, c) ==
  /\ cargo[i] \in {"started", "compiling"}
  /\ cargo' = [cargo EXCEPT ![i] = "exited"]
  /\ status' = [status EXCEPT ![i] = CodeOf(c)]
  /\ UNCHANGED <<local, product, tree, cache, pc, choice, todo, sent, unread,
                 seen, result, missed>>

(* Seeded fault: pull_artifacts is called whatever the exit code.          *)
CollectAndPull(i) ==
  /\ pc[i] = "wait" /\ cargo[i] = "exited"
  /\ IF pull[i]
     THEN /\ pc' = [pc EXCEPT ![i] = "pull"]
          /\ todo' = [todo EXCEPT ![i] = Profiles]
          /\ UNCHANGED result
     ELSE Done(i, status[i]) /\ UNCHANGED todo
  /\ UNCHANGED <<local, product, tree, cache, choice, sent, remote, missed>>

(* The exit code reaches run(), which pulls only after a success.          *)
Collect(i) ==
  /\ pc[i] = "wait" /\ cargo[i] = "exited"
  /\ IF pull[i] /\ status[i] = 0
     THEN /\ pc' = [pc EXCEPT ![i] = "pull"]
          /\ todo' = [todo EXCEPT ![i] = Profiles]
          /\ UNCHANGED result
     ELSE Done(i, status[i]) /\ UNCHANGED todo
  /\ UNCHANGED <<local, product, tree, cache, choice, sent, remote, missed>>

(* Seeded fault: the missing exit code of a lost connection counts as 0.   *)
LinkFailsAsSuccess(i) ==
  /\ pc[i] = "wait"
  /\ Done(i, 0)
  /\ UNCHANGED <<local, product, tree, cache, choice, todo, sent, remote, missed>>

(* The connection cannot be made or is lost: ssh exits with 255, the       *)
(* WebTransport client with an error.  cargo may go on without it.         *)
LinkFails(i) ==
  /\ pc[i] = "wait"
  /\ \E c \in {1, 255} : Done(i, c)
  /\ UNCHANGED <<local, product, tree, cache, choice, todo, sent, remote, missed>>

-----------------------------------------------------------------------------
(* pull_artifacts *)

(* One rsync per profile; one with nothing to fetch changes nothing.       *)
Pull(i, p) ==
  /\ pc[i] = "pull" /\ p \in todo[i]
  /\ todo' = [todo EXCEPT ![i] = @ \ {p}]
  /\ product' = IF cache[key[i]][p] = NoBuild THEN product
                ELSE [product EXCEPT ![dir[i]][p] = cache[key[i]][p]]
  /\ UNCHANGED <<local, tree, cache, pc, choice, sent, remote, result, missed>>

(* The status of each rsync is thrown away.                                *)
PullFails(i, p) ==
  /\ pc[i] = "pull" /\ p \in todo[i]
  /\ todo' = [todo EXCEPT ![i] = @ \ {p}]
  /\ missed' = [missed EXCEPT ![i] = TRUE]
  /\ UNCHANGED <<local, product, tree, cache, pc, choice, sent, remote, result>>

Pulled(i) ==
  /\ pc[i] = "pull" /\ todo[i] = {}
  /\ Done(i, status[i])
  /\ UNCHANGED <<local, product, tree, cache, choice, todo, sent, remote, missed>>

-----------------------------------------------------------------------------

Rcargo(i) ==
  \/ Mkdir(i) \/ Synced(i) \/ SyncFails(i) \/ RunCargo(i) \/ Collect(i)
  \/ Pulled(i)
  \/ \E f \in Files : SyncFile(i, f)
  \/ \E p \in Profiles : Pull(i, p) \/ PullFails(i, p)

RemoteCargo(i) ==
  \/ CargoLocks(i) \/ CargoSucceeds(i)
  \/ \E f \in Files : CargoReads(i, f)
  \/ \E c \in {101, Killed} : CargoFails(i, c)

User ==
  \/ \E d \in Dirs, f \in Files : Edit(d, f)
  \/ \E d \in Dirs : SetOrigin(d)
  \/ \E i \in Invocations, d \in Dirs, p \in Profiles : Start(i, d, p)

(* Every invocation has ended, and so has what it started.                 *)
AtRest ==
  /\ \A i \in Invocations : pc[i] = "done" /\ cargo[i] \in {"none", "exited"}
  /\ UNCHANGED vars

Next ==
  \/ User \/ AtRest
  \/ \E i \in Invocations : Rcargo(i) \/ RemoteCargo(i) \/ LinkFails(i)

Spec == Init /\ [][Next]_vars

-----------------------------------------------------------------------------
(* Properties *)

RunTypeOK ==
  /\ source \in [Dirs -> Sources] /\ edits \in 0..MaxEdits
  /\ origin \in [Dirs -> 0..MaxOrigins]
  /\ product \in [Dirs -> [Profiles -> Sources]]
  /\ tree \in [Keys -> Sources] /\ cache \in [Keys -> [Profiles -> Sources]]
  /\ pc \in [Invocations -> {"idle", "mkdir", "rsync", "run", "wait", "pull", "done"}]
  /\ dir \in [Invocations -> Dirs] /\ key \in [Invocations -> Keys]
  /\ profile \in [Invocations -> Profiles] /\ pull \in [Invocations -> BOOLEAN]
  /\ todo \in [Invocations -> SUBSET (Files \cup Profiles)]
  /\ sent \in [Invocations -> Sources] /\ seen \in [Invocations -> Sources]
  /\ cargo \in [Invocations -> {"none", "started", "compiling", "exited"}]
  /\ unread \in [Invocations -> SUBSET Files]
  /\ status \in [Invocations -> {0, 101, 255}]
  /\ result \in [Invocations -> {0, 1, 101, 255}]
  /\ missed \in [Invocations -> BOOLEAN]

(* When rcargo returns 0, the remote cargo has succeeded, and has compiled *)
(* exactly the files that this invocation sent: none left over from an     *)
(* earlier sync, of this or of another directory with the same key, and    *)
(* none of a sync that failed.                                             *)
SuccessIsOwnBuild ==
  \A i \in Invocations : pc[i] = "done" /\ result[i] = 0 =>
    cargo[i] = "exited" /\ status[i] = 0 /\ seen[i] = sent[i]

(* What pull_artifacts leaves in the local target/ for the profile that    *)
(* was built is this build, unless one of its rsyncs failed.  A cargo left *)
(* behind by an earlier invocation may still be at work on the same tree.  *)
PulledIsOwnBuild ==
  [][\A i \in Invocations :
       pc[i] = "pull" /\ pc'[i] = "done" /\ ~missed[i] =>
         product[dir[i]][profile[i]] = sent[i]]_vars

(* However invocations overlap, a directory without an override is built   *)
(* from its own sources alone, and gets back nothing that was built from   *)
(* another: two checkouts of one repository do not share a target/.        *)
BuildsApart ==
  /\ \A i \in Invocations, f \in Files :
       seen[i][f] # Absent /\ dir[i] \notin Shared => seen[i][f].dir = dir[i]
  /\ \A d \in Dirs \ Shared, p \in Profiles, f \in Files :
       product[d][p][f] # Absent => product[d][p][f].dir = d

(* A directory that was built once finds its target/ on the remote host at *)
(* the next build: rsync spares it, and the key leads back to it, as long  *)
(* as git's remote is the one it was cloned from or an override is set.    *)
CacheStaysWarm ==
  \A i, j \in Invocations :
    /\ pc[i] = "run"
    /\ pc[j] = "done" /\ cargo[j] = "exited" /\ status[j] = 0
    /\ dir[i] = dir[j] /\ (dir[i] \in Shared \/ origin[dir[i]] = 0)
    => cache[key[i]][profile[j]] # NoBuild

(* The local target/ changes only on behalf of a build that succeeded.     *)
PullsOnlySuccess ==
  [][product' # product =>
       \E i \in Invocations : pc[i] = "pull" /\ cargo[i] = "exited" /\ status[i] = 0]_vars
-----------------------------------------------------------------------------
(* The inductive invariants that these properties rest on.                 *)

(* The order in run(), and what the exit codes on the way stand for.       *)
StageInv ==
  \A i \in Invocations :
    /\ pc[i] \in {"idle", "mkdir", "rsync", "run"} => cargo[i] = "none"
    /\ cargo[i] = "none" => seen[i] = NoBuild
    /\ cargo[i] = "started" => unread[i] = Files
    /\ cargo[i] = "exited" /\ status[i] = 0 => unread[i] = {}
    /\ pc[i] = "pull" => cargo[i] = "exited" /\ status[i] = 0
    /\ pc[i] = "done" /\ result[i] = 0 => cargo[i] = "exited" /\ status[i] = 0

(* The key in use is one that project_key_for made of the directory.       *)
KeyInv ==
  \A i \in Invocations : pc[i] # "idle" =>
    IF dir[i] \in Shared
    THEN key[i] = KeyOf(dir[i])
    ELSE key[i].path = dir[i] /\ key[i].origin <= origin[dir[i]]

From(s, d) == \A f \in Files : s[f] # Absent => s[f].dir = d

(* All that a key leads to stems from the directory that the key is of.    *)
ApartInv ==
  /\ \A d \in Dirs : From(source[d], d)
  /\ \A k \in Keys : k.path # "none" =>
       From(tree[k], k.path) /\ \A p \in Profiles : From(cache[k][p], k.path)
  /\ \A i \in Invocations : dir[i] \notin Shared => From(seen[i], dir[i])
  /\ \A d \in Dirs \ Shared, p \in Profiles : From(product[d][p], d)

(* What a successful cargo leaves behind is never taken away again.        *)
WarmInv ==
  \A i \in Invocations : cargo[i] = "exited" /\ status[i] = 0 =>
    seen[i] # NoBuild /\ cache[key[i]][profile[i]] # NoBuild

RunInv == RunTypeOK /\ StageInv /\ KeyInv /\ ApartInv /\ WarmInv

(* One cargo at a time compiles a profile of a target/.                    *)
LockInv ==
  \A i, j \in Invocations :
    i # j /\ key[i] = key[j] /\ profile[i] = profile[j] =>
      ~(cargo[i] = "compiling" /\ cargo[j] = "compiling")

AloneInv ==
  \A i, j \in Invocations : i # j /\ Active(i) /\ Active(j) =>
    key[i] # key[j] /\ dir[i] # dir[j]

(* Between its sync and its end, an invocation that is alone has the       *)
(* remote tree to itself, and its cargo reads nothing else.                *)
OwnInv ==
  \A i \in Invocations :
    /\ pc[i] = "rsync" =>
         \A f \in Files \ todo[i] : tree[key[i]][f] = sent[i][f]
    /\ pc[i] \in {"run", "wait", "pull"} => tree[key[i]] = sent[i]
    /\ pc[i] = "wait" =>
         \A f \in Files \ unread[i] : seen[i][f] = sent[i][f]
    /\ pc[i] = "pull" \/ (pc[i] = "done" /\ result[i] = 0) => seen[i] = sent[i]

(* Once cargo has succeeded, nothing but this build gets into the target/  *)
(* of its profile until it is pulled: a cargo that an earlier invocation   *)
(* left behind has yet to read its files, and finds the same ones.         *)
SettledInv ==
  \A i \in Invocations :
    /\ pc[i] \in {"wait", "pull"} /\ cargo[i] = "exited" /\ status[i] = 0 =>
         /\ cache[key[i]][profile[i]] = sent[i]
         /\ \A j \in Invocations :
              key[j] = key[i] /\ profile[j] = profile[i] /\ cargo[j] = "compiling"
              => \A f \in Files \ unread[j] : seen[j][f] = sent[i][f]
    /\ pc[i] = "pull" /\ ~missed[i] /\ profile[i] \notin todo[i] =>
         product[dir[i]][profile[i]] = sent[i]

ExclusiveInv == LockInv /\ AloneInv /\ OwnInv /\ SettledInv
=============================================================================
