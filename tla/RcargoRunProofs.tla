-------------------------- MODULE RcargoRunProofs --------------------------
(***************************************************************************)
(* Proofs about invocations of rcargo: any number of them, of directories, *)
(* files, profiles, edits and changes of git's remote.                     *)
(***************************************************************************)
EXTENDS RcargoRun, TLAPS

(* What the data of the model are made of.                                 *)
LEMMA DataTypes ==
  /\ Absent \in Content /\ NoBuild \in Sources
  /\ \A d \in Dirs, n \in 1..(MaxEdits + 1) : [dir |-> d, rev |-> n] \in Content
<1>1. Absent \in Content
  BY DEF Content
<1>2. NoBuild \in Sources
  BY <1>1 DEF NoBuild, Sources
<1>3. \A d \in Dirs, n \in 1..(MaxEdits + 1) : [dir |-> d, rev |-> n] \in Content
  BY DEF Content
<1> QED
  BY <1>1, <1>2, <1>3

(* project_key_for finds a key for every directory.                        *)
LEMMA KeyTypes ==
  ASSUME RunTypeOK, NEW d \in Dirs
  PROVE  KeyOf(d) \in Keys
<1>1. origin[d] \in 0..MaxOrigins
  BY DEF RunTypeOK
<1> QED
  BY <1>1, RunAssumption DEF KeyOf, Keys, RunAssumption

LEMMA CodeTypes == CodeOf(101) = 101 /\ CodeOf(Killed) = 255
  BY DEF CodeOf, Killed

(* A function that is left alone, or gets a new value at one point.        *)
LEMMA Update ==
  ASSUME NEW S, NEW T, NEW f \in [S -> T], NEW x, NEW v \in T, NEW g,
         g = f \/ g = [f EXCEPT ![x] = v]
  PROVE  g \in [S -> T]
  OBVIOUS

-----------------------------------------------------------------------------
(* Types *)

LEMMA InitTypes == Init => RunTypeOK
<1> SUFFICES ASSUME Init PROVE RunTypeOK
  OBVIOUS
<1>1. (CHOOSE d \in Dirs : TRUE) \in Dirs
  BY RunAssumption DEF RunAssumption
<1>2. (CHOOSE p \in Profiles : TRUE) \in Profiles
  BY RunAssumption DEF RunAssumption
<1>3. [path |-> "none", origin |-> 0] \in Keys
  BY DEF Keys
<1>4. (CHOOSE k \in Keys : TRUE) \in Keys
  BY <1>3
<1>5. source \in [Dirs -> Sources] /\ edits \in 0..MaxEdits
      /\ origin \in [Dirs -> 0..MaxOrigins]
  <2>1. \A d \in Dirs : [dir |-> d, rev |-> 1] \in Content
    BY DataTypes, RunAssumption DEF RunAssumption
  <2> QED
    BY <2>1, RunAssumption DEF Init, Sources, RunAssumption
<1>6. /\ product \in [Dirs -> [Profiles -> Sources]]
      /\ tree \in [Keys -> Sources] /\ cache \in [Keys -> [Profiles -> Sources]]
      /\ sent \in [Invocations -> Sources] /\ seen \in [Invocations -> Sources]
  BY DataTypes DEF Init
<1>7. /\ dir \in [Invocations -> Dirs] /\ key \in [Invocations -> Keys]
      /\ profile \in [Invocations -> Profiles]
  BY <1>1, <1>2, <1>4 DEF Init
<1>8. /\ pc \in [Invocations -> {"idle", "mkdir", "rsync", "run", "wait", "pull", "done"}]
      /\ pull \in [Invocations -> BOOLEAN]
      /\ todo \in [Invocations -> SUBSET (Files \cup Profiles)]
      /\ cargo \in [Invocations -> {"none", "started", "compiling", "exited"}]
      /\ unread \in [Invocations -> SUBSET Files]
      /\ status \in [Invocations -> {0, 101, 255}]
      /\ result \in [Invocations -> {0, 1, 101, 255}]
      /\ missed \in [Invocations -> BOOLEAN]
  BY DEF Init
<1> QED
  BY <1>5, <1>6, <1>7, <1>8 DEF RunTypeOK

(* The user's steps.                                                       *)
LEMMA UserTypes == RunTypeOK /\ User => RunTypeOK'
<1> SUFFICES ASSUME RunTypeOK, User PROVE RunTypeOK'
  OBVIOUS
<1>1. ASSUME NEW d \in Dirs, NEW f \in Files, Edit(d, f) PROVE RunTypeOK'
  <2>1. PICK c \in {Absent, [dir |-> d, rev |-> edits + 2]} :
          source' = [source EXCEPT ![d][f] = c]
    BY <1>1 DEF Edit
  <2>2. edits' \in 0..MaxEdits /\ edits + 2 \in 1..(MaxEdits + 1)
    BY <1>1, RunAssumption DEF Edit, RunTypeOK, RunAssumption
  <2>3. c \in Content
    BY <2>1, <2>2, DataTypes
  <2>4. source' \in [Dirs -> Sources]
    BY <2>1, <2>3 DEF RunTypeOK, Sources
  <2> QED
    BY <1>1, <2>2, <2>4 DEF Edit, RunTypeOK, choice, remote
<1>2. ASSUME NEW d \in Dirs, SetOrigin(d) PROVE RunTypeOK'
  <2>1. origin[d] + 1 \in 0..MaxOrigins
    BY <1>2, RunAssumption DEF SetOrigin, RunTypeOK, RunAssumption
  <2>2. origin' \in [Dirs -> 0..MaxOrigins]
    BY <1>2, <2>1 DEF SetOrigin, RunTypeOK
  <2> QED
    BY <1>2, <2>2 DEF SetOrigin, RunTypeOK, choice, remote
<1>3. ASSUME NEW i \in Invocations, NEW d \in Dirs, NEW p \in Profiles, Start(i, d, p)
      PROVE  RunTypeOK'
  <2>1. PICK b \in BOOLEAN : pull' = [pull EXCEPT ![i] = b]
    BY <1>3 DEF Start
  <2>2. pull' \in [Invocations -> BOOLEAN]
    BY <2>1 DEF RunTypeOK
  <2> QED
    BY <1>3, <2>2, KeyTypes DEF Start, RunTypeOK, local, remote
<1> QED
  BY <1>1, <1>2, <1>3 DEF User

(* The steps of run().                                                     *)
LEMMA RcargoTypes ==
  ASSUME RunTypeOK, NEW i \in Invocations, Rcargo(i) \/ LinkFails(i)
  PROVE  RunTypeOK'
<1>1. CASE Mkdir(i)
  BY <1>1 DEF Mkdir, RunTypeOK, local, choice, remote
<1>2. CASE Synced(i)
  BY <1>2 DEF Synced, RunTypeOK, local, choice, remote
<1>3. CASE SyncFails(i)
  BY <1>3 DEF SyncFails, Done, RunTypeOK, local, choice, remote
<1>4. CASE RunCargo(i)
  BY <1>4 DEF RunCargo, RunTypeOK, local, choice
<1>5. CASE Collect(i)
  <2>1. status[i] \in {0, 1, 101, 255}
    BY DEF RunTypeOK
  <2>2. pc' \in [Invocations -> {"idle", "mkdir", "rsync", "run", "wait", "pull", "done"}]
    <3>1. pc' = [pc EXCEPT ![i] = "pull"] \/ pc' = [pc EXCEPT ![i] = "done"]
      BY <1>5 DEF Collect, Done
    <3>2. pc \in [Invocations -> {"idle", "mkdir", "rsync", "run", "wait", "pull", "done"}]
      BY DEF RunTypeOK
    <3> QED
      BY <3>1, <3>2
  <2>3. todo' \in [Invocations -> SUBSET (Files \cup Profiles)]
    <3>1. todo' = [todo EXCEPT ![i] = Profiles] \/ todo' = todo
      BY <1>5 DEF Collect
    <3>2. todo \in [Invocations -> SUBSET (Files \cup Profiles)]
      BY DEF RunTypeOK
    <3> QED
      BY <3>1, <3>2, Update
  <2>4. result' \in [Invocations -> {0, 1, 101, 255}]
    <3>1. result' = [result EXCEPT ![i] = status[i]] \/ result' = result
      BY <1>5 DEF Collect, Done
    <3>2. result \in [Invocations -> {0, 1, 101, 255}]
      BY DEF RunTypeOK
    <3> QED
      BY <2>1, <3>1, <3>2, Update
  <2> QED
    BY <1>5, <2>2, <2>3, <2>4 DEF Collect, RunTypeOK, local, choice, remote
<1>6. CASE Pulled(i)
  <2>1. status[i] \in {0, 1, 101, 255}
    BY DEF RunTypeOK
  <2> QED
    BY <1>6, <2>1 DEF Pulled, Done, RunTypeOK, local, choice, remote
<1>7. ASSUME NEW f \in Files, SyncFile(i, f) PROVE RunTypeOK'
  <2>1. source[dir[i]][f] \in Content
    BY DEF RunTypeOK, Sources
  <2>2. tree' \in [Keys -> Sources]
    BY <1>7, <2>1 DEF SyncFile, RunTypeOK, Sources
  <2>3. sent' \in [Invocations -> Sources]
    BY <1>7, <2>1 DEF SyncFile, RunTypeOK, Sources
  <2>4. todo' \in [Invocations -> SUBSET (Files \cup Profiles)]
    BY <1>7 DEF SyncFile, RunTypeOK
  <2> QED
    BY <1>7, <2>2, <2>3, <2>4 DEF SyncFile, RunTypeOK, local, choice, remote
<1>8. ASSUME NEW p \in Profiles, Pull(i, p) \/ PullFails(i, p) PROVE RunTypeOK'
  <2>1. todo' \in [Invocations -> SUBSET (Files \cup Profiles)]
    <3>1. todo' = [todo EXCEPT ![i] = todo[i] \ {p}]
      BY <1>8 DEF Pull, PullFails
    <3> QED
      BY <3>1 DEF RunTypeOK
  <2>2. missed' \in [Invocations -> BOOLEAN]
    <3>1. missed' = [missed EXCEPT ![i] = TRUE] \/ missed' = missed
      BY <1>8 DEF Pull, PullFails
    <3>2. missed \in [Invocations -> BOOLEAN]
      BY DEF RunTypeOK
    <3> QED
      BY <3>1, <3>2, Update
  <2>3. product' \in [Dirs -> [Profiles -> Sources]]
    <3>1. \/ product' = product
          \/ product' = [product EXCEPT ![dir[i]][p] = cache[key[i]][p]]
      BY <1>8 DEF Pull, PullFails
    <3>2. /\ cache[key[i]][p] \in Sources /\ dir[i] \in Dirs
          /\ product \in [Dirs -> [Profiles -> Sources]]
      BY DEF RunTypeOK
    <3>3. [product[dir[i]] EXCEPT ![p] = cache[key[i]][p]] \in [Profiles -> Sources]
      BY <3>2
    <3> QED
      BY <3>1, <3>2, <3>3
  <2>4. UNCHANGED <<local, tree, cache, pc, choice, sent, remote, result>>
    BY <1>8 DEF Pull, PullFails
  <2> QED
    BY <2>1, <2>2, <2>3, <2>4 DEF RunTypeOK, local, choice, remote
<1>9. CASE LinkFails(i)
  BY <1>9 DEF LinkFails, Done, RunTypeOK, local, choice, remote
<1> QED
  BY <1>1, <1>2, <1>3, <1>4, <1>5, <1>6, <1>7, <1>8, <1>9 DEF Rcargo

(* The steps of the remote cargo.                                          *)
LEMMA CargoStepTypes ==
  ASSUME RunTypeOK, NEW i \in Invocations, RemoteCargo(i)
  PROVE  RunTypeOK'
<1>1. CASE CargoLocks(i)
  BY <1>1 DEF CargoLocks, RunTypeOK, local, choice
<1>2. CASE CargoSucceeds(i)
  <2>1. cache' \in [Keys -> [Profiles -> Sources]]
    BY <1>2 DEF CargoSucceeds, RunTypeOK
  <2> QED
    BY <1>2, <2>1 DEF CargoSucceeds, RunTypeOK, local, choice
<1>3. ASSUME NEW f \in Files, CargoReads(i, f) PROVE RunTypeOK'
  <2>1. tree[key[i]][f] \in Content
    BY DEF RunTypeOK, Sources
  <2>2. seen' \in [Invocations -> Sources]
    BY <1>3, <2>1 DEF CargoReads, RunTypeOK, Sources
  <2>3. unread' \in [Invocations -> SUBSET Files]
    BY <1>3 DEF CargoReads, RunTypeOK
  <2> QED
    BY <1>3, <2>2, <2>3 DEF CargoReads, RunTypeOK, local, choice
<1>4. ASSUME NEW c \in {101, Killed}, CargoFails(i, c) PROVE RunTypeOK'
  <2>1. CodeOf(c) \in {0, 101, 255}
    BY CodeTypes
  <2> QED
    BY <1>4, <2>1 DEF CargoFails, RunTypeOK, local, choice
<1> QED
  BY <1>1, <1>2, <1>3, <1>4 DEF RemoteCargo

LEMMA StutterTypes == RunTypeOK /\ UNCHANGED vars => RunTypeOK'
  BY DEF RunTypeOK, vars, local, choice, remote

LEMMA NextTypes == RunTypeOK /\ [Next]_vars => RunTypeOK'
  BY UserTypes, RcargoTypes, CargoStepTypes, StutterTypes DEF Next, AtRest

(* However many invocations overlap, every state has its types: a key is   *)
(* one of the user's directories or the override, and an exit code one     *)
(* that ssh, cargo or rcargo itself can return.                            *)
THEOREM RunTyped == Spec => []RunTypeOK
  BY InitTypes, NextTypes, PTL DEF Spec

-----------------------------------------------------------------------------
(* The order in run()                                                      *)

LEMMA InitStage == Init => StageInv
  BY DEF Init, StageInv

(* What run() has done when it is at a given place.                        *)
LEMMA NextStage == RunTypeOK /\ StageInv /\ [Next]_vars => StageInv'
<1> SUFFICES ASSUME RunTypeOK, StageInv, [Next]_vars PROVE StageInv'
  OBVIOUS
<1>1. ASSUME NEW d \in Dirs, NEW f \in Files, Edit(d, f) PROVE StageInv'
  BY <1>1 DEF Edit, StageInv, remote
<1>2. ASSUME NEW d \in Dirs, SetOrigin(d) PROVE StageInv'
  BY <1>2 DEF SetOrigin, StageInv, remote
<1>3. ASSUME NEW i \in Invocations, NEW d \in Dirs, NEW p \in Profiles, Start(i, d, p)
      PROVE  StageInv'
  BY <1>3 DEF Start, StageInv, RunTypeOK, remote
<1>4. ASSUME NEW i \in Invocations, Mkdir(i) PROVE StageInv'
  BY <1>4 DEF Mkdir, StageInv, RunTypeOK, remote
<1>5. ASSUME NEW i \in Invocations, NEW f \in Files, SyncFile(i, f) PROVE StageInv'
  BY <1>5 DEF SyncFile, StageInv, remote
<1>6. ASSUME NEW i \in Invocations, Synced(i) PROVE StageInv'
  BY <1>6 DEF Synced, StageInv, RunTypeOK, remote
<1>7. ASSUME NEW i \in Invocations, SyncFails(i) PROVE StageInv'
  BY <1>7 DEF SyncFails, Done, StageInv, RunTypeOK, remote
<1>8. ASSUME NEW i \in Invocations, RunCargo(i) PROVE StageInv'
  BY <1>8 DEF RunCargo, StageInv, RunTypeOK
<1>9. ASSUME NEW i \in Invocations, CargoLocks(i) PROVE StageInv'
  BY <1>9 DEF CargoLocks, StageInv, RunTypeOK
<1>10. ASSUME NEW i \in Invocations, NEW f \in Files, CargoReads(i, f) PROVE StageInv'
  BY <1>10 DEF CargoReads, StageInv, RunTypeOK
<1>11. ASSUME NEW i \in Invocations, CargoSucceeds(i) PROVE StageInv'
  BY <1>11 DEF CargoSucceeds, StageInv, RunTypeOK
<1>12. ASSUME NEW i \in Invocations, NEW c \in {101, Killed}, CargoFails(i, c)
       PROVE  StageInv'
  <2>1. CodeOf(c) # 0
    BY CodeTypes
  <2> QED
    BY <1>12, <2>1 DEF CargoFails, StageInv, RunTypeOK
<1>13. ASSUME NEW i \in Invocations, Collect(i) PROVE StageInv'
  <2>1. CASE pull[i] /\ status[i] = 0
    BY <1>13, <2>1 DEF Collect, StageInv, RunTypeOK, remote
  <2>2. CASE ~(pull[i] /\ status[i] = 0)
    <3>1. /\ pc' = [pc EXCEPT ![i] = "done"] /\ result' = [result EXCEPT ![i] = status[i]]
          /\ pc[i] = "wait" /\ cargo[i] = "exited" /\ UNCHANGED remote
      BY <1>13, <2>2 DEF Collect, Done
    <3> QED
      BY <3>1 DEF StageInv, RunTypeOK, remote
  <2> QED
    BY <2>1, <2>2
<1>14. ASSUME NEW i \in Invocations, LinkFails(i) PROVE StageInv'
  BY <1>14 DEF LinkFails, Done, StageInv, RunTypeOK, remote
<1>15. ASSUME NEW i \in Invocations, NEW p \in Profiles, Pull(i, p) \/ PullFails(i, p)
       PROVE  StageInv'
  BY <1>15 DEF Pull, PullFails, StageInv, remote
<1>16. ASSUME NEW i \in Invocations, Pulled(i) PROVE StageInv'
  BY <1>16 DEF Pulled, Done, StageInv, RunTypeOK, remote
<1>17. CASE UNCHANGED vars
  BY <1>17 DEF vars, StageInv, remote
<1> QED
  BY <1>1, <1>2, <1>3, <1>4, <1>5, <1>6, <1>7, <1>8, <1>9, <1>10, <1>11,
     <1>12, <1>13, <1>14, <1>15, <1>16, <1>17
     DEF Next, User, Rcargo, RemoteCargo, AtRest

-----------------------------------------------------------------------------
(* The key in use                                                          *)

LEMMA InitKeys == Init => KeyInv
  BY DEF Init, KeyInv

(* Most steps leave alone what a key depends on.                           *)
LEMMA KeyStays ==
  ASSUME KeyInv, UNCHANGED <<origin, dir, key>>,
         \A i \in Invocations : pc[i] = "idle" => pc'[i] = "idle"
  PROVE  KeyInv'
  BY DEF KeyInv, KeyOf

LEMMA NextKeys == RunTypeOK /\ KeyInv /\ [Next]_vars => KeyInv'
<1> SUFFICES ASSUME RunTypeOK, KeyInv, [Next]_vars PROVE KeyInv'
  OBVIOUS
<1>1. ASSUME NEW d \in Dirs, SetOrigin(d) PROVE KeyInv'
  <2>1. origin[d] \in Nat
    BY RunAssumption DEF RunTypeOK, RunAssumption
  <2>2. \A e \in Dirs : origin[e] \in Nat /\ origin'[e] >= origin[e]
    BY <1>1, <2>1, RunAssumption DEF SetOrigin, RunTypeOK, RunAssumption
  <2>3. UNCHANGED <<pc, dir, key>>
    BY <1>1 DEF SetOrigin, choice
  <2> SUFFICES ASSUME NEW i \in Invocations, pc[i] # "idle"
               PROVE  IF dir[i] \in Shared THEN key[i] = KeyOf(dir[i])'
                      ELSE key[i].path = dir[i] /\ key[i].origin <= origin'[dir[i]]
    BY <2>3 DEF KeyInv
  <2>4. CASE dir[i] \in Shared
    BY <2>3, <2>4 DEF KeyInv, KeyOf
  <2>5. CASE dir[i] \notin Shared
    <3>1. dir[i] \in Dirs /\ key[i] \in Keys
      BY DEF RunTypeOK
    <3>2. key[i].origin \in Nat
      BY <3>1, RunAssumption DEF Keys, RunAssumption
    <3>3. key[i].path = dir[i] /\ key[i].origin <= origin[dir[i]]
      BY <2>5 DEF KeyInv
    <3> QED
      BY <1>1, <2>2, <2>5, <3>1, <3>2, <3>3 DEF SetOrigin, RunTypeOK
  <2> QED
    BY <2>4, <2>5
<1>2. ASSUME NEW i \in Invocations, NEW d \in Dirs, NEW p \in Profiles, Start(i, d, p)
      PROVE  KeyInv'
  <2>1. origin[d] \in Nat
    BY RunAssumption DEF RunTypeOK, RunAssumption
  <2>2. dir' = [dir EXCEPT ![i] = d] /\ key' = [key EXCEPT ![i] = KeyOf(d)]
        /\ UNCHANGED origin /\ pc' = [pc EXCEPT ![i] = "mkdir"]
    BY <1>2 DEF Start, local
  <2> QED
    BY <2>1, <2>2 DEF KeyInv, KeyOf, RunTypeOK
<1>3. ASSUME NEW d \in Dirs, NEW f \in Files, Edit(d, f) PROVE KeyInv'
  BY <1>3, KeyStays DEF Edit, choice
<1>4. ASSUME NEW i \in Invocations, Rcargo(i) \/ LinkFails(i) PROVE KeyInv'
  <2>1. pc[i] # "idle" /\ UNCHANGED <<origin, dir, key>>
    BY <1>4 DEF Rcargo, LinkFails, Mkdir, Synced, SyncFails, SyncFile, RunCargo,
                Collect, Pull, PullFails, Pulled, local, choice
  <2>2. pc' = pc \/ \E s : pc' = [pc EXCEPT ![i] = s]
    BY <1>4 DEF Rcargo, LinkFails, Mkdir, Synced, SyncFails, SyncFile, RunCargo,
                Collect, Pull, PullFails, Pulled, Done
  <2> QED
    BY <2>1, <2>2, KeyStays DEF RunTypeOK
<1>5. ASSUME NEW i \in Invocations, RemoteCargo(i) PROVE KeyInv'
  BY <1>5, KeyStays
     DEF RemoteCargo, CargoLocks, CargoReads, CargoSucceeds, CargoFails, local, choice
<1>6. CASE UNCHANGED vars
  BY <1>6, KeyStays DEF vars, local, choice
<1> QED
  BY <1>1, <1>2, <1>3, <1>4, <1>5, <1>6 DEF Next, User, AtRest

(* A key with a path is the key of exactly that directory.                 *)
LEMMA KeyIsOfDir ==
  ASSUME RunTypeOK, KeyInv, NEW i \in Invocations, pc[i] # "idle"
  PROVE  /\ key[i].path # "none" <=> dir[i] \notin Shared
         /\ dir[i] \notin Shared => key[i].path = dir[i]
<1>1. dir[i] \in Dirs
  BY DEF RunTypeOK
<1>2. dir[i] # "none"
  BY <1>1, RunAssumption DEF RunAssumption
<1>3. CASE dir[i] \in Shared
  <2>1. key[i] = [path |-> "none", origin |-> 0]
    BY <1>3 DEF KeyInv, KeyOf
  <2> QED
    BY <1>3, <2>1
<1>4. CASE dir[i] \notin Shared
  BY <1>2, <1>4 DEF KeyInv
<1> QED
  BY <1>3, <1>4

-----------------------------------------------------------------------------
(* Directories stay apart                                                  *)

LEMMA FromNothing == \A d : From(NoBuild, d)
  BY DEF From, NoBuild

LEMMA FromUpdate ==
  ASSUME NEW s \in Sources, NEW d, From(s, d), NEW f \in Files, NEW c,
         c = Absent \/ c.dir = d
  PROVE  From([s EXCEPT ![f] = c], d)
  BY DEF From, Sources

LEMMA InitApart == Init => ApartInv
<1> SUFFICES ASSUME Init PROVE ApartInv
  OBVIOUS
<1>1. \A d \in Dirs : From(source[d], d)
  BY DEF Init, From
<1>2. \A k \in Keys : tree[k] = NoBuild /\ \A p \in Profiles : cache[k][p] = NoBuild
  BY DEF Init
<1>3. \A d \in Dirs, p \in Profiles : product[d][p] = NoBuild
  BY DEF Init
<1>4. \A i \in Invocations : seen[i] = NoBuild
  BY DEF Init
<1> QED
  BY <1>1, <1>2, <1>3, <1>4, FromNothing DEF ApartInv

LEMMA NextApart ==
  RunTypeOK /\ StageInv /\ KeyInv /\ ApartInv /\ [Next]_vars => ApartInv'
<1> SUFFICES ASSUME RunTypeOK, StageInv, KeyInv, ApartInv, [Next]_vars PROVE ApartInv'
  OBVIOUS
<1>1. ASSUME UNCHANGED <<source, tree, cache, dir, seen, product>> PROVE ApartInv'
  BY <1>1 DEF ApartInv, From
<1>2. ASSUME NEW d \in Dirs, NEW f \in Files, Edit(d, f) PROVE ApartInv'
  <2>1. PICK c \in {Absent, [dir |-> d, rev |-> edits + 2]} :
          source' = [source EXCEPT ![d][f] = c]
    BY <1>2 DEF Edit
  <2>2. c = Absent \/ c.dir = d
    BY <2>1
  <2>3. source[d] \in Sources /\ From(source[d], d)
    BY DEF RunTypeOK, ApartInv
  <2>4. From([source[d] EXCEPT ![f] = c], d)
    BY <2>2, <2>3, FromUpdate
  <2>5. \A e \in Dirs : source'[e] = IF e = d THEN [source[d] EXCEPT ![f] = c]
                                               ELSE source[e]
    BY <2>1 DEF RunTypeOK
  <2>6. \A e \in Dirs : From(source'[e], e)
    BY <2>4, <2>5 DEF ApartInv
  <2>7. UNCHANGED <<tree, cache, dir, seen, product>>
    BY <1>2 DEF Edit, choice, remote
  <2> QED
    BY <2>6, <2>7 DEF ApartInv, From
<1>3. ASSUME NEW i \in Invocations, NEW d \in Dirs, NEW p \in Profiles, Start(i, d, p)
      PROVE  ApartInv'
  <2>1. seen[i] = NoBuild
    BY <1>3 DEF Start, StageInv
  <2>2. \A j \in Invocations \ {i} : dir'[j] = dir[j]
    BY <1>3 DEF Start, RunTypeOK
  <2>3. UNCHANGED <<source, tree, cache, seen, product>>
    BY <1>3 DEF Start, local, remote
  <2>4. \A j \in Invocations : dir'[j] \notin Shared => From(seen[j], dir'[j])
    BY <2>1, <2>2, FromNothing DEF ApartInv
  <2> QED
    BY <2>3, <2>4 DEF ApartInv, From
<1>4. ASSUME NEW i \in Invocations, NEW f \in Files, SyncFile(i, f) PROVE ApartInv'
  <2> DEFINE c == source[dir[i]][f]
  <2>1. tree' = [tree EXCEPT ![key[i]][f] = c]
        /\ UNCHANGED <<source, cache, dir, seen, product>> /\ pc[i] = "rsync"
    BY <1>4 DEF SyncFile, local, choice, remote
  <2>2. key[i] \in Keys /\ dir[i] \in Dirs /\ tree[key[i]] \in Sources
    BY DEF RunTypeOK
  <2>3. c = Absent \/ c.dir = dir[i]
    BY <2>2 DEF ApartInv, From
  <2>4. key[i].path # "none" => From([tree[key[i]] EXCEPT ![f] = c], key[i].path)
    BY <2>1, <2>2, <2>3, KeyIsOfDir, FromUpdate DEF ApartInv
  <2>5. \A k \in Keys : tree'[k] = IF k = key[i] THEN [tree[key[i]] EXCEPT ![f] = c]
                                                ELSE tree[k]
    BY <2>1, <2>2 DEF RunTypeOK
  <2>6. \A k \in Keys : k.path # "none" => From(tree'[k], k.path)
    BY <2>4, <2>5 DEF ApartInv
  <2> QED
    BY <2>1, <2>6 DEF ApartInv, From
<1>5. ASSUME NEW i \in Invocations, NEW f \in Files, CargoReads(i, f) PROVE ApartInv'
  <2> DEFINE c == tree[key[i]][f]
  <2>1. seen' = [seen EXCEPT ![i][f] = c] /\ cargo[i] = "compiling"
        /\ UNCHANGED <<source, tree, cache, dir, product>>
    BY <1>5 DEF CargoReads, local, choice
  <2>2. pc[i] # "idle" /\ key[i] \in Keys /\ seen[i] \in Sources
    BY <2>1 DEF StageInv, RunTypeOK
  <2>3. dir[i] \notin Shared => c = Absent \/ c.dir = dir[i]
    BY <2>2, KeyIsOfDir DEF ApartInv, From
  <2>4. dir[i] \notin Shared => From([seen[i] EXCEPT ![f] = c], dir[i])
    BY <2>2, <2>3, FromUpdate DEF ApartInv
  <2>5. \A j \in Invocations : seen'[j] = IF j = i THEN [seen[i] EXCEPT ![f] = c]
                                                   ELSE seen[j]
    BY <2>1 DEF RunTypeOK
  <2>6. \A j \in Invocations : dir[j] \notin Shared => From(seen'[j], dir[j])
    BY <2>4, <2>5 DEF ApartInv
  <2> QED
    BY <2>1, <2>6 DEF ApartInv, From
<1>6. ASSUME NEW i \in Invocations, CargoSucceeds(i) PROVE ApartInv'
  <2>1. cache' = [cache EXCEPT ![key[i]][profile[i]] = seen[i]] /\ cargo[i] = "compiling"
        /\ UNCHANGED <<source, tree, dir, seen, product>>
    BY <1>6 DEF CargoSucceeds, local, choice
  <2>2. key[i].path # "none" => From(seen[i], key[i].path)
    BY <2>1, KeyIsOfDir DEF StageInv, ApartInv
  <2>3. \A k \in Keys, p \in Profiles :
          cache'[k][p] = IF k = key[i] /\ p = profile[i] THEN seen[i] ELSE cache[k][p]
    BY <2>1 DEF RunTypeOK
  <2>4. \A k \in Keys, p \in Profiles : k.path # "none" => From(cache'[k][p], k.path)
    BY <2>2, <2>3 DEF ApartInv
  <2> QED
    BY <2>1, <2>4 DEF ApartInv, From
<1>7. ASSUME NEW i \in Invocations, NEW p \in Profiles, Pull(i, p) PROVE ApartInv'
  <2>1. /\ product' = product \/ product' = [product EXCEPT ![dir[i]][p] = cache[key[i]][p]]
        /\ UNCHANGED <<source, tree, cache, dir, seen>> /\ pc[i] = "pull"
    BY <1>7 DEF Pull, local, choice, remote
  <2>2. key[i] \in Keys /\ dir[i] \in Dirs
    BY DEF RunTypeOK
  <2>3. dir[i] \notin Shared => From(cache[key[i]][p], dir[i])
    BY <2>1, <2>2, KeyIsOfDir DEF ApartInv
  <2>4. \A d \in Dirs, q \in Profiles :
          \/ product'[d][q] = product[d][q]
          \/ d = dir[i] /\ q = p /\ product'[d][q] = cache[key[i]][p]
    <3>1. product \in [Dirs -> [Profiles -> Sources]]
      BY DEF RunTypeOK
    <3>2. CASE product' = product
      BY <3>2
    <3>3. CASE product' = [product EXCEPT ![dir[i]][p] = cache[key[i]][p]]
      BY <2>2, <3>1, <3>3
    <3> QED
      BY <2>1, <3>2, <3>3
  <2>5. \A d \in Dirs \ Shared, q \in Profiles : From(product'[d][q], d)
    BY <2>3, <2>4 DEF ApartInv
  <2> QED
    BY <2>1, <2>5 DEF ApartInv, From
<1>8. ASSUME NEW d \in Dirs, SetOrigin(d) PROVE ApartInv'
  BY <1>1, <1>8 DEF SetOrigin, choice, remote
<1>9. ASSUME NEW i \in Invocations,
             \/ Mkdir(i) \/ Synced(i) \/ SyncFails(i) \/ RunCargo(i) \/ Collect(i)
             \/ Pulled(i) \/ LinkFails(i) \/ \E p \in Profiles : PullFails(i, p)
             \/ CargoLocks(i) \/ \E c \in {101, Killed} : CargoFails(i, c)
      PROVE  ApartInv'
  BY <1>1, <1>9 DEF Mkdir, Synced, SyncFails, RunCargo, Collect, Pulled, LinkFails,
                    PullFails, CargoLocks, CargoFails, local, choice, remote
<1>10. CASE UNCHANGED vars
  BY <1>1, <1>10 DEF vars, local, choice, remote
<1> QED
  BY <1>2, <1>3, <1>4, <1>5, <1>6, <1>7, <1>8, <1>9, <1>10
     DEF Next, User, Rcargo, RemoteCargo, AtRest

-----------------------------------------------------------------------------
(* The remote target/ stays warm                                           *)

LEMMA InitWarm == Init => WarmInv
  BY DEF Init, WarmInv

(* Nothing but a cargo that exits, or an invocation that starts, changes   *)
(* what the invariant speaks of.                                           *)
LEMMA WarmStays ==
  ASSUME WarmInv, UNCHANGED <<key, profile, cache>>,
         \A i \in Invocations : cargo'[i] = "exited" /\ status'[i] = 0 =>
           cargo[i] = "exited" /\ status[i] = 0 /\ seen'[i] = seen[i]
  PROVE  WarmInv'
  BY DEF WarmInv

LEMMA NextWarm == RunTypeOK /\ StageInv /\ WarmInv /\ [Next]_vars => WarmInv'
<1> SUFFICES ASSUME RunTypeOK, StageInv, WarmInv, [Next]_vars PROVE WarmInv'
  OBVIOUS
<1>1. ASSUME NEW i \in Invocations, NEW d \in Dirs, NEW p \in Profiles, Start(i, d, p)
      PROVE  WarmInv'
  <2>1. cargo[i] = "none" /\ UNCHANGED <<cache, cargo, status, seen>>
    BY <1>1 DEF Start, StageInv, remote
  <2>2. \A j \in Invocations \ {i} : key'[j] = key[j] /\ profile'[j] = profile[j]
    BY <1>1 DEF Start, RunTypeOK
  <2> QED
    BY <2>1, <2>2 DEF WarmInv
<1>2. ASSUME NEW i \in Invocations, RunCargo(i) PROVE WarmInv'
  BY <1>2, WarmStays DEF RunCargo, RunTypeOK, choice
<1>3. ASSUME NEW i \in Invocations, CargoLocks(i) PROVE WarmInv'
  BY <1>3, WarmStays DEF CargoLocks, RunTypeOK, choice
<1>4. ASSUME NEW i \in Invocations, NEW f \in Files, CargoReads(i, f) PROVE WarmInv'
  BY <1>4, WarmStays DEF CargoReads, RunTypeOK, choice
<1>5. ASSUME NEW i \in Invocations, CargoSucceeds(i) PROVE WarmInv'
  <2>1. /\ cache' = [cache EXCEPT ![key[i]][profile[i]] = seen[i]] /\ seen[i] # NoBuild
        /\ cargo' = [cargo EXCEPT ![i] = "exited"] /\ status' = [status EXCEPT ![i] = 0]
        /\ UNCHANGED <<key, profile, seen>>
    BY <1>5 DEF CargoSucceeds, choice
  <2>2. \A k \in Keys, p \in Profiles :
          cache'[k][p] = IF k = key[i] /\ p = profile[i] THEN seen[i] ELSE cache[k][p]
    BY <2>1 DEF RunTypeOK
  <2>3. \A j \in Invocations : key[j] \in Keys /\ profile[j] \in Profiles
    BY DEF RunTypeOK
  <2>4. \A j \in Invocations \ {i} : cargo'[j] = cargo[j] /\ status'[j] = status[j]
    BY <2>1 DEF RunTypeOK
  <2> QED
    BY <2>1, <2>2, <2>3, <2>4 DEF WarmInv
<1>6. ASSUME NEW i \in Invocations, NEW c \in {101, Killed}, CargoFails(i, c)
      PROVE  WarmInv'
  <2>1. CodeOf(c) # 0
    BY CodeTypes
  <2> QED
    BY <1>6, <2>1, WarmStays DEF CargoFails, RunTypeOK, choice
<1>7. ASSUME UNCHANGED <<key, profile, cache, cargo, status, seen>> PROVE WarmInv'
  BY <1>7, WarmStays
<1>8. CASE \/ \E d \in Dirs, f \in Files : Edit(d, f)
           \/ \E d \in Dirs : SetOrigin(d)
  BY <1>7, <1>8 DEF Edit, SetOrigin, choice, remote
<1>9. ASSUME NEW i \in Invocations, Rcargo(i) \/ LinkFails(i), ~RunCargo(i)
      PROVE  WarmInv'
  BY <1>7, <1>9 DEF Rcargo, LinkFails, Mkdir, Synced, SyncFails, SyncFile, Collect,
                    Pull, PullFails, Pulled, choice, remote
<1>10. CASE UNCHANGED vars
  BY <1>7, <1>10 DEF vars, choice, remote
<1> QED
  BY <1>1, <1>2, <1>3, <1>4, <1>5, <1>6, <1>8, <1>9, <1>10
     DEF Next, User, RemoteCargo, AtRest

-----------------------------------------------------------------------------
(* What holds of all invocations, however they overlap                     *)

LEMMA InitRun == Init => RunInv
  BY InitTypes, InitStage, InitKeys, InitApart, InitWarm DEF RunInv

LEMMA NextRun == RunInv /\ [Next]_vars => RunInv'
  BY NextTypes, NextStage, NextKeys, NextApart, NextWarm DEF RunInv

(* At any overlap of invocations: the order in run(), the keys in use,     *)
(* whose files a tree, a build and a target/ hold, and that target/ stays. *)
(* RunInv is inductive; BuildsApart and CacheStaysWarm follow from it.     *)
THEOREM RunInductive == Spec => []RunInv
  BY InitRun, NextRun, PTL DEF Spec

LEMMA RunInvApart == RunInv => BuildsApart
  BY DEF RunInv, ApartInv, From, BuildsApart

(* However invocations overlap, and whatever git's remotes are, no source  *)
(* and no artifact of one directory gets into a build of another: the hash *)
(* that project_key_for makes is of the path as well as of the remote.     *)
THEOREM Apart == Spec => []BuildsApart
  BY RunInductive, RunInvApart, PTL

LEMMA RunInvWarm == RunInv => CacheStaysWarm
<1> SUFFICES ASSUME RunInv, NEW i \in Invocations, NEW j \in Invocations,
                    pc[i] = "run", pc[j] = "done", cargo[j] = "exited", status[j] = 0,
                    dir[i] = dir[j], dir[i] \in Shared \/ origin[dir[i]] = 0
             PROVE  cache[key[i]][profile[j]] # NoBuild
  BY DEF CacheStaysWarm
<1>1. cache[key[j]][profile[j]] # NoBuild
  BY DEF RunInv, WarmInv
<1>2. CASE dir[i] \in Shared
  <2>1. key[i] = KeyOf(dir[i]) /\ key[j] = KeyOf(dir[i])
    BY <1>2 DEF RunInv, KeyInv
  <2> QED
    BY <1>1, <2>1
<1>3. CASE dir[i] \notin Shared
  <2>1. /\ key[i].path = dir[i] /\ key[i].origin <= 0
        /\ key[j].path = dir[i] /\ key[j].origin <= 0
    BY <1>3 DEF RunInv, KeyInv
  <2>2. \A k \in Keys : k = [path |-> k.path, origin |-> k.origin] /\ k.origin \in Nat
    BY RunAssumption DEF Keys, RunAssumption
  <2>3. key[i] \in Keys /\ key[j] \in Keys
    BY DEF RunInv, RunTypeOK
  <2>4. key[i].origin = 0 /\ key[j].origin = 0
    BY <2>1, <2>2, <2>3
  <2> QED
    BY <1>1, <2>1, <2>2, <2>3, <2>4
<1> QED
  BY <1>2, <1>3

(* A directory that was built once finds its target/ at the next build,    *)
(* for every overlap of invocations: no sync, of whatever directory with   *)
(* the same key, and no other build takes it away.                         *)
THEOREM Warm == Spec => []CacheStaysWarm
  BY RunInductive, RunInvWarm, PTL

LEMMA PullNext ==
  RunInv /\ [Next]_vars =>
    (product' # product =>
       \E i \in Invocations : pc[i] = "pull" /\ cargo[i] = "exited" /\ status[i] = 0)
<1> SUFFICES ASSUME RunInv, Next, product' # product
             PROVE  \E i \in Invocations :
                      pc[i] = "pull" /\ cargo[i] = "exited" /\ status[i] = 0
  BY DEF vars
<1>1. PICK i \in Invocations, p \in Profiles : Pull(i, p)
  BY DEF Next, User, Edit, SetOrigin, Start, Rcargo, RemoteCargo, Mkdir, SyncFile,
         Synced, SyncFails, RunCargo, Collect, Pulled, PullFails, LinkFails,
         CargoLocks, CargoReads, CargoSucceeds, CargoFails, AtRest, vars
<1> QED
  BY <1>1 DEF Pull, RunInv, StageInv

(* The local target/ changes only for a build that has succeeded.          *)
THEOREM OnlySuccess == Spec => PullsOnlySuccess
  BY RunInductive, PullNext, PTL DEF Spec, PullsOnlySuccess

-----------------------------------------------------------------------------
(* Invocations that do not overlap                                         *)

LEMMA InitExclusive == Init => ExclusiveInv
  BY DEF Init, ExclusiveInv, LockInv, AloneInv, OwnInv, SettledInv, Active

(* Steps after which no cargo compiles that did not before.                *)
LEMMA LockStays ==
  ASSUME LockInv, UNCHANGED <<key, profile>>,
         \A i \in Invocations : cargo'[i] = "compiling" => cargo[i] = "compiling"
  PROVE  LockInv'
  BY DEF LockInv

LEMMA NextLock == RunTypeOK /\ StageInv /\ LockInv /\ [Next]_vars => LockInv'
<1> SUFFICES ASSUME RunTypeOK, StageInv, LockInv, [Next]_vars PROVE LockInv'
  OBVIOUS
<1>1. ASSUME NEW i \in Invocations, NEW d \in Dirs, NEW p \in Profiles, Start(i, d, p)
      PROVE  LockInv'
  <2>1. cargo[i] = "none" /\ UNCHANGED cargo
    BY <1>1 DEF Start, StageInv, remote
  <2>2. \A j \in Invocations \ {i} : key'[j] = key[j] /\ profile'[j] = profile[j]
    BY <1>1 DEF Start, RunTypeOK
  <2> QED
    BY <2>1, <2>2 DEF LockInv
<1>2. ASSUME NEW i \in Invocations, CargoLocks(i) PROVE LockInv'
  <2>1. \A j \in Invocations \ {i} : cargo'[j] = cargo[j]
    BY <1>2 DEF CargoLocks, RunTypeOK
  <2>2. \A j \in Invocations : key[j] = key[i] /\ profile[j] = profile[i]
                              => cargo[j] # "compiling"
    BY <1>2 DEF CargoLocks
  <2>3. UNCHANGED <<key, profile>>
    BY <1>2 DEF CargoLocks, choice
  <2> QED
    BY <2>1, <2>2, <2>3 DEF LockInv
<1>3. ASSUME NEW i \in Invocations, RunCargo(i) PROVE LockInv'
  BY <1>3, LockStays DEF RunCargo, RunTypeOK, choice
<1>4. ASSUME NEW i \in Invocations, CargoSucceeds(i) PROVE LockInv'
  BY <1>4, LockStays DEF CargoSucceeds, RunTypeOK, choice
<1>5. ASSUME NEW i \in Invocations, NEW c \in {101, Killed}, CargoFails(i, c)
      PROVE  LockInv'
  BY <1>5, LockStays DEF CargoFails, RunTypeOK, choice
<1>6. ASSUME UNCHANGED <<key, profile, cargo>> PROVE LockInv'
  BY <1>6, LockStays
<1>7. CASE \/ \E d \in Dirs, f \in Files : Edit(d, f)
           \/ \E d \in Dirs : SetOrigin(d)
           \/ \E i \in Invocations, f \in Files : CargoReads(i, f)
  BY <1>6, <1>7 DEF Edit, SetOrigin, CargoReads, choice, remote
<1>8. ASSUME NEW i \in Invocations, Rcargo(i) \/ LinkFails(i), ~RunCargo(i)
      PROVE  LockInv'
  BY <1>6, <1>8 DEF Rcargo, LinkFails, Mkdir, Synced, SyncFails, SyncFile, Collect,
                    Pull, PullFails, Pulled, choice, remote
<1>9. CASE UNCHANGED vars
  BY <1>6, <1>9 DEF vars, choice, remote
<1> QED
  BY <1>1, <1>2, <1>3, <1>4, <1>5, <1>7, <1>8, <1>9
     DEF Next, User, RemoteCargo, AtRest

(* Steps after which nobody is active who was not before.                  *)
LEMMA AloneStays ==
  ASSUME AloneInv, UNCHANGED <<key, dir>>,
         \A i \in Invocations : Active(i)' => Active(i)
  PROVE  AloneInv'
  BY DEF AloneInv

LEMMA NextAlone == Exclusive /\ RunTypeOK /\ AloneInv /\ [Next]_vars => AloneInv'
<1> SUFFICES ASSUME Exclusive, RunTypeOK, AloneInv, [Next]_vars PROVE AloneInv'
  OBVIOUS
<1>1. ASSUME NEW i \in Invocations, NEW d \in Dirs, NEW p \in Profiles, Start(i, d, p)
      PROVE  AloneInv'
  <2>1. \A j \in Invocations : Active(j) => key[j] # KeyOf(d) /\ dir[j] # d
    BY <1>1 DEF Start
  <2>2. \A j \in Invocations \ {i} :
          key'[j] = key[j] /\ dir'[j] = dir[j] /\ pc'[j] = pc[j]
    BY <1>1 DEF Start, RunTypeOK
  <2>3. key'[i] = KeyOf(d) /\ dir'[i] = d
    BY <1>1 DEF Start, RunTypeOK
  <2> QED
    BY <2>1, <2>2, <2>3 DEF AloneInv, Active
<1>2. ASSUME UNCHANGED <<key, dir, pc>> PROVE AloneInv'
  BY <1>2, AloneStays DEF Active
<1>3. ASSUME NEW i \in Invocations, Rcargo(i) \/ LinkFails(i) PROVE AloneInv'
  <2>1. pc[i] \notin {"idle", "done"} /\ UNCHANGED <<key, dir>>
    BY <1>3 DEF Rcargo, LinkFails, Mkdir, Synced, SyncFails, SyncFile, RunCargo,
                Collect, Pull, PullFails, Pulled, choice
  <2>2. pc' = pc \/ \E s : pc' = [pc EXCEPT ![i] = s]
    BY <1>3 DEF Rcargo, LinkFails, Mkdir, Synced, SyncFails, SyncFile, RunCargo,
                Collect, Pull, PullFails, Pulled, Done
  <2> QED
    BY <2>1, <2>2, AloneStays DEF RunTypeOK, Active
<1>4. ASSUME NEW i \in Invocations, RemoteCargo(i) PROVE AloneInv'
  BY <1>2, <1>4
     DEF RemoteCargo, CargoLocks, CargoReads, CargoSucceeds, CargoFails, choice
<1>5. CASE \/ \E d \in Dirs, f \in Files : Edit(d, f)
           \/ \E d \in Dirs : SetOrigin(d)
  BY <1>2, <1>5 DEF Edit, SetOrigin, choice
<1>6. CASE UNCHANGED vars
  BY <1>2, <1>6 DEF vars, choice
<1> QED
  BY <1>1, <1>3, <1>4, <1>5, <1>6 DEF Next, User, AtRest

(* Nobody else writes to the tree of an invocation that is alone.          *)
LEMMA SyncsOwnTree ==
  ASSUME RunTypeOK, AloneInv, NEW i \in Invocations, NEW f \in Files, SyncFile(i, f)
  PROVE  /\ \A j \in Invocations \ {i} : Active(j) =>
              tree'[key[j]] = tree[key[j]] /\ sent'[j] = sent[j] /\ todo'[j] = todo[j]
         /\ todo'[i] = todo[i] \ {f}
         /\ tree'[key[i]][f] = sent'[i][f]
         /\ \A g \in Files \ {f} : tree'[key[i]][g] = tree[key[i]][g]
                                 /\ sent'[i][g] = sent[i][g]
<1> DEFINE c == source[dir[i]][f]
<1>1. /\ tree' = [tree EXCEPT ![key[i]][f] = c] /\ sent' = [sent EXCEPT ![i][f] = c]
      /\ todo' = [todo EXCEPT ![i] = todo[i] \ {f}] /\ pc[i] = "rsync"
  BY DEF SyncFile
<1>2. /\ key \in [Invocations -> Keys] /\ tree \in [Keys -> Sources]
      /\ sent \in [Invocations -> Sources] /\ DOMAIN todo = Invocations
  BY DEF RunTypeOK
<1> HIDE DEF c
<1>3. \A j \in Invocations \ {i} : Active(j) => key[j] # key[i]
  BY <1>1 DEF AloneInv, Active
<1>4. \A j \in Invocations \ {i} : Active(j) =>
        tree'[key[j]] = tree[key[j]] /\ sent'[j] = sent[j] /\ todo'[j] = todo[j]
  BY <1>1, <1>2, <1>3
<1>5. tree[key[i]] \in [Files -> Content] /\ sent[i] \in [Files -> Content]
  BY <1>2 DEF Sources
<1>6. tree'[key[i]] = [tree[key[i]] EXCEPT ![f] = c]
      /\ sent'[i] = [sent[i] EXCEPT ![f] = c]
  BY <1>1, <1>2
<1> QED
  BY <1>1, <1>2, <1>4, <1>5, <1>6

(* Sources that agree on every file are the same.                          *)
LEMMA SameSources ==
  ASSUME NEW s \in Sources, NEW t \in Sources, \A f \in Files : s[f] = t[f]
  PROVE  s = t
  BY DEF Sources

LEMMA NextOwn ==
  RunTypeOK /\ StageInv /\ AloneInv /\ OwnInv /\ [Next]_vars => OwnInv'
<1> SUFFICES ASSUME RunTypeOK, StageInv, AloneInv, OwnInv, [Next]_vars PROVE OwnInv'
  OBVIOUS
<1>1. ASSUME UNCHANGED <<pc, key, todo, tree, sent, unread, seen, result>> PROVE OwnInv'
  BY <1>1 DEF OwnInv
<1>2. ASSUME NEW i \in Invocations, NEW d \in Dirs, NEW p \in Profiles, Start(i, d, p)
      PROVE  OwnInv'
  <2>1. \A j \in Invocations \ {i} : key'[j] = key[j] /\ pc'[j] = pc[j]
    BY <1>2 DEF Start, RunTypeOK
  <2>2. pc'[i] = "mkdir" /\ UNCHANGED <<tree, todo, sent, unread, seen, result>>
    BY <1>2 DEF Start, RunTypeOK, remote
  <2> QED
    BY <2>1, <2>2 DEF OwnInv
<1>3. ASSUME NEW i \in Invocations, Mkdir(i) PROVE OwnInv'
  BY <1>3 DEF Mkdir, OwnInv, RunTypeOK, choice, remote
<1>4. ASSUME NEW i \in Invocations, NEW f \in Files, SyncFile(i, f) PROVE OwnInv'
  <2>1. pc[i] = "rsync" /\ UNCHANGED <<pc, key, unread, seen, result>>
    BY <1>4 DEF SyncFile, choice, remote
  <2> SUFFICES ASSUME NEW j \in Invocations
               PROVE  /\ pc[j] = "rsync" =>
                           \A g \in Files \ todo'[j] : tree'[key[j]][g] = sent'[j][g]
                      /\ pc[j] \in {"run", "wait", "pull"} => tree'[key[j]] = sent'[j]
                      /\ pc[j] = "wait" =>
                           \A g \in Files \ unread[j] : seen[j][g] = sent'[j][g]
                      /\ pc[j] = "pull" \/ (pc[j] = "done" /\ result[j] = 0)
                           => seen[j] = sent'[j]
    BY <2>1 DEF OwnInv
  <2>2. CASE j = i
    BY <1>4, <2>1, <2>2, SyncsOwnTree DEF OwnInv
  <2>3. CASE j # i
    <3>1. sent'[j] = sent[j]
      BY <1>4, <2>3 DEF SyncFile, RunTypeOK
    <3>2. Active(j) => tree'[key[j]] = tree[key[j]] /\ todo'[j] = todo[j]
      BY <1>4, <2>3, SyncsOwnTree
    <3> QED
      BY <3>1, <3>2 DEF OwnInv, Active
  <2> QED
    BY <2>2, <2>3
<1>5. ASSUME NEW i \in Invocations, Synced(i) PROVE OwnInv'
  <2>1. /\ pc[i] = "rsync" /\ todo[i] = {} /\ pc' = [pc EXCEPT ![i] = "run"]
        /\ UNCHANGED <<key, todo, tree, sent, unread, seen, result>>
    BY <1>5 DEF Synced, choice, remote
  <2>2. tree[key[i]] \in Sources /\ sent[i] \in Sources
    BY DEF RunTypeOK
  <2>3. tree[key[i]] = sent[i]
    BY <2>1, <2>2, SameSources DEF OwnInv
  <2> QED
    BY <2>1, <2>3 DEF OwnInv, RunTypeOK
<1>6. ASSUME NEW i \in Invocations, SyncFails(i) PROVE OwnInv'
  BY <1>6 DEF SyncFails, Done, OwnInv, RunTypeOK, choice, remote
<1>7. ASSUME NEW i \in Invocations, RunCargo(i) PROVE OwnInv'
  BY <1>7 DEF RunCargo, OwnInv, RunTypeOK, choice
<1>8. ASSUME NEW i \in Invocations, NEW f \in Files, CargoReads(i, f) PROVE OwnInv'
  <2> DEFINE c == tree[key[i]][f]
  <2>1. /\ cargo[i] = "compiling" /\ seen' = [seen EXCEPT ![i][f] = c]
        /\ unread' = [unread EXCEPT ![i] = unread[i] \ {f}]
        /\ UNCHANGED <<pc, key, todo, tree, sent, result>>
    BY <1>8 DEF CargoReads, choice
  <2>2. seen[i] \in [Files -> Content] /\ seen \in [Invocations -> Sources]
        /\ unread \in [Invocations -> SUBSET Files]
    BY DEF RunTypeOK, Sources
  <2>3. pc[i] # "pull" /\ ~(pc[i] = "done" /\ result[i] = 0)
    BY <2>1 DEF StageInv
  <2>4. pc[i] = "wait" => c = sent[i][f]
    BY DEF OwnInv
  <2> HIDE DEF c
  <2>5. seen'[i] = [seen[i] EXCEPT ![f] = c] /\ unread'[i] = unread[i] \ {f}
    BY <2>1, <2>2
  <2>6. pc[i] = "wait" => \A g \in Files \ unread'[i] : seen'[i][g] = sent[i][g]
    BY <2>2, <2>4, <2>5 DEF OwnInv
  <2>7. \A j \in Invocations \ {i} : seen'[j] = seen[j] /\ unread'[j] = unread[j]
    BY <2>1, <2>2
  <2> QED
    BY <2>1, <2>3, <2>6, <2>7 DEF OwnInv
<1>9. ASSUME NEW i \in Invocations, Collect(i) PROVE OwnInv'
  <2>1. /\ pc[i] = "wait" /\ cargo[i] = "exited"
        /\ UNCHANGED <<key, tree, sent, unread, seen>>
    BY <1>9 DEF Collect, choice, remote
  <2>2. seen[i] \in Sources /\ sent[i] \in Sources
    BY DEF RunTypeOK
  <2>3. status[i] = 0 => seen[i] = sent[i]
    BY <2>1, <2>2, SameSources DEF StageInv, OwnInv
  <2>4. tree[key[i]] = sent[i]
    BY <2>1 DEF OwnInv
  <2>5. \/ pc'[i] = "pull" /\ status[i] = 0
        \/ pc'[i] = "done" /\ result'[i] = status[i]
    BY <1>9 DEF Collect, Done, RunTypeOK
  <2>6. \A j \in Invocations \ {i} :
          pc'[j] = pc[j] /\ todo'[j] = todo[j] /\ result'[j] = result[j]
    BY <1>9 DEF Collect, Done, RunTypeOK
  <2>7. ASSUME NEW j \in Invocations \ {i}
        PROVE  /\ pc'[j] = "rsync" =>
                    \A g \in Files \ todo'[j] : tree[key[j]][g] = sent[j][g]
               /\ pc'[j] \in {"run", "wait", "pull"} => tree[key[j]] = sent[j]
               /\ pc'[j] = "wait" =>
                    \A g \in Files \ unread[j] : seen[j][g] = sent[j][g]
               /\ pc'[j] = "pull" \/ (pc'[j] = "done" /\ result'[j] = 0)
                    => seen[j] = sent[j]
    BY <2>6 DEF OwnInv
  <2> QED
    BY <2>1, <2>3, <2>4, <2>5, <2>7 DEF OwnInv
<1>10. ASSUME NEW i \in Invocations, LinkFails(i) PROVE OwnInv'
  BY <1>10 DEF LinkFails, Done, OwnInv, RunTypeOK, choice, remote
<1>11. ASSUME NEW i \in Invocations, NEW p \in Profiles, Pull(i, p) \/ PullFails(i, p)
       PROVE  OwnInv'
  <2>1. /\ pc[i] = "pull" /\ UNCHANGED <<pc, key, tree, sent, unread, seen, result>>
        /\ todo' = [todo EXCEPT ![i] = todo[i] \ {p}]
    BY <1>11 DEF Pull, PullFails, choice, remote
  <2> QED
    BY <2>1 DEF OwnInv, RunTypeOK
<1>12. ASSUME NEW i \in Invocations, Pulled(i) PROVE OwnInv'
  BY <1>12 DEF Pulled, Done, OwnInv, RunTypeOK, choice, remote
<1>13. CASE \/ \E d \in Dirs, f \in Files : Edit(d, f)
            \/ \E d \in Dirs : SetOrigin(d)
  BY <1>1, <1>13 DEF Edit, SetOrigin, choice, remote
<1>14. ASSUME NEW i \in Invocations,
              \/ CargoLocks(i) \/ CargoSucceeds(i)
              \/ \E c \in {101, Killed} : CargoFails(i, c)
       PROVE  OwnInv'
  BY <1>1, <1>14 DEF CargoLocks, CargoSucceeds, CargoFails, choice
<1>15. CASE UNCHANGED vars
  BY <1>1, <1>15 DEF vars, choice, remote
<1> QED
  BY <1>2, <1>3, <1>4, <1>5, <1>6, <1>7, <1>8, <1>9, <1>10, <1>11, <1>12, <1>13,
     <1>14, <1>15 DEF Next, User, Rcargo, RemoteCargo, AtRest

-----------------------------------------------------------------------------
(* What is built is what is pulled                                         *)

LEMMA NextSettled ==
  /\ RunTypeOK /\ StageInv /\ WarmInv /\ LockInv /\ AloneInv /\ OwnInv /\ SettledInv
  /\ [Next]_vars
  => SettledInv'
<1> SUFFICES ASSUME RunTypeOK, StageInv, WarmInv, LockInv, AloneInv, OwnInv,
                    SettledInv, [Next]_vars
             PROVE  SettledInv'
  OBVIOUS
<1> DEFINE Settled(i) == pc[i] \in {"wait", "pull"} /\ cargo[i] = "exited" /\ status[i] = 0
           Rival(i, j) == key[j] = key[i] /\ profile[j] = profile[i] /\ cargo[j] = "compiling"
           Over(i) == pc[i] = "pull" /\ ~missed[i] /\ profile[i] \notin todo[i]
<1>a. ASSUME \A i \in Invocations : Settled(i)' =>
               /\ cache'[key'[i]][profile'[i]] = sent'[i]
               /\ \A j \in Invocations : Rival(i, j)' =>
                    \A f \in Files \ unread'[j] : seen'[j][f] = sent'[i][f],
             \A i \in Invocations : Over(i)' =>
               product'[dir'[i]][profile'[i]] = sent'[i]
      PROVE  SettledInv'
  BY <1>a DEF SettledInv
<1>b. \A i \in Invocations : Settled(i) =>
        /\ cache[key[i]][profile[i]] = sent[i]
        /\ \A j \in Invocations : Rival(i, j) =>
             \A f \in Files \ unread[j] : seen[j][f] = sent[i][f]
  BY DEF SettledInv
<1>c. \A i \in Invocations : Over(i) => product[dir[i]][profile[i]] = sent[i]
  BY DEF SettledInv
<1>1. ASSUME UNCHANGED <<cache, key, profile, sent, unread, seen, dir, product>>,
             \A i \in Invocations : Settled(i)' => Settled(i),
             \A i \in Invocations : cargo'[i] = "compiling" =>
                cargo[i] = "compiling" \/ unread[i] = Files,
             \A i \in Invocations : Over(i)' => Over(i)
      PROVE  SettledInv'
  <2>1. \A i, j \in Invocations : Rival(i, j)' => Rival(i, j) \/ unread[j] = Files
    BY <1>1
  <2> HIDE DEF Settled, Rival, Over
  <2> QED
    BY <1>1, <1>a, <1>b, <1>c, <2>1
<1>2. ASSUME NEW i \in Invocations, NEW d \in Dirs, NEW p \in Profiles, Start(i, d, p)
      PROVE  SettledInv'
  <2>1. /\ \A j \in Invocations \ {i} : key'[j] = key[j] /\ profile'[j] = profile[j]
                                       /\ dir'[j] = dir[j] /\ pc'[j] = pc[j]
        /\ pc'[i] = "mkdir"
    BY <1>2 DEF Start, RunTypeOK
  <2>2. cargo[i] = "none" /\ UNCHANGED <<cache, sent, unread, seen, product, cargo,
                                         status, missed, todo>>
    BY <1>2 DEF Start, StageInv, remote
  <2>3. \A j \in Invocations : Settled(j)' => j # i /\ Settled(j)
    BY <2>1, <2>2
  <2>4. \A j \in Invocations : Over(j)' => j # i /\ Over(j)
    BY <2>1, <2>2
  <2>5. \A j, k \in Invocations : j # i /\ Rival(j, k)' => k # i /\ Rival(j, k)
    BY <2>1, <2>2
  <2> HIDE DEF Settled, Rival, Over
  <2> QED
    BY <1>a, <1>b, <1>c, <2>1, <2>2, <2>3, <2>4, <2>5
<1>3. ASSUME NEW i \in Invocations, NEW f \in Files, SyncFile(i, f) PROVE SettledInv'
  <2>1. /\ pc[i] = "rsync" /\ UNCHANGED <<pc, key, profile, dir, cache, product, cargo,
                                          unread, seen, status, missed>>
        /\ todo' = [todo EXCEPT ![i] = todo[i] \ {f}]
    BY <1>3 DEF SyncFile, choice, remote
  <2>2. \A j \in Invocations \ {i} : sent'[j] = sent[j] /\ todo'[j] = todo[j]
    BY <1>3 DEF SyncFile, RunTypeOK
  <2>3. \A j \in Invocations : Settled(j)' => j # i /\ Settled(j)
    BY <2>1
  <2>4. \A j \in Invocations : Over(j)' => j # i /\ Over(j)
    BY <2>1, <2>2
  <2>5. \A j, k \in Invocations : Rival(j, k)' => Rival(j, k)
    BY <2>1
  <2> HIDE DEF Settled, Rival, Over
  <2> QED
    BY <1>a, <1>b, <1>c, <2>1, <2>2, <2>3, <2>4, <2>5
<1>4. ASSUME NEW i \in Invocations, RunCargo(i) PROVE SettledInv'
  <2>1. /\ pc[i] = "run" /\ pc' = [pc EXCEPT ![i] = "wait"]
        /\ cargo' = [cargo EXCEPT ![i] = "started"]
        /\ cargo[i] = "none" /\ unread' = [unread EXCEPT ![i] = Files]
        /\ UNCHANGED <<key, profile, dir, cache, product, sent, seen, status, missed, todo>>
    BY <1>4 DEF RunCargo, StageInv, choice
  <2>2. \A j \in Invocations \ {i} :
          pc'[j] = pc[j] /\ cargo'[j] = cargo[j] /\ unread'[j] = unread[j]
    BY <2>1 DEF RunTypeOK
  <2>3. pc'[i] = "wait" /\ cargo'[i] = "started"
    BY <2>1 DEF RunTypeOK
  <2>4. \A j \in Invocations : Settled(j)' => j # i /\ Settled(j)
    BY <2>1, <2>2, <2>3
  <2>5. \A j \in Invocations : Over(j)' => j # i /\ Over(j)
    BY <2>1, <2>2, <2>3
  <2>6. \A j, k \in Invocations : Rival(j, k)' => k # i /\ Rival(j, k)
    BY <2>1, <2>2, <2>3
  <2> HIDE DEF Settled, Rival, Over
  <2> QED
    BY <1>a, <1>b, <1>c, <2>1, <2>2, <2>4, <2>5, <2>6
<1>5. ASSUME NEW i \in Invocations, CargoLocks(i) PROVE SettledInv'
  <2>1. /\ cargo[i] = "started" /\ cargo' = [cargo EXCEPT ![i] = "compiling"]
        /\ UNCHANGED <<pc, key, profile, dir, cache, product, sent, seen, unread, status,
                       missed, todo>>
    BY <1>5 DEF CargoLocks, choice
  <2>2. unread[i] = Files
    BY <2>1 DEF StageInv
  <2>3. cargo'[i] = "compiling" /\ \A j \in Invocations \ {i} : cargo'[j] = cargo[j]
    BY <2>1 DEF RunTypeOK
  <2> QED
    BY <1>1, <2>1, <2>2, <2>3
<1>6. ASSUME NEW i \in Invocations, NEW f \in Files, CargoReads(i, f) PROVE SettledInv'
  <2> DEFINE c == tree[key[i]][f]
  <2>1. /\ cargo[i] = "compiling" /\ seen' = [seen EXCEPT ![i][f] = c]
        /\ unread' = [unread EXCEPT ![i] = unread[i] \ {f}]
        /\ UNCHANGED <<pc, key, profile, dir, cache, product, sent, cargo, status,
                       missed, todo>>
    BY <1>6 DEF CargoReads, choice
  <2>2. seen[i] \in [Files -> Content] /\ seen \in [Invocations -> Sources]
        /\ unread \in [Invocations -> SUBSET Files]
    BY DEF RunTypeOK, Sources
  <2>3. \A j \in Invocations : Settled(j) /\ Rival(j, i) => c = sent[j][f]
    BY DEF OwnInv
  <2>4. \A j \in Invocations : Settled(j)' <=> Settled(j)
    BY <2>1
  <2>5. \A j \in Invocations : Over(j)' <=> Over(j)
    BY <2>1
  <2>6. \A j, k \in Invocations : Rival(j, k)' <=> Rival(j, k)
    BY <2>1
  <2> HIDE DEF Settled, Rival, Over, c
  <2>7. seen'[i] = [seen[i] EXCEPT ![f] = c] /\ unread'[i] = unread[i] \ {f}
    BY <2>1, <2>2
  <2>8. \A k \in Invocations \ {i} : seen'[k] = seen[k] /\ unread'[k] = unread[k]
    BY <2>1, <2>2
  <2>9. ASSUME NEW j \in Invocations, Settled(j), NEW k \in Invocations, Rival(j, k),
               NEW g \in Files \ unread'[k]
        PROVE  seen'[k][g] = sent[j][g]
    <3>1. CASE k # i
      BY <1>b, <2>8, <2>9, <3>1
    <3>2. CASE k = i /\ g = f
      BY <2>2, <2>3, <2>7, <2>9, <3>2
    <3>3. CASE k = i /\ g # f
      <4>1. g \in Files \ unread[i] /\ seen'[i][g] = seen[i][g]
        BY <2>2, <2>7, <2>9, <3>3
      <4> QED
        BY <1>b, <2>9, <3>3, <4>1
    <3> QED
      BY <3>1, <3>2, <3>3
  <2> QED
    BY <1>a, <1>b, <1>c, <2>1, <2>4, <2>5, <2>6, <2>9
<1>7. ASSUME NEW i \in Invocations, CargoSucceeds(i) PROVE SettledInv'
  <2>1. /\ cargo[i] = "compiling" /\ unread[i] = {}
        /\ cargo' = [cargo EXCEPT ![i] = "exited"]
        /\ status' = [status EXCEPT ![i] = 0]
        /\ cache' = [cache EXCEPT ![key[i]][profile[i]] = seen[i]]
        /\ UNCHANGED <<pc, key, profile, dir, product, sent, seen, unread, missed, todo>>
    BY <1>7 DEF CargoSucceeds, choice
  <2>2. \A k \in Keys, p \in Profiles :
          cache'[k][p] = IF k = key[i] /\ p = profile[i] THEN seen[i] ELSE cache[k][p]
    BY <2>1 DEF RunTypeOK
  <2>3. \A j \in Invocations : key[j] \in Keys /\ profile[j] \in Profiles
                              /\ seen[j] \in Sources /\ sent[j] \in Sources
    BY DEF RunTypeOK
  <2>4. \A j \in Invocations \ {i} : cargo'[j] = cargo[j] /\ status'[j] = status[j]
    BY <2>1 DEF RunTypeOK
  <2>5. cargo'[i] = "exited"
    BY <2>1 DEF RunTypeOK
  <2>6. pc[i] # "pull"
    BY <2>1 DEF StageInv
  <2>7. pc[i] = "wait" => seen[i] = sent[i]
    BY <2>1, <2>3, SameSources DEF OwnInv
  <2>8. \A j \in Invocations : Rival(j, i) => \A k \in Invocations \ {i} : ~Rival(j, k)
    BY <2>1 DEF LockInv
  <2>9. \A j \in Invocations : Settled(j)' => (j = i /\ pc[i] = "wait") \/ (j # i /\ Settled(j))
    BY <2>1, <2>4, <2>6
  <2>10. \A j \in Invocations : Over(j)' <=> Over(j)
    BY <2>1
  <2>11. \A j, k \in Invocations : Rival(j, k)' => k # i /\ Rival(j, k)
    BY <2>1, <2>4, <2>5
  <2>12. \A j \in Invocations :
           key[j] = key[i] /\ profile[j] = profile[i] <=> Rival(j, i)
    BY <2>1
  <2>13. \A k \in Invocations : ~Rival(i, k) \/ k = i
    BY <2>8, <2>12
  <2> HIDE DEF Settled, Rival, Over
  <2>14. ASSUME NEW j \in Invocations, Settled(j), Rival(j, i)
         PROVE  seen[i] = sent[j]
    BY <1>b, <2>1, <2>3, <2>14, SameSources
  <2>15. ASSUME NEW j \in Invocations, Settled(j)'
         PROVE  /\ cache'[key[j]][profile[j]] = sent[j]
                /\ \A k \in Invocations : Rival(j, k)' =>
                     \A f \in Files \ unread[k] : seen[k][f] = sent[j][f]
    <3>1. CASE j = i
      <4>1. cache'[key[i]][profile[i]] = sent[i]
        BY <2>2, <2>3, <2>7, <2>9, <2>15, <3>1
      <4>2. \A k \in Invocations : ~Rival(i, k)'
        BY <2>11, <2>13
      <4> QED
        BY <3>1, <4>1, <4>2
    <3>2. CASE j # i
      <4>1. Settled(j)
        BY <2>9, <2>15, <3>2
      <4>2. cache'[key[j]][profile[j]] = sent[j]
        BY <1>b, <2>2, <2>3, <2>12, <2>14, <4>1
      <4> QED
        BY <1>b, <2>11, <4>1, <4>2
    <3> QED
      BY <3>1, <3>2
  <2> QED
    BY <1>a, <1>c, <2>1, <2>10, <2>15
<1>8. ASSUME NEW i \in Invocations, NEW c \in {101, Killed}, CargoFails(i, c)
      PROVE  SettledInv'
  <2>1. CodeOf(c) # 0
    BY CodeTypes
  <2>2. /\ cargo' = [cargo EXCEPT ![i] = "exited"]
        /\ status' = [status EXCEPT ![i] = CodeOf(c)]
        /\ UNCHANGED <<pc, key, profile, dir, cache, product, sent, seen, unread,
                       missed, todo>>
    BY <1>8 DEF CargoFails, choice
  <2>3. /\ cargo'[i] = "exited" /\ status'[i] # 0
        /\ \A j \in Invocations \ {i} : cargo'[j] = cargo[j] /\ status'[j] = status[j]
    BY <2>1, <2>2 DEF RunTypeOK
  <2> QED
    BY <1>1, <2>2, <2>3
<1>9. ASSUME NEW i \in Invocations, Collect(i) PROVE SettledInv'
  <2>1. /\ pc[i] = "wait" /\ cargo[i] = "exited"
        /\ UNCHANGED <<key, profile, dir, cache, product, cargo, sent, seen, unread,
                       status, missed>>
    BY <1>9 DEF Collect, choice, remote
  <2>2. \/ pc'[i] = "pull" /\ status[i] = 0 /\ todo'[i] = Profiles
        \/ pc'[i] = "done"
    BY <1>9 DEF Collect, Done, RunTypeOK
  <2>3. \A j \in Invocations \ {i} : pc'[j] = pc[j] /\ todo'[j] = todo[j]
    BY <1>9 DEF Collect, Done, RunTypeOK
  <2>4. profile[i] \in Profiles
    BY DEF RunTypeOK
  <2> QED
    BY <1>1, <2>1, <2>2, <2>3, <2>4
<1>10. ASSUME NEW i \in Invocations, NEW s, pc' = [pc EXCEPT ![i] = s],
              s \notin {"wait", "pull"},
              UNCHANGED <<key, profile, dir, cache, product, cargo, sent, seen, unread,
                          status, missed>>,
              \A j \in Invocations \ {i} : todo'[j] = todo[j]
       PROVE  SettledInv'
  <2>1. pc'[i] = s /\ \A j \in Invocations \ {i} : pc'[j] = pc[j]
    BY <1>10 DEF RunTypeOK
  <2> QED
    BY <1>1, <1>10, <2>1
<1>11. ASSUME NEW i \in Invocations,
              Mkdir(i) \/ Synced(i) \/ SyncFails(i) \/ LinkFails(i) \/ Pulled(i)
       PROVE  SettledInv'
  <2>1. \A j \in Invocations \ {i} : todo'[j] = todo[j]
    BY <1>11 DEF Mkdir, Synced, SyncFails, LinkFails, Pulled, RunTypeOK
  <2> QED
    BY <1>10, <1>11, <2>1
       DEF Mkdir, Synced, SyncFails, LinkFails, Pulled, Done, choice, remote
<1>12. ASSUME NEW i \in Invocations, NEW p \in Profiles, Pull(i, p) PROVE SettledInv'
  <2>1. /\ pc[i] = "pull" /\ todo' = [todo EXCEPT ![i] = todo[i] \ {p}]
        /\ UNCHANGED <<pc, key, profile, dir, cache, cargo, sent, seen, unread, status,
                       missed>>
    BY <1>12 DEF Pull, choice, remote
  <2>2. Settled(i)
    BY <2>1 DEF StageInv
  <2>3. cache[key[i]][profile[i]] = sent[i] /\ sent[i] # NoBuild
    BY <1>b, <2>2 DEF WarmInv
  <2>4. \A j \in Invocations : dir[j] \in Dirs /\ profile[j] \in Profiles
    BY DEF RunTypeOK
  <2>5. p = profile[i] => product'[dir[i]][p] = sent[i]
    BY <1>12, <2>3, <2>4 DEF Pull, RunTypeOK
  <2>6. \A d \in Dirs, q \in Profiles :
          d # dir[i] \/ q # p => product'[d][q] = product[d][q]
    BY <1>12 DEF Pull, RunTypeOK
  <2>7. \A j \in Invocations \ {i} : Over(j) => dir[j] # dir[i]
    BY <2>1 DEF AloneInv, Active
  <2>8. \A j \in Invocations \ {i} : Over(j)' => Over(j)
    BY <2>1 DEF RunTypeOK
  <2>9. Over(i)' => Over(i) \/ p = profile[i]
    BY <2>1 DEF RunTypeOK
  <2>10. \A j \in Invocations : Settled(j)' <=> Settled(j)
    BY <2>1
  <2>11. \A j, k \in Invocations : Rival(j, k)' <=> Rival(j, k)
    BY <2>1
  <2> HIDE DEF Settled, Rival, Over
  <2>12. \A j \in Invocations : Over(j)' => product'[dir[j]][profile[j]] = sent[j]
    BY <1>c, <2>4, <2>5, <2>6, <2>7, <2>8, <2>9
  <2> QED
    BY <1>a, <1>b, <2>1, <2>10, <2>11, <2>12
<1>13. ASSUME NEW i \in Invocations, NEW p \in Profiles, PullFails(i, p)
       PROVE  SettledInv'
  <2>1. /\ missed' = [missed EXCEPT ![i] = TRUE]
        /\ todo' = [todo EXCEPT ![i] = todo[i] \ {p}]
        /\ UNCHANGED <<pc, key, profile, dir, cache, product, cargo, sent, seen, unread,
                       status>>
    BY <1>13 DEF PullFails, choice, remote
  <2>2. missed'[i] /\ \A j \in Invocations \ {i} : missed'[j] = missed[j] /\ todo'[j] = todo[j]
    BY <2>1 DEF RunTypeOK
  <2> QED
    BY <1>1, <2>1, <2>2
<1>14. CASE \/ \E d \in Dirs, f \in Files : Edit(d, f)
            \/ \E d \in Dirs : SetOrigin(d)
  BY <1>1, <1>14 DEF Edit, SetOrigin, choice, remote
<1>15. CASE UNCHANGED vars
  BY <1>1, <1>15 DEF vars, choice, remote
<1> QED
  BY <1>2, <1>3, <1>4, <1>5, <1>6, <1>7, <1>8, <1>9, <1>11, <1>12, <1>13, <1>14, <1>15
     DEF Next, User, Rcargo, RemoteCargo, AtRest

LEMMA NextExclusive ==
  Exclusive /\ RunInv /\ ExclusiveInv /\ [Next]_vars => ExclusiveInv'
  BY NextLock, NextAlone, NextOwn, NextSettled DEF RunInv, ExclusiveInv

(* For invocations that keep apart in key and directory: from its sync to  *)
(* its end the remote tree is what an invocation sent, its cargo has read  *)
(* nothing else, and a cargo that was left behind can find nothing else    *)
(* any more.                                                               *)
THEOREM ExclusiveInductive == Exclusive /\ Spec => []ExclusiveInv
<1>1. Exclusive /\ Spec => [](Exclusive /\ RunInv /\ ExclusiveInv)
  <2>1. Exclusive /\ Init => Exclusive /\ RunInv /\ ExclusiveInv
    BY InitRun, InitExclusive
  <2>2. Exclusive /\ RunInv /\ ExclusiveInv /\ [Next]_vars
        => (Exclusive /\ RunInv /\ ExclusiveInv)'
    BY NextRun, NextExclusive
  <2> QED
    BY <2>1, <2>2, PTL DEF Spec
<1> QED
  BY <1>1, PTL

LEMMA ExclusiveSuccess == RunInv /\ ExclusiveInv => SuccessIsOwnBuild
  BY DEF RunInv, StageInv, ExclusiveInv, OwnInv, SuccessIsOwnBuild

(* When rcargo returns 0, and no other invocation with the same key or     *)
(* directory ran meanwhile, the remote cargo has succeeded with the files  *)
(* that this invocation sent, although cargos whose connection was lost    *)
(* may still be at work in the same tree.                                  *)
THEOREM OwnBuild == Exclusive /\ Spec => []SuccessIsOwnBuild
  BY RunInductive, ExclusiveInductive, ExclusiveSuccess, PTL

LEMMA PulledNext ==
  RunInv /\ ExclusiveInv /\ [Next]_vars =>
    \A i \in Invocations : pc[i] = "pull" /\ pc'[i] = "done" /\ ~missed[i] =>
      product[dir[i]][profile[i]] = sent[i]
<1> SUFFICES ASSUME RunInv, ExclusiveInv, [Next]_vars, NEW i \in Invocations,
                    pc[i] = "pull", pc'[i] = "done", ~missed[i]
             PROVE  product[dir[i]][profile[i]] = sent[i]
  OBVIOUS
<1>1. todo[i] = {}
  <2>1. PICK j \in Invocations : Rcargo(j) \/ LinkFails(j)
    BY DEF Next, User, Edit, SetOrigin, Start, RemoteCargo, CargoLocks, CargoReads,
           CargoSucceeds, CargoFails, AtRest, vars, RunInv, RunTypeOK
  <2>2. j = i
    BY <2>1 DEF Rcargo, LinkFails, Mkdir, SyncFile, Synced, SyncFails, RunCargo,
                Collect, Pull, PullFails, Pulled, Done, RunInv, RunTypeOK
  <2> QED
    BY <2>1, <2>2 DEF Rcargo, LinkFails, Mkdir, SyncFile, Synced, SyncFails, RunCargo,
                      Collect, Pull, PullFails, Pulled
<1> QED
  BY <1>1 DEF ExclusiveInv, SettledInv

(* What pull_artifacts leaves in the local target/ for the profile of the  *)
(* build is this build, unless one of its rsyncs failed: a cargo that was  *)
(* left behind and still writes to the remote target/ can only have found  *)
(* the files that this invocation sent.                                    *)
THEOREM PulledOwn == Exclusive /\ Spec => PulledIsOwnBuild
  BY RunInductive, ExclusiveInductive, PulledNext, PTL DEF Spec, PulledIsOwnBuild
=============================================================================
