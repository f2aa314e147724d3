--------------------------- MODULE FrontendProofs ---------------------------
(***************************************************************************)
(* Proofs about an invocation, for all inputs, trees, capacities of ssh's  *)
(* pipes and statuses of ssh.                                              *)
(***************************************************************************)
EXTENDS Frontend, RulesProofs

(* What was copied is a prefix of what ssh wrote, and readable.            *)
Copied ==
  \A s \in Streams :
    shown[s] <= Len(wrote[s]) /\ \A m \in 1..shown[s] : wrote[s][m]

(* A task ends before a line that is no UTF-8, or behind the last one.     *)
Ended ==
  \A s \in Streams : reader[s] = "ended" =>
    \/ shown[s] < Len(wrote[s]) /\ ~wrote[s][shown[s] + 1]
    \/ shown[s] = Len(wrote[s]) /\ status # <<>>

(* The order in run_cargo: the status, then the tasks.                     *)
Staged ==
  /\ stage \in {"join", "back"} => status # <<>>
  /\ stage = "back" => \A s \in Streams : reader[s] = "ended"

(* Where run() is: it is back when it goes on, with ssh's code, and it     *)
(* pulls after a success.                                                  *)
Placed ==
  /\ pc # "done" => exit = 0
  /\ stage # "off" => pc \in {"ssh", "pull", "done"}
  /\ stage # "off" /\ pc \in {"pull", "done"} => stage = "back"
  /\ stage # "off" /\ pc = "pull" => CodeOf(status[1]) = 0
  /\ stage # "off" /\ pc = "done" => exit = CodeOf(status[1])

OutcomeInv == SshTypeOK /\ Copied /\ Ended /\ Staged /\ Placed

-----------------------------------------------------------------------------

(* A task that ended behind all it could read has copied the readable      *)
(* lines and no other.                                                     *)
LEMMA ReadableIsShown ==
  ASSUME SshTypeOK, Copied, Ended, NEW s \in Streams, reader[s] = "ended"
  PROVE  shown[s] = Cardinality(Readable(s))
<1>1. shown[s] \in Nat /\ wrote[s] \in Seq(BOOLEAN)
  BY DEF SshTypeOK
<1>2. DOMAIN wrote[s] = 1..Len(wrote[s]) /\ Len(wrote[s]) \in Nat
  BY <1>1
<1>3. shown[s] <= Len(wrote[s]) /\ \A m \in 1..shown[s] : wrote[s][m]
  BY DEF Copied
<1>4. \A n \in DOMAIN wrote[s] : n > shown[s] => \E m \in 1..n : ~wrote[s][m]
  <2> SUFFICES ASSUME NEW n \in DOMAIN wrote[s], n > shown[s]
               PROVE  \E m \in 1..n : ~wrote[s][m]
    OBVIOUS
  <2>1. ~wrote[s][shown[s] + 1]
    BY <1>1, <1>2 DEF Ended
  <2>2. shown[s] + 1 \in 1..n
    BY <1>1, <1>2
  <2> QED
    BY <2>1, <2>2
<1>5. Readable(s) = 1..shown[s]
  <2>1. ASSUME NEW n \in 1..shown[s] PROVE n \in Readable(s)
    BY <1>1, <1>2, <1>3 DEF Readable
  <2>2. ASSUME NEW n \in Readable(s) PROVE n \in 1..shown[s]
    BY <1>1, <1>2, <1>4 DEF Readable
  <2> QED
    BY <2>1, <2>2
<1>6. Cardinality(1..shown[s]) = shown[s]
  BY <1>1, FS_Interval
<1> QED
  BY <1>5, <1>6

LEMMA OutcomeInvImplies == OutcomeInv => OutcomeIsWhole
<1> SUFFICES ASSUME OutcomeInv, pc \in {"pull", "done"}, stage # "off"
             PROVE  /\ stage = "back" /\ exit = CodeOf(status[1])
                    /\ \A s \in Streams : shown[s] = Cardinality(Readable(s))
  BY DEF OutcomeIsWhole
<1>1. stage = "back" /\ exit = CodeOf(status[1])
  BY DEF OutcomeInv, Placed
<1>2. \A s \in Streams : reader[s] = "ended"
  BY <1>1 DEF OutcomeInv, Staged
<1> QED
  BY <1>1, <1>2, ReadableIsShown DEF OutcomeInv

LEMMA OutcomeInvInit == Init => OutcomeInv
<1> SUFFICES ASSUME Init PROVE OutcomeInv
  OBVIOUS
<1>1. SshTypeOK
  <2>1. wrote \in [Streams -> Seq(BOOLEAN)]
    BY EmptySeq DEF Init, SshInit
  <2> QED
    BY <2>1 DEF Init, SshInit, SshTypeOK
<1>2. Copied /\ Ended
  BY DEF Init, SshInit, Copied, Ended
<1>3. Staged /\ Placed
  BY DEF Init, SshInit, Staged, Placed
<1> QED
  BY <1>1, <1>2, <1>3 DEF OutcomeInv

-----------------------------------------------------------------------------
(* Steps of run()                                                          *)

(* While ssh is left alone only what Placed says can change.               *)
LEMMA SshAlone ==
  ASSUME OutcomeInv, UNCHANGED ssh_vars
  PROVE  (SshTypeOK /\ Copied /\ Ended /\ Staged)'
  BY DEF OutcomeInv, ssh_vars, SshTypeOK, Copied, Ended, Staged

(* Before the build is started.                                            *)
LEMMA BeforeBuild ==
  ASSUME OutcomeInv,
         Parse \/ RunLocal \/ LoadConfig \/ ChooseTransport \/ Mkdir \/ Rsync \/ CommandFails
  PROVE  OutcomeInv'
<1>1. /\ pc \in {"parse", "local", "load", "configured", "mkdir", "rsync", "run"}
      /\ UNCHANGED ssh_vars
      /\ pc' # "done" => UNCHANGED exit
  BY DEF Parse, RunLocal, LoadConfig, ChooseTransport, Mkdir, Rsync, CommandFails, Finish
<1>2. stage = "off" /\ exit = 0
  BY <1>1 DEF OutcomeInv, Placed
<1>3. Placed'
  BY <1>1, <1>2 DEF Placed, ssh_vars
<1> QED
  BY <1>1, <1>3, SshAlone DEF OutcomeInv

LEMMA BuildStarts ==
  ASSUME OutcomeInv, RunOverSsh \/ RunOverWt
  PROVE  OutcomeInv'
<1>1. stage = "off" /\ exit = 0 /\ exit' = 0
  BY DEF OutcomeInv, Placed, RunOverSsh, RunOverWt
<1>2. CASE RunOverSsh
  <2>1. /\ stage' = "wait" /\ pc' = "ssh" /\ lines' \in [Streams -> 0..input.lines]
        /\ UNCHANGED <<status, wrote, shown, reader, held>>
    BY <1>2 DEF RunOverSsh, Spawn
  <2>2. SshTypeOK'
    BY <2>1 DEF OutcomeInv, SshTypeOK
  <2>3. Copied' /\ Ended' /\ Staged' /\ Placed'
    BY <1>1, <2>1 DEF OutcomeInv, Copied, Ended, Staged, Placed
  <2> QED
    BY <2>2, <2>3 DEF OutcomeInv
<1>3. CASE RunOverWt
  <2>1. Placed'
    BY <1>1, <1>3 DEF Placed, RunOverWt, ssh_vars
  <2> QED
    BY <1>3, <2>1, SshAlone DEF OutcomeInv, RunOverWt
<1> QED
  BY <1>2, <1>3

LEMMA BuildReturns ==
  ASSUME OutcomeInv, SshReturns \/ WtReturns \/ Pull
  PROVE  OutcomeInv'
<1>1. UNCHANGED ssh_vars
  BY DEF SshReturns, WtReturns, Pull
<1>2. Placed'
  <2>1. CASE SshReturns
    BY <1>1, <2>1 DEF OutcomeInv, Placed, SshReturns, Outcome, Finish, ssh_vars
  <2>2. CASE WtReturns
    BY <1>1, <2>2 DEF OutcomeInv, Placed, WtReturns, Outcome, Finish, ssh_vars
  <2>3. CASE Pull
    BY <1>1, <2>3 DEF OutcomeInv, Placed, Pull, Finish, ssh_vars
  <2> QED
    BY <2>1, <2>2, <2>3
<1> QED
  BY <1>1, <1>2, SshAlone DEF OutcomeInv

-----------------------------------------------------------------------------
(* Steps of ssh and of the two tasks                                       *)

LEMMA WriteKeeps ==
  ASSUME OutcomeInv, NEW t \in Streams, NEW b \in BOOLEAN, SshWrites(t, b), UNCHANGED front
  PROVE  OutcomeInv'
<1>1. wrote[t] \in Seq(BOOLEAN) /\ \A s \in Streams : wrote[s] \in Seq(BOOLEAN) /\ shown[s] \in Nat
  BY DEF OutcomeInv, SshTypeOK
<1>2. /\ wrote' = [wrote EXCEPT ![t] = Append(@, b)] /\ status = <<>>
      /\ UNCHANGED <<stage, status, lines, shown, reader, held>>
  BY DEF SshWrites
<1>3. \A s \in Streams :
        /\ wrote'[s] \in Seq(BOOLEAN) /\ Len(wrote[s]) <= Len(wrote'[s])
        /\ \A m \in 1..Len(wrote[s]) : wrote'[s][m] = wrote[s][m]
  <2> SUFFICES ASSUME NEW s \in Streams
               PROVE  /\ wrote'[s] \in Seq(BOOLEAN) /\ Len(wrote[s]) <= Len(wrote'[s])
                      /\ \A m \in 1..Len(wrote[s]) : wrote'[s][m] = wrote[s][m]
    OBVIOUS
  <2>1. wrote'[s] = IF s = t THEN Append(wrote[s], b) ELSE wrote[s]
    BY <1>2 DEF OutcomeInv, SshTypeOK
  <2>2. CASE s = t
    <3> DEFINE w == wrote[s]
    <3>1. w \in Seq(BOOLEAN) /\ wrote'[s] = Append(w, b)
      BY <1>1, <2>1, <2>2
    <3> HIDE DEF w
    <3>2. /\ Append(w, b) \in Seq(BOOLEAN) /\ Len(Append(w, b)) = Len(w) + 1
          /\ \A m \in 1..Len(w) : Append(w, b)[m] = w[m]
      BY <3>1, AppendProperties
    <3>3. Len(w) <= Len(Append(w, b))
      BY <3>1, <3>2, LenProperties
    <3> QED
      BY <3>1, <3>2, <3>3 DEF w
  <2>3. CASE s # t
    <3>1. wrote'[s] = wrote[s] /\ Len(wrote[s]) \in Nat
      BY <1>1, <2>1, <2>3
    <3> QED
      BY <1>1, <3>1
  <2> QED
    BY <2>2, <2>3
<1>4. SshTypeOK'
  BY <1>1, <1>2, <1>3 DEF OutcomeInv, SshTypeOK
<1>5. Copied'
  BY <1>1, <1>2, <1>3 DEF OutcomeInv, Copied
<1>6. Ended'
  BY <1>1, <1>2, <1>3 DEF OutcomeInv, Ended
<1>7. Staged' /\ Placed'
  BY <1>2 DEF OutcomeInv, Staged, Placed, front
<1> QED
  BY <1>4, <1>5, <1>6, <1>7 DEF OutcomeInv

LEMMA ExitKeeps ==
  ASSUME OutcomeInv, NEW c \in Statuses, SshExits(c), UNCHANGED front
  PROVE  OutcomeInv'
<1>1. /\ stage # "off" /\ status = <<>> /\ status' = <<c>> /\ held' \in BOOLEAN
      /\ UNCHANGED <<stage, lines, wrote, shown, reader>>
  BY DEF SshExits
<1>2. SshTypeOK' /\ Copied'
  BY <1>1 DEF OutcomeInv, SshTypeOK, Copied
<1>3. Ended'
  BY <1>1 DEF OutcomeInv, Ended
<1>4. stage = "wait" /\ pc = "ssh"
  BY <1>1 DEF OutcomeInv, SshTypeOK, Staged, Placed
<1>5. Staged' /\ Placed'
  BY <1>1, <1>4 DEF OutcomeInv, Staged, Placed, front
<1> QED
  BY <1>2, <1>3, <1>5 DEF OutcomeInv

LEMMA CopyKeeps ==
  ASSUME OutcomeInv, NEW t \in Streams, CopyLine(t) \/ CopyEnds(t), UNCHANGED front
  PROVE  OutcomeInv'
<1>1. /\ \A s \in Streams : wrote[s] \in Seq(BOOLEAN) /\ shown[s] \in Nat
      /\ shown \in [Streams -> Nat] /\ reader \in [Streams -> {"reading", "ended"}]
      /\ reader[t] = "reading"
      /\ UNCHANGED <<stage, status, lines, wrote, held>>
  BY DEF OutcomeInv, SshTypeOK, CopyLine, CopyEnds
<1>2. stage # "back"
  BY <1>1 DEF OutcomeInv, Staged
<1>3. CASE CopyLine(t)
  <2>1. /\ shown[t] < Len(wrote[t]) /\ wrote[t][shown[t] + 1]
        /\ shown' = [shown EXCEPT ![t] = @ + 1] /\ UNCHANGED reader
    BY <1>3 DEF CopyLine
  <2>2. SshTypeOK'
    BY <1>1, <2>1 DEF OutcomeInv, SshTypeOK
  <2>3. Copied'
    BY <1>1, <2>1 DEF OutcomeInv, Copied
  <2>4. Ended'
    BY <1>1, <2>1 DEF OutcomeInv, Ended
  <2>5. Staged' /\ Placed'
    BY <1>1, <2>1 DEF OutcomeInv, Staged, Placed, front
  <2> QED
    BY <2>2, <2>3, <2>4, <2>5 DEF OutcomeInv
<1>4. CASE CopyEnds(t)
  <2>1. /\ IF shown[t] < Len(wrote[t]) THEN ~wrote[t][shown[t] + 1] ELSE status # <<>>
        /\ reader' = [reader EXCEPT ![t] = "ended"] /\ UNCHANGED shown
    BY <1>4 DEF CopyEnds
  <2>2. SshTypeOK' /\ Copied'
    BY <1>1, <2>1 DEF OutcomeInv, SshTypeOK, Copied
  <2>3. Ended'
    BY <1>1, <2>1 DEF OutcomeInv, Copied, Ended
  <2>4. Staged' /\ Placed'
    BY <1>1, <1>2, <2>1 DEF OutcomeInv, Staged, Placed, front
  <2> QED
    BY <2>2, <2>3, <2>4 DEF OutcomeInv
<1> QED
  BY <1>3, <1>4

LEMMA StageKeeps ==
  ASSUME OutcomeInv, WaitReturns \/ Join \/ PipesClosed, UNCHANGED front
  PROVE  OutcomeInv'
<1>1. UNCHANGED <<status, lines, wrote, shown, reader>> /\ held' \in BOOLEAN
  BY DEF OutcomeInv, SshTypeOK, WaitReturns, Join, PipesClosed
<1>2. SshTypeOK'
  BY <1>1 DEF OutcomeInv, SshTypeOK, WaitReturns, Join, PipesClosed
<1>3. Copied' /\ Ended'
  BY <1>1 DEF OutcomeInv, Copied, Ended
<1>4. Staged' /\ Placed'
  BY <1>1 DEF OutcomeInv, Staged, Placed, WaitReturns, Join, PipesClosed, front
<1> QED
  BY <1>2, <1>3, <1>4 DEF OutcomeInv

-----------------------------------------------------------------------------

LEMMA OutcomeInvNext == OutcomeInv /\ [Next]_vars => OutcomeInv'
<1> SUFFICES ASSUME OutcomeInv, [Next]_vars PROVE OutcomeInv'
  OBVIOUS
<1>1. CASE Rcargo
  BY <1>1, BeforeBuild, BuildStarts, BuildReturns DEF Rcargo
<1>2. CASE (Transport \/ SshGoesOn \/ SshKilled \/ PipesClosed) /\ UNCHANGED front
  <2>1. CASE Transport
    BY <1>2, <2>1, CopyKeeps, StageKeeps DEF Transport
  <2>2. CASE SshGoesOn \/ SshKilled
    BY <1>2, <2>2, WriteKeeps, ExitKeeps DEF SshGoesOn, SshKilled
  <2>3. CASE PipesClosed
    BY <1>2, <2>3, StageKeeps
  <2> QED
    BY <1>2, <2>1, <2>2, <2>3
<1>3. CASE UNCHANGED vars
  <2>1. Placed'
    BY <1>3 DEF OutcomeInv, Placed, vars, ssh_vars
  <2> QED
    BY <1>3, <2>1, SshAlone DEF OutcomeInv, vars
<1> QED
  BY <1>1, <1>2, <1>3 DEF Next, AtRest

(* An invocation over ssh that has got past its build ends with the exit   *)
(* code of ssh, 255 for none, and has copied every line that can be read   *)
(* of both streams: for any output and whatever pipes hold (ssh.rs:157).   *)
THEOREM OutcomeWhole == Spec => []OutcomeIsWhole
  BY OutcomeInvInit, OutcomeInvNext, OutcomeInvImplies, PTL DEF Spec

-----------------------------------------------------------------------------
(* The configuration in force                                              *)

(* How to find the least and the greatest of a set of numbers.             *)
LEMMA LeastIs ==
  ASSUME NEW S \in SUBSET Nat, NEW x \in S, \A y \in S : x <= y
  PROVE  Min(S) = x
<1>1. Min(S) \in S /\ Min(S) <= x
  BY LeastIn
<1>2. Min(S) \in Nat /\ x \in Nat /\ x <= Min(S)
  BY <1>1
<1> QED
  BY <1>1, <1>2

LEMMA GreatestIs ==
  ASSUME NEW S \in SUBSET Nat, NEW x \in S, \A y \in S : y <= x
  PROVE  Max(S) = x
<1>1. Max(S) \in S /\ \A y \in S : Max(S) >= y
  BY DEF Max
<1>2. Max(S) \in Nat /\ x \in Nat /\ x >= Max(S) /\ Max(S) >= x
  BY <1>1
<1> QED
  BY <1>2

(* The settings that load and apply_overrides make.                        *)
Loaded == apply_overrides(load(input.user, input.project, input.env), cli_overrides(parsed))

LEMMA DefaultDomain == DOMAIN Default = Fields
  BY DEF Default, Fields, Lists

(* The environment sets what it has and nothing else.                      *)
LEMMA EnvLayer ==
  ASSUME Layered(input)
  PROVE  /\ DOMAIN env_layer(input.env) = DOMAIN input.env
         /\ \A f \in DOMAIN input.env : env_layer(input.env)[f] = input.env[f]
  BY DEF Layered, env_layer

(* No flag sets a list.                                                    *)
LEMMA CliDomain ==
  DOMAIN cli_overrides(parsed) \subseteq Fields \ Lists
<1>1. DOMAIN FlagOf = {"host", "remote_root", "pull_artifacts"}
  BY DEF FlagOf
<1>2. DOMAIN cli_overrides(parsed) \subseteq DOMAIN FlagOf
  BY DEF cli_overrides
<1>3. DOMAIN FlagOf \subseteq Fields \ Lists
  BY <1>1 DEF Fields, Lists
<1> QED
  BY <1>2, <1>3

(* Among three layers the last that sets a field has it.                   *)
LEMMA Merged ==
  ASSUME NEW a, NEW b, NEW c, NEW m, m = merge_layers(<<a, b, c>>)
  PROVE  /\ DOMAIN m = DOMAIN a \cup DOMAIN b \cup DOMAIN c
         /\ \A f \in DOMAIN m :
              m[f] = IF f \in DOMAIN c THEN c[f] ELSE IF f \in DOMAIN b THEN b[f] ELSE a[f]
<1> DEFINE layers == <<a, b, c>>
<1>0. m = merge_layers(layers)
  OBVIOUS
<1>1. DOMAIN layers = 1..3 /\ layers[1] = a /\ layers[2] = b /\ layers[3] = c
  OBVIOUS
<1> HIDE DEF layers
<1>2. DOMAIN m = AllSet(layers)
      /\ \A f \in DOMAIN m : m[f] = layers[Max(Setting(layers, f))][f]
  BY <1>0 DEF merge_layers
<1>3. AllSet(layers) = DOMAIN a \cup DOMAIN b \cup DOMAIN c
  BY <1>1 DEF AllSet
<1>4. ASSUME NEW f \in DOMAIN m
      PROVE  m[f] = IF f \in DOMAIN c THEN c[f] ELSE IF f \in DOMAIN b THEN b[f] ELSE a[f]
  <2> DEFINE S == Setting(layers, f)
  <2>1. S \in SUBSET Nat /\ \A n : n \in S <=> n \in 1..3 /\ f \in DOMAIN layers[n]
    BY <1>1 DEF Setting
  <2> HIDE DEF S
  <2>2. CASE f \in DOMAIN c
    <3>1. 3 \in S /\ \A y \in S : y <= 3
      BY <1>1, <2>1, <2>2
    <3>2. Max(S) = 3
      BY <2>1, <3>1, GreatestIs
    <3> QED
      BY <1>1, <1>2, <2>2, <3>2 DEF S
  <2>3. CASE f \notin DOMAIN c /\ f \in DOMAIN b
    <3>1. 2 \in S /\ \A y \in S : y <= 2
      BY <1>1, <2>1, <2>3
    <3>2. Max(S) = 2
      BY <2>1, <3>1, GreatestIs
    <3> QED
      BY <1>1, <1>2, <2>3, <3>2 DEF S
  <2>4. CASE f \notin DOMAIN c /\ f \notin DOMAIN b
    <3>1. f \in DOMAIN a
      BY <1>2, <1>3, <2>4
    <3>2. 1 \in S /\ \A y \in S : y <= 1
      BY <1>1, <2>1, <2>4, <3>1
    <3>3. Max(S) = 1
      BY <2>1, <3>2, GreatestIs
    <3> QED
      BY <1>1, <1>2, <2>4, <3>3 DEF S
  <2> QED
    BY <2>2, <2>3, <2>4
<1> QED
  BY <1>2, <1>3, <1>4 DEF layers

(* The setting of a field, from the highest layer down.                    *)
Highest(f) ==
  IF f \in DOMAIN cli_overrides(parsed) THEN cli_overrides(parsed)[f]
  ELSE IF f \in DOMAIN input.env THEN input.env[f]
  ELSE IF f \in DOMAIN input.project THEN input.project[f] ELSE input.user[f]

SomeLayer(f) ==
  \/ f \in DOMAIN cli_overrides(parsed) \/ f \in DOMAIN input.env
  \/ f \in DOMAIN input.project \/ f \in DOMAIN input.user

Value(f) ==
  IF SomeLayer(f) THEN IF f \in Lists THEN SplitArgs(Highest(f)) ELSE Highest(f)
  ELSE Default[f]

(* What the property calls in force, said layer by layer.                  *)
LEMMA InForceIs == \A f \in Fields : InForce(f) = Value(f)
<1> SUFFICES ASSUME NEW f \in Fields PROVE InForce(f) = Value(f)
  OBVIOUS
<1> DEFINE layers == <<cli_overrides(parsed), input.env, input.project, input.user>>
           H      == {n \in DOMAIN layers : f \in DOMAIN layers[n]}
<1>1. /\ DOMAIN layers = 1..4
      /\ layers[1] = cli_overrides(parsed) /\ layers[2] = input.env
      /\ layers[3] = input.project /\ layers[4] = input.user
  OBVIOUS
<1>2. InForce(f) = IF H = {} THEN Default[f]
                   ELSE IF f \in Lists THEN SplitArgs(layers[Min(H)][f]) ELSE layers[Min(H)][f]
  BY DEF InForce
<1> HIDE DEF layers
<1>3. H \in SUBSET Nat /\ \A n : n \in H <=> n \in 1..4 /\ f \in DOMAIN layers[n]
  BY <1>1
<1>4. H = {} <=> ~SomeLayer(f)
  BY <1>1, <1>3 DEF SomeLayer
<1> HIDE DEF H
<1>5. ASSUME H # {} PROVE layers[Min(H)][f] = Highest(f)
  <2>1. ASSUME NEW x \in 1..4, x \in H, \A y \in 1..4 : y < x => y \notin H
        PROVE  Min(H) = x
    <3>1. \A y \in H : x <= y
      BY <1>3, <2>1
    <3> QED
      BY <1>3, <2>1, <3>1, LeastIs
  <2>2. CASE f \in DOMAIN cli_overrides(parsed)
    BY <1>1, <1>3, <2>1, <2>2 DEF Highest
  <2>3. CASE f \notin DOMAIN layers[1] /\ f \in DOMAIN layers[2]
    <3>1. Min(H) = 2
      BY <1>3, <2>1, <2>3
    <3> QED
      BY <1>1, <2>3, <3>1 DEF Highest
  <2>4. CASE f \notin DOMAIN layers[1] /\ f \notin DOMAIN layers[2] /\ f \in DOMAIN layers[3]
    <3>1. Min(H) = 3
      BY <1>3, <2>1, <2>4
    <3> QED
      BY <1>1, <2>4, <3>1 DEF Highest
  <2>5. CASE /\ f \notin DOMAIN layers[1] /\ f \notin DOMAIN layers[2]
             /\ f \notin DOMAIN layers[3] /\ f \in DOMAIN layers[4]
    <3>1. Min(H) = 4
      BY <1>3, <2>1, <2>5
    <3> QED
      BY <1>1, <2>5, <3>1 DEF Highest
  <2> QED
    BY <1>1, <1>3, <1>4, <1>5, <2>2, <2>3, <2>4, <2>5 DEF SomeLayer
<1> QED
  BY <1>2, <1>4, <1>5 DEF Value

(* load and apply_overrides come to the same value for every field.        *)
LEMMA LoadedIs ==
  ASSUME Layered(input)
  PROVE  DOMAIN Loaded = Fields /\ \A f \in Fields : Loaded[f] = Value(f)
<1> DEFINE cli  == cli_overrides(parsed)
           env  == env_layer(input.env)
           m    == merge_layers(<<input.user, input.project, env>>)
           base == Over(Default, Typed(m))
<1>1. /\ DOMAIN m = DOMAIN input.user \cup DOMAIN input.project \cup DOMAIN env
      /\ \A f \in DOMAIN m :
           m[f] = IF f \in DOMAIN env THEN env[f]
                  ELSE IF f \in DOMAIN input.project THEN input.project[f] ELSE input.user[f]
  <2> HIDE DEF env, m
  <2>1. m = merge_layers(<<input.user, input.project, env>>)
    BY DEF m
  <2> QED
    BY <2>1, Merged
<1>2. DOMAIN env = DOMAIN input.env /\ \A f \in DOMAIN input.env : env[f] = input.env[f]
  BY EnvLayer
<1>3. /\ DOMAIN input.user \subseteq Fields /\ DOMAIN input.project \subseteq Fields
      /\ DOMAIN input.env \subseteq Fields
  BY DEF Layered
<1>4. DOMAIN cli \subseteq Fields
  BY CliDomain
<1> HIDE DEF cli, env, m
<1>5. /\ DOMAIN base = Fields
      /\ \A f \in Fields : base[f] = IF f \in DOMAIN m THEN Typed(m)[f] ELSE Default[f]
  BY <1>1, <1>2, <1>3, DefaultDomain DEF Over, Typed
<1> HIDE DEF base
<1>6. Loaded = Over(base, Typed(cli))
  BY DEF Loaded, apply_overrides, load, apply_defaults, base, m, env, cli
<1>7. /\ DOMAIN Loaded = Fields
      /\ \A f \in Fields : Loaded[f] = IF f \in DOMAIN cli THEN Typed(cli)[f] ELSE base[f]
  BY <1>4, <1>5, <1>6 DEF Over, Typed
<1>8. ASSUME NEW f \in Fields PROVE Loaded[f] = Value(f)
  <2>1. CASE f \in DOMAIN cli
    BY <1>7, <2>1 DEF Typed, Value, SomeLayer, Highest, cli
  <2>2. CASE f \notin DOMAIN cli /\ f \in DOMAIN m
    <3>1. Loaded[f] = IF f \in Lists THEN SplitArgs(m[f]) ELSE m[f]
      BY <1>5, <1>7, <2>2 DEF Typed
    <3>2. m[f] = Highest(f) /\ SomeLayer(f)
      BY <1>1, <1>2, <2>2 DEF Highest, SomeLayer, cli
    <3> QED
      BY <3>1, <3>2 DEF Value
  <2>3. CASE f \notin DOMAIN cli /\ f \notin DOMAIN m
    <3>1. Loaded[f] = Default[f]
      BY <1>5, <1>7, <2>3
    <3>2. ~SomeLayer(f)
      BY <1>1, <1>2, <2>3 DEF SomeLayer, cli
    <3> QED
      BY <3>1, <3>2 DEF Value
  <2> QED
    BY <2>1, <2>2, <2>3
<1> QED
  BY <1>7, <1>8

(* The words of rsync_args are a sequence of texts.                        *)
LEMMA LoadedWords ==
  ASSUME Layered(input)
  PROVE  Loaded["rsync_args"] \in Seq(Seq(STRING))
<1>1. "rsync_args" \in Fields /\ "rsync_args" \in Lists
  BY DEF Fields, Lists
<1>2. Loaded["rsync_args"] = Value("rsync_args")
  BY <1>1, LoadedIs
<1>3. CASE SomeLayer("rsync_args")
  <2>1. "rsync_args" \notin DOMAIN cli_overrides(parsed)
    BY <1>1, CliDomain
  <2>2. Highest("rsync_args") \in Seq(STRING)
    BY <1>3, <2>1 DEF Highest, SomeLayer, Layered
  <2> QED
    BY <1>1, <1>2, <1>3, <2>2, SplitArgsType DEF Value
<1>4. CASE ~SomeLayer("rsync_args")
  <2>1. Default["rsync_args"] = <<>>
    BY DEF Default
  <2> QED
    BY <1>2, <1>4, <2>1 DEF Value
<1> QED
  BY <1>3, <1>4

-----------------------------------------------------------------------------
(* What a sync sends                                                       *)

(* Whether a fixed exclude of the list speaks of component i of p.         *)
FixedOn(p, i) ==
  \E n \in 1..6 : /\ Fits(RSYNC_EXCLUDES[n].glob, p[i])
                  /\ RSYNC_EXCLUDES[n].dir => i < Len(p)

(* The fixed excludes speak of exactly the documented exceptions.          *)
LEMMA FixedIsUnsent ==
  ASSUME NEW p \in Paths
  PROVE  (\E i \in DOMAIN p : FixedOn(p, i)) <=> Unsent(p)
<1>1. Len(p) \in Nat /\ DOMAIN p = 1..Len(p) /\ \A i \in DOMAIN p : p[i] \in Names
  BY LenProperties DEF Paths
<1>2. ASSUME NEW i \in DOMAIN p
      PROVE  FixedOn(p, i) <=>
               \/ i < Len(p) /\ p[i] \in {Plain("target"), Plain("node_modules")}
               \/ p[i] \in {Plain(".DS_Store"), Plain(".env"), Name(".env", "local")}
               \/ p[i].ext = "swp"
  <2>1. PICK x \in Names : x = p[i]
    BY <1>1
  <2>2. /\ Fits(Plain("target"), x) <=> x = Plain("target")
        /\ Fits(Plain("node_modules"), x) <=> x = Plain("node_modules")
        /\ Fits(Plain(".DS_Store"), x) <=> x = Plain(".DS_Store")
        /\ Fits(Plain(".env"), x) <=> x = Plain(".env")
        /\ Fits(Name(".env", "local"), x) <=> x = Name(".env", "local")
        /\ Fits(Name("*", "swp"), x) <=> x.ext = "swp"
    BY DEF Fits, Plain, Name, Names
  <2>3. FixedOn(p, i) <=>
          \/ i < Len(p) /\ (Fits(Plain("target"), x) \/ Fits(Plain("node_modules"), x))
          \/ Fits(Plain(".DS_Store"), x) \/ Fits(Name("*", "swp"), x)
          \/ Fits(Plain(".env"), x) \/ Fits(Name(".env", "local"), x)
    <3>1. /\ RSYNC_EXCLUDES[1] = DirRule("exclude", Plain("target"))
          /\ RSYNC_EXCLUDES[2] = DirRule("exclude", Plain("node_modules"))
          /\ RSYNC_EXCLUDES[3] = Rule("exclude", Plain(".DS_Store"))
          /\ RSYNC_EXCLUDES[4] = Rule("exclude", Name("*", "swp"))
          /\ RSYNC_EXCLUDES[5] = Rule("exclude", Plain(".env"))
          /\ RSYNC_EXCLUDES[6] = Rule("exclude", Name(".env", "local"))
      BY DEF RSYNC_EXCLUDES
    <3>2. /\ \A g : DirRule("exclude", g).glob = g /\ DirRule("exclude", g).dir
          /\ \A g : Rule("exclude", g).glob = g /\ ~Rule("exclude", g).dir
      BY DEF DirRule, Rule
    <3>3. \A n : n \in 1..6 <=> n \in {1, 2, 3, 4, 5, 6}
      OBVIOUS
    <3> QED
      BY <2>1, <3>1, <3>2, <3>3 DEF FixedOn
  <2> QED
    BY <2>1, <2>2, <2>3
<1>3. \A i : i \in 1..(Len(p) - 1) <=> i \in DOMAIN p /\ i < Len(p)
  BY <1>1
<1> QED
  BY <1>2, <1>3 DEF Unsent

(* What the user's rules say where they are asked.                         *)
UserExcludes(p, i) ==
  \E n \in UserOn(p, i) : /\ UserRules[cfg.rsync_args[n]].kind = "exclude"
                          /\ \A m \in UserOn(p, i) : n <= m

(* The fixed excludes come first, then the user's rules.                   *)
LEMMA ExcludedIs ==
  ASSUME cfg.rsync_args \in Seq(Seq(STRING)), NEW p \in Paths, NEW i \in DOMAIN p
  PROVE  Verdict(SyncRules(cfg.rsync_args), {"include", "exclude"}, p, i) = "exclude"
           <=> FixedOn(p, i) \/ UserExcludes(p, i)
<1> DEFINE args  == cfg.rsync_args
           rules == SyncRules(args)
           K     == {"include", "exclude"}
           F     == Fitting(rules, K, p, i)
<1>1. /\ DOMAIN rules = 1..(7 + Len(args)) /\ Len(args) \in Nat /\ DOMAIN args = 1..Len(args)
      /\ rules[1] = DirRule("protect", Plain("target"))
      /\ \A n \in 1..6 : rules[n + 1] = RSYNC_EXCLUDES[n]
      /\ \A n \in DOMAIN args : rules[n + 7] = Extra(args)[n]
  BY SyncRulesAre, LenProperties
<1>2. \A n \in 1..6 : RSYNC_EXCLUDES[n].kind = "exclude"
  BY DEF RSYNC_EXCLUDES, Rule, DirRule
<1>3. \A n \in DOMAIN args :
        Extra(args)[n] = IF args[n] \in DOMAIN UserRules THEN UserRules[args[n]] ELSE NoRule
  BY DEF Extra
<1> HIDE DEF rules, args
<1>4. DOMAIN rules \subseteq Nat
  BY <1>1
<1>5. 1 \notin F
  BY <1>1 DEF Fitting, DirRule
<1>6. \A n \in 1..6 : n + 1 \in F <=>
        Fits(RSYNC_EXCLUDES[n].glob, p[i]) /\ (RSYNC_EXCLUDES[n].dir => i < Len(p))
  <2> SUFFICES ASSUME NEW n \in 1..6
               PROVE  n + 1 \in F <=>
                        Fits(RSYNC_EXCLUDES[n].glob, p[i]) /\ (RSYNC_EXCLUDES[n].dir => i < Len(p))
    OBVIOUS
  <2>1. n + 1 \in DOMAIN rules /\ rules[n + 1] = RSYNC_EXCLUDES[n]
    BY <1>1
  <2> QED
    BY <1>2, <2>1 DEF Fitting
<1>7. \A n \in DOMAIN args : n + 7 \in F <=> n \in UserOn(p, i)
  <2> SUFFICES ASSUME NEW n \in DOMAIN args
               PROVE  n + 7 \in F <=> n \in UserOn(p, i)
    OBVIOUS
  <2>1. n + 7 \in DOMAIN rules /\ rules[n + 7] = Extra(args)[n]
    BY <1>1
  <2>2. CASE args[n] \in DOMAIN UserRules
    BY <1>3, <2>1, <2>2 DEF Fitting, UserOn, args
  <2>3. CASE args[n] \notin DOMAIN UserRules
    <3>1. rules[n + 7].kind = "none"
      BY <1>3, <2>1, <2>3 DEF NoRule, Rule
    <3> QED
      BY <2>3, <3>1 DEF Fitting, UserOn, args
  <2> QED
    BY <2>2, <2>3
<1>8. \A r \in F : \/ \E n \in 1..6 : r = n + 1
                   \/ \E n \in DOMAIN args : r = n + 7
  <2> SUFFICES ASSUME NEW r \in F
               PROVE  \/ \E n \in 1..6 : r = n + 1
                      \/ \E n \in DOMAIN args : r = n + 7
    OBVIOUS
  <2>1. r \in 2..(7 + Len(args))
    BY <1>1, <1>5 DEF Fitting
  <2>2. CASE r <= 7
    <3>1. r - 1 \in 1..6 /\ r = (r - 1) + 1
      BY <2>1, <2>2
    <3> QED
      BY <3>1
  <2>3. CASE r > 7
    <3>1. r - 7 \in 1..Len(args) /\ r = (r - 7) + 7
      BY <1>1, <2>1, <2>3
    <3> QED
      BY <1>1, <3>1
  <2> QED
    BY <1>1, <2>1, <2>2, <2>3
<1>9. F \subseteq Nat /\ UserOn(p, i) \subseteq DOMAIN args
  BY <1>4 DEF Fitting, UserOn, args
<1>10. CASE FixedOn(p, i)
  <2>1. PICK n \in 1..6 : n + 1 \in F
    BY <1>6, <1>10 DEF FixedOn
  <2>2. PICK r \in F : (\A q \in F : r <= q) /\ Verdict(rules, K, p, i) = rules[r].kind
    BY <1>4, <2>1, SomeDecides
  <2>3. \E m \in 1..6 : r = m + 1
    BY <1>1, <1>8, <1>9, <2>1, <2>2
  <2>4. rules[r].kind = "exclude"
    BY <1>1, <1>2, <2>3
  <2> QED
    BY <1>10, <2>2, <2>4 DEF rules, args
<1>11. CASE ~FixedOn(p, i)
  <2>1. \A n \in 1..6 : n + 1 \notin F
    BY <1>6, <1>11 DEF FixedOn
  <2>2. \A r \in F : \E n \in UserOn(p, i) : r = n + 7
    BY <1>7, <1>8, <2>1
  <2>3. CASE UserOn(p, i) = {}
    <3>1. Verdict(rules, K, p, i) = "none"
      BY <2>2, <2>3 DEF Verdict
    <3> QED
      BY <1>11, <2>3, <3>1 DEF UserExcludes, rules, args
  <2>4. CASE UserOn(p, i) # {}
    <3>1. F # {}
      BY <1>7, <1>9, <2>4
    <3>2. PICK r \in F : (\A q \in F : r <= q) /\ Verdict(rules, K, p, i) = rules[r].kind
      BY <1>4, <3>1, SomeDecides
    <3>3. PICK n \in UserOn(p, i) : r = n + 7
      BY <2>2
    <3>4. rules[r].kind = UserRules[args[n]].kind
      BY <1>1, <1>3, <1>9, <3>3 DEF UserOn, args
    <3>5. ASSUME NEW m \in UserOn(p, i) PROVE n <= m
      <4>1. m + 7 \in F /\ n \in Nat /\ m \in Nat
        BY <1>1, <1>7, <1>9
      <4>2. n + 7 <= m + 7
        BY <3>2, <3>3, <4>1
      <4> QED
        BY <4>1, <4>2
    <3>6. ASSUME NEW m \in UserOn(p, i), \A k \in UserOn(p, i) : m <= k
          PROVE  m = n
      <4>1. n \in Nat /\ m \in Nat /\ m <= n /\ n <= m
        BY <1>1, <1>9, <3>5, <3>6
      <4> QED
        BY <4>1
    <3>7. UserExcludes(p, i) <=> UserRules[args[n]].kind = "exclude"
      BY <3>5, <3>6 DEF UserExcludes, args
    <3> QED
      BY <1>11, <3>2, <3>4, <3>7 DEF rules, args
  <2> QED
    BY <2>3, <2>4
<1> QED
  BY <1>10, <1>11

(* A transfer sends what is no exception and not trimmed.                  *)
LEMMA SentIs ==
  ASSUME cfg.rsync_args \in Seq(Seq(STRING)), NEW p \in Paths
  PROVE  Sent(SyncRules(cfg.rsync_args), p) <=> ~Unsent(p) /\ ~Trimmed(p)
<1>1. Sent(SyncRules(cfg.rsync_args), p) <=>
        \A i \in DOMAIN p : ~FixedOn(p, i) /\ ~UserExcludes(p, i)
  BY ExcludedIs DEF Sent
<1>2. Trimmed(p) <=> \E i \in DOMAIN p : UserExcludes(p, i)
  BY DEF Trimmed, UserExcludes
<1> QED
  BY <1>1, <1>2, FixedIsUnsent

-----------------------------------------------------------------------------
(* Steps, and the one that changes each part of the state                  *)

LEMMA Effects ==
  ASSUME [Next]_vars
  PROVE  /\ UNCHANGED input
         /\ Parse \/ UNCHANGED parsed
         /\ LoadConfig \/ UNCHANGED cfg
         /\ Mkdir \/ UNCHANGED made
         /\ Rsync \/ UNCHANGED <<synced, tree>>
         /\ RunOverSsh \/ RunOverWt \/ UNCHANGED built
         /\ RunLocal \/ UNCHANGED <<argv, called>>
         /\ Pull \/ UNCHANGED pulled
<1>1. CASE Rcargo
  BY <1>1 DEF Rcargo, Parse, RunLocal, LoadConfig, ChooseTransport, Mkdir, Rsync, CommandFails,
       RunOverSsh, RunOverWt, SshReturns, WtReturns, Pull, places, calls
<1>2. CASE UNCHANGED front
  BY <1>2 DEF front, places, calls
<1>3. CASE UNCHANGED vars
  BY <1>3 DEF vars, places, calls
<1> QED
  BY <1>1, <1>2, <1>3 DEF Next, AtRest

(* Where a step of run() comes from and goes to.                           *)
LEMMA Paces ==
  ASSUME [Next]_vars
  PROVE  \/ UNCHANGED <<pc, exit>>
         \/ Parse /\ pc = "parse" /\ pc' \in {"done", "local", "load"}
         \/ RunLocal /\ pc = "local" /\ pc' \in {"done", "parse"}
         \/ LoadConfig /\ pc = "load" /\ pc' \in {"done", "configured"}
         \/ ChooseTransport /\ pc = "configured" /\ pc' \in {"done", "mkdir"}
         \/ Mkdir /\ pc = "mkdir" /\ pc' = "rsync"
         \/ Rsync /\ pc = "rsync" /\ pc' = "run"
         \/ CommandFails /\ pc \in {"mkdir", "rsync", "run"} /\ pc' = "done"
         \/ (RunOverSsh \/ RunOverWt) /\ pc = "run" /\ pc' \in {"ssh", "stream"}
         \/ SshReturns /\ pc = "ssh" /\ pc' \in {"done", "pull"}
         \/ WtReturns /\ pc = "stream" /\ pc' \in {"done", "pull"}
         \/ Pull /\ pc = "pull" /\ pc' = "done"
<1>1. CASE Rcargo
  <2>1. CASE Parse \/ RunLocal \/ LoadConfig \/ ChooseTransport
    BY <2>1 DEF Parse, RunLocal, LoadConfig, ChooseTransport, Finish
  <2>2. CASE Mkdir \/ Rsync \/ CommandFails \/ RunOverSsh \/ RunOverWt
    BY <2>2 DEF Mkdir, Rsync, CommandFails, RunOverSsh, RunOverWt, Finish
  <2>3. CASE SshReturns \/ WtReturns \/ Pull
    BY <2>3 DEF SshReturns, WtReturns, Pull, Outcome, Finish
  <2> QED
    BY <1>1, <2>1, <2>2, <2>3 DEF Rcargo
<1>2. CASE UNCHANGED front
  BY <1>2 DEF front
<1>3. CASE UNCHANGED vars
  BY <1>3 DEF vars
<1> QED
  BY <1>1, <1>2, <1>3 DEF Next, AtRest

(* A configuration is taken on only as load and apply_overrides made it.   *)
LEMMA LoadStep ==
  ASSUME LoadConfig, Layered(input), UNCHANGED input
  PROVE  \/ pc' = "done" /\ UNCHANGED cfg
         \/ /\ pc' = "configured" /\ UNCHANGED parsed
            /\ cfg' = Loaded /\ input.broken = {} /\ ~Blank(Loaded.host)
            /\ DOMAIN cfg' = Fields /\ cfg'.rsync_args \in Seq(Seq(STRING))
            /\ \A f \in Fields : cfg'[f] = InForce(f)
  BY LoadedIs, LoadedWords, InForceIs DEF LoadConfig, Finish, Loaded, sanity_check

-----------------------------------------------------------------------------
(* The parts of the invariant, one by one                                  *)

LEMMA CodesFit ==
  \A c \in Statuses : CodeOf(c) \in 0..255
  BY SshAssumption DEF SshAssumption, CodeOf

(* The exit code fits a u8 after every step.                               *)
LEMMA ExitFits ==
  ASSUME OutcomeInv, exit \in 0..255, [Next]_vars
  PROVE  exit' \in 0..255
<1>1. 0 \in 0..255 /\ 1 \in 0..255
  OBVIOUS
<1>2. CASE SshReturns
  <2>1. status # <<>> /\ status \in {<<>>} \cup {<<c>> : c \in Statuses}
    BY <1>2 DEF OutcomeInv, Staged, SshTypeOK, SshReturns
  <2>2. CodeOf(status[1]) \in 0..255
    BY <2>1, CodesFit
  <2> QED
    BY <1>2, <2>2 DEF SshReturns, Outcome, Finish
<1>3. CASE WtReturns
  BY <1>1, <1>3, CodesFit DEF WtReturns, Outcome, Finish
<1>4. CASE RunLocal
  BY <1>1, <1>4, CodesFit DEF RunLocal, Finish
<1>5. CASE Parse \/ LoadConfig \/ ChooseTransport \/ CommandFails \/ Pull
  BY <1>1, <1>5 DEF Parse, LoadConfig, ChooseTransport, CommandFails, Pull, Finish
<1>6. CASE Mkdir \/ Rsync \/ RunOverSsh \/ RunOverWt
  BY <1>6 DEF Mkdir, Rsync, RunOverSsh, RunOverWt
<1> QED
  BY <1>2, <1>3, <1>4, <1>5, <1>6, Paces

LEMMA FrontTypeStep ==
  ASSUME OutcomeInv, OutcomeInv', FrontInv, [Next]_vars
  PROVE  FrontTypeOK'
<1>1. exit' \in 0..255
  BY ExitFits DEF FrontInv, FrontTypeOK
<1>2. pc' \in Places
  <2>1. CASE UNCHANGED pc
    BY <2>1 DEF FrontInv, FrontTypeOK
  <2>2. CASE ~UNCHANGED pc
    BY <2>2, Paces DEF Places
  <2> QED
    BY <2>1, <2>2
<1>3. DOMAIN cfg' = Fields
  BY Effects, LoadStep DEF FrontInv, FrontTypeOK
<1>4. DOMAIN tree' \subseteq LocalTree \cup RemoteTree
  <2>1. CASE Rsync
    <3>1. DOMAIN tree' \subseteq LocalTree \cup DOMAIN tree
      BY <2>1 DEF Rsync, Mirror
    <3> QED
      BY <3>1 DEF FrontInv, FrontTypeOK
  <2>2. CASE UNCHANGED tree
    BY <2>2 DEF FrontInv, FrontTypeOK
  <2> QED
    BY <2>1, <2>2, Effects
<1>5. Len(built') <= 1
  <2>1. \A x : Len(<<x>>) <= 1
    OBVIOUS
  <2>2. CASE RunOverSsh \/ RunOverWt
    BY <2>1, <2>2 DEF RunOverSsh, RunOverWt
  <2>3. CASE UNCHANGED built
    BY <2>3 DEF FrontInv, FrontTypeOK
  <2> QED
    BY <2>2, <2>3, Effects
<1>6. Len(called') <= 1
  <2>1. \A x : Len(<<x>>) <= 1
    OBVIOUS
  <2>2. CASE RunLocal
    BY <2>1, <2>2 DEF RunLocal, FrontInv, FrontTypeOK
  <2>3. CASE UNCHANGED called
    BY <2>3 DEF FrontInv, FrontTypeOK
  <2> QED
    BY <2>2, <2>3, Effects
<1>7. pulled' \subseteq ProfileTree
  <2>1. CASE Pull
    BY <2>1 DEF Pull
  <2>2. CASE UNCHANGED pulled
    BY <2>2 DEF FrontInv, FrontTypeOK
  <2> QED
    BY <2>1, <2>2, Effects
<1>8. SshTypeOK'
  BY DEF OutcomeInv
<1> QED
  BY <1>1, <1>2, <1>3, <1>4, <1>5, <1>6, <1>7, <1>8 DEF FrontTypeOK

(* Files below a remote target/ through the one transfer.                  *)
LEMMA TreeStep ==
  ASSUME FrontInv, [Next]_vars
  PROVE  TreeInv'
<1>1. pc' \in Unsynced => tree' = [p \in RemoteTree |-> "remote"]
  <2>1. pc' \in Unsynced => pc \in Unsynced /\ ~Rsync
    <3>1. Rsync => pc' = "run"
      BY DEF Rsync
    <3>2. pc' \in Unsynced => pc \in Unsynced
      BY Paces DEF Unsynced
    <3> QED
      BY <3>1, <3>2 DEF Unsynced
  <2> QED
    BY <2>1, Effects DEF FrontInv, TreeInv
<1>2. TargetSurvives'
  <2>1. CASE UNCHANGED tree
    BY <2>1 DEF FrontInv, TreeInv, TargetSurvives
  <2>2. CASE Rsync
    <3> SUFFICES ASSUME NEW p \in RemoteTree, NEW i \in 1..(Len(p) - 1), p[i] = Plain("target")
                 PROVE  p \in DOMAIN tree' /\ tree'[p] = "remote"
      BY DEF TargetSurvives
    <3>1. p \in Paths
      BY FrontAssumption DEF FrontAssumption, Paths
    <3>2. p \in DOMAIN tree /\ tree[p] = "remote"
      BY DEF FrontInv, TreeInv, TargetSurvives
    <3>3. cfg.rsync_args \in Seq(Seq(STRING))
      BY DEF FrontInv, ConfigInv
    <3>4. /\ ~Sent(SyncRules(cfg.rsync_args), p)
          /\ \A d \in BOOLEAN : Spared(SyncRules(cfg.rsync_args), d, p)
      BY <3>1, <3>3, TargetApart
    <3>5. Contains(cfg.rsync_args, <<"--delete-excluded">>) \in BOOLEAN
      BY DEF Contains
    <3>6. tree' = Mirror(tree, LocalTree, cfg.rsync_args)
      BY <2>2 DEF Rsync
    <3> QED
      BY <3>2, <3>4, <3>5, <3>6 DEF Mirror
  <2> QED
    BY <2>1, <2>2, Effects
<1> QED
  BY <1>1, <1>2 DEF TreeInv

LEMMA ConfigStep ==
  ASSUME FrontInv, [Next]_vars
  PROVE  ConfigInv'
<1>1. UNCHANGED input /\ Layered(input)
  BY Effects DEF FrontInv
<1>2. CASE LoadConfig
  <2>1. CASE pc' = "done" /\ UNCHANGED cfg
    BY <2>1 DEF FrontInv, ConfigInv
  <2>2. CASE pc' # "done"
    <3>1. /\ UNCHANGED parsed /\ cfg' = Loaded /\ input.broken = {} /\ ~Blank(Loaded.host)
          /\ cfg'.rsync_args \in Seq(Seq(STRING))
          /\ \A f \in Fields : cfg'[f] = InForce(f)
      BY <1>1, <1>2, <2>2, LoadStep
    <3>2. UNCHANGED <<input, parsed>>
      BY <1>1, <3>1
    <3>3. \A f \in Fields : InForce(f)' = InForce(f)
      BY <3>2 DEF InForce
    <3>4. \A f \in Fields : cfg'[f] = InForce(f)'
      BY <3>1, <3>3
    <3> QED
      BY <1>1, <3>1, <3>4 DEF ConfigInv
  <2> QED
    BY <1>1, <1>2, <2>1, <2>2, LoadStep
<1>3. CASE ~LoadConfig
  <2>1. UNCHANGED cfg
    BY <1>3, Effects
  <2>2. pc' \in {"configured", "mkdir"} => pc \in {"configured", "mkdir"} /\ ~Parse
    <3>1. Parse => pc' \in {"done", "local", "load"}
      BY DEF Parse, Finish
    <3> QED
      BY <1>3, <3>1, Paces
  <2>3. ASSUME pc' \in {"configured", "mkdir"}
        PROVE  /\ input'.broken = {} /\ ~Blank(cfg'.host)
               /\ \A f \in Fields : cfg'[f] = InForce(f)'
    <3>1. UNCHANGED parsed
      BY <2>2, <2>3, Effects
    <3>2. \A f \in Fields : InForce(f)' = InForce(f)
      BY <1>1, <3>1 DEF InForce
    <3> QED
      BY <1>1, <2>1, <2>2, <2>3, <3>2 DEF FrontInv, ConfigInv
  <2> QED
    BY <2>1, <2>3 DEF FrontInv, ConfigInv
<1> QED
  BY <1>2, <1>3

LEMMA HatchStep ==
  ASSUME FrontInv, [Next]_vars
  PROVE  HatchInv'
<1>1. UNCHANGED input
  BY Effects
<1> SUFFICES ASSUME input.cargo # "rcargo", AsksLocal
             PROVE  /\ pc' \in {"parse", "local", "done"}
                    /\ pc' = "parse" => argv' = input.argv
                    /\ pc' = "done" => called' # <<>> \/ input.cargo = "none"
  BY <1>1 DEF HatchInv, AsksLocal
<1>2. /\ pc \in {"parse", "local", "done"}
      /\ pc = "parse" => argv = input.argv
      /\ pc = "done" => called # <<>> \/ input.cargo = "none"
  BY DEF FrontInv, HatchInv
<1>3. CASE Parse
  <2>1. /\ argv = input.argv /\ parsed' = parse_args(argv)
        /\ \/ parsed'.error /\ Finish(1)
           \/ ~parsed'.error /\ Prints(parsed') /\ Finish(0)
           \/ /\ ~parsed'.error /\ ~Prints(parsed')
              /\ pc' = IF local(parsed') THEN "local" ELSE "load"
    BY <1>2, <1>3 DEF Parse
  <2>2. local(parsed') /\ ~parsed'.error /\ ~Prints(parsed')
    BY <2>1 DEF AsksLocal
  <2>3. pc' = "local"
    BY <2>1, <2>2
  <2> QED
    BY <2>3
<1>4. CASE RunLocal
  <2>1. \/ input.cargo = "none" /\ pc' = "done"
        \/ pc' = "done" /\ \E args : called' = <<args>>
    BY <1>4 DEF RunLocal, Finish
  <2>2. \A args : <<args>> # <<>>
    OBVIOUS
  <2> QED
    BY <2>1, <2>2
<1>5. CASE ~Parse /\ ~RunLocal
  BY <1>2, <1>5, Effects, Paces
<1> QED
  BY <1>3, <1>4, <1>5

LEMMA PulledStep ==
  ASSUME FrontInv, [Next]_vars
  PROVE  PullFetchesProducts'
<1>1. CASE UNCHANGED pulled
  BY <1>1 DEF FrontInv, PullFetchesProducts
<1>2. CASE Pull
  <2>1. pulled' \in {{}, {p \in ProfileTree : Sent(PullRules, p)}}
    BY <1>2 DEF Pull
  <2>2. ASSUME NEW p \in ProfileTree, Len(p) = 1 PROVE Sent(PullRules, p)
    BY <2>2, FrontAssumption, TopFetched DEF FrontAssumption, Paths
  <2> QED
    BY <2>1, <2>2 DEF PullFetchesProducts
<1> QED
  BY <1>1, <1>2, Effects

-----------------------------------------------------------------------------

LEMMA FrontInit == Init => FrontInv
<1> SUFFICES ASSUME Init PROVE FrontInv
  OBVIOUS
<1>1. Layered(input)
  BY FrontAssumption DEF FrontAssumption, Init
<1>2. FrontTypeOK
  <2>1. SshTypeOK
    BY OutcomeInvInit DEF OutcomeInv
  <2>2. DOMAIN cfg = Fields /\ DOMAIN tree = RemoteTree
    BY DefaultDomain DEF Init
  <2>3. Len(built) = 0 /\ Len(called) = 0 /\ exit \in 0..255 /\ pulled = {}
    BY DEF Init
  <2> QED
    BY <2>1, <2>2, <2>3 DEF Init, FrontTypeOK, Places
<1>3. TreeInv
  BY DEF Init, TreeInv, TargetSurvives
<1>4. ConfigInv
  <2>1. Default.rsync_args = <<>>
    BY DEF Default
  <2> QED
    BY <2>1 DEF Init, ConfigInv
<1>5. HatchInv /\ PullFetchesProducts
  BY DEF Init, HatchInv, PullFetchesProducts
<1> QED
  BY <1>1, <1>2, <1>3, <1>4, <1>5 DEF FrontInv

LEMMA FrontNext ==
  ASSUME OutcomeInv, OutcomeInv', FrontInv, [Next]_vars
  PROVE  FrontInv'
<1>1. Layered(input)'
  BY Effects DEF FrontInv, Layered
<1> QED
  BY <1>1, FrontTypeStep, TreeStep, ConfigStep, HatchStep, PulledStep DEF FrontInv

(* FrontInv is inductive, given OutcomeInv: for every input, every tree,   *)
(* every list of words in rsync_args and every set of rules these may be.  *)
THEOREM FrontInductive == Spec => []FrontInv
<1>1. Spec => []OutcomeInv
  BY OutcomeInvInit, OutcomeInvNext, PTL DEF Spec
<1>2. FrontInv /\ OutcomeInv /\ OutcomeInv' /\ [Next]_vars => FrontInv'
  BY FrontNext
<1> QED
  BY <1>1, <1>2, FrontInit, PTL DEF Spec

(* Every exit code is a u8, every setting has a value, and there is at     *)
(* most one build and one call of the local cargo.                         *)
THEOREM FrontTyped == Spec => []FrontTypeOK
<1>1. FrontInv => FrontTypeOK
  BY DEF FrontInv
<1> QED
  BY <1>1, FrontInductive, PTL

(* No sync, whatever rsync_args say, deletes or overwrites a file below a  *)
(* remote target/: rule protect and the first exclude stand before the     *)
(* user's words (ssh.rs:86-96).                                            *)
THEOREM TargetKept == Spec => []TargetSurvives
<1>1. FrontInv => TargetSurvives
  BY DEF FrontInv, TreeInv
<1> QED
  BY <1>1, FrontInductive, PTL

(* A pull that works brings every file that lies directly in the directory *)
(* of a profile: what its rules exclude are directories (ssh.rs:196-205).  *)
THEOREM ProductsPulled == Spec => []PullFetchesProducts
<1>1. FrontInv => PullFetchesProducts
  BY DEF FrontInv
<1> QED
  BY <1>1, FrontInductive, PTL

(* A sync sends a file of the project exactly if none of its names is a    *)
(* documented exception and the first rule of the user that fits one of    *)
(* its names is no exclude.                                                *)
THEOREM UploadWhole == Spec => UploadIsWhole
<1> DEFINE Whole == synced' # synced =>
       \A p \in LocalTree :
         (p \in DOMAIN tree' /\ tree'[p] = "local") <=> ~Unsent(p) /\ ~Trimmed(p)
<1>1. ASSUME FrontInv, [Next]_vars PROVE Whole
  <2> SUFFICES ASSUME Rsync, NEW p \in LocalTree
               PROVE  (p \in DOMAIN tree' /\ tree'[p] = "local") <=> ~Unsent(p) /\ ~Trimmed(p)
    BY <1>1, Effects
  <2>1. p \in Paths /\ cfg.rsync_args \in Seq(Seq(STRING))
    BY <1>1, FrontAssumption DEF FrontAssumption, Paths, FrontInv, ConfigInv
  <2>2. tree' = Mirror(tree, LocalTree, cfg.rsync_args) /\ pc = "rsync"
    BY DEF Rsync
  <2>3. tree = [q \in RemoteTree |-> "remote"]
    BY <1>1, <2>2 DEF FrontInv, TreeInv, Unsynced
  <2>4. (p \in DOMAIN tree' /\ tree'[p] = "local") <=> Sent(SyncRules(cfg.rsync_args), p)
    BY <2>2, <2>3 DEF Mirror
  <2> QED
    BY <2>1, <2>4, SentIs
<1>2. [][Whole]_vars => UploadIsWhole
  BY DEF UploadIsWhole
<1> QED
  BY <1>1, <1>2, FrontInductive, PTL DEF Spec

(* From the first contact with the remote host on, every setting in force  *)
(* is that of the highest layer that has it: for all layers that there are *)
(* (config.rs:62-111).                                                     *)
THEOREM Precedence == Spec => ConfigPrecedence
<1> DEFINE Made == made' # made => /\ input.broken = {} /\ ~Blank(cfg.host)
                                   /\ \A f \in Fields : cfg[f] = InForce(f)
<1>1. ASSUME FrontInv, [Next]_vars PROVE Made
  <2>1. made' # made => pc = "mkdir"
    BY <1>1, Effects DEF Mkdir
  <2> QED
    BY <1>1, <2>1 DEF FrontInv, ConfigInv
<1>2. [][Made]_vars => ConfigPrecedence
  BY DEF ConfigPrecedence
<1> QED
  BY <1>1, <1>2, FrontInductive, PTL DEF Spec

(* --rcargo-local, wherever it stands among rcargo's own flags, ends with  *)
(* the local cargo called, or with none on PATH, and never at the remote   *)
(* host (main.rs:206).                                                 *)
THEOREM Hatch == Spec => EscapeHatch
<1> DEFINE Out == pc' \in {"done", "mkdir"} /\ input.cargo # "rcargo" /\ AsksLocal =>
                    pc' = "done" /\ (called' # <<>> \/ input.cargo = "none")
<1>1. ASSUME FrontInv', [Next]_vars PROVE Out
  <2>1. UNCHANGED input
    BY <1>1, Effects
  <2>2. AsksLocal => AsksLocal'
    BY <2>1 DEF AsksLocal
  <2> QED
    BY <1>1, <2>1, <2>2 DEF FrontInv, HatchInv
<1>2. [][Out]_vars => EscapeHatch
  <2>1. [Out]_vars => [Out]_pc
    BY DEF vars
  <2> QED
    BY <2>1, PTL DEF EscapeHatch
<1> QED
  BY <1>1, <1>2, FrontInductive, PTL DEF Spec
=============================================================================
