------------------------------- MODULE SshRun -------------------------------
(***************************************************************************)
(* run_cargo of the ssh transport, from the spawn of ssh on: two tasks     *)
(* that copy its output line by line, the wait for its end, and the wait   *)
(* for the tasks.  ssh blocks on a full pipe; a process it leaves behind   *)
(* (the master of a shared connection) may keep both pipes open.           *)
(***************************************************************************)
EXTENDS RcargoProto, Sequences

CONSTANTS
  PipeCap,   \* lines that a pipe holds
  Statuses   \* ends of ssh: exit codes, and Killed

ASSUME SshAssumption ==
  /\ PipeCap \in Nat \ {0}
  /\ Statuses \subseteq (0..255) \cup {Killed}

VARIABLES
  stage,   \* of run_cargo: "off", "wait", "join", "back"
  status,  \* "none" while ssh runs, then <<exit code>>
  lines,   \* per stream: how many lines ssh has to write
  wrote,   \* per stream: the lines ssh wrote, TRUE for one that is UTF-8
  shown,   \* per stream: how many of them were copied
  reader,  \* per stream: its task, "reading" or "ended"
  held     \* the pipes are open in another process

ssh_vars == <<stage, status, lines, wrote, shown, reader, held>>

SshInit ==
  /\ stage = "off" /\ status = <<>> /\ lines = [s \in Streams |-> 0] /\ held = FALSE
  /\ wrote = [s \in Streams |-> <<>>] /\ shown = [s \in Streams |-> 0]
  /\ reader = [s \in Streams |-> "reading"]

(* Bound: at most n lines on each stream.                                  *)
Spawn(n) ==
  /\ stage = "off"
  /\ stage' = "wait" /\ lines' \in [Streams -> 0..n]
  /\ UNCHANGED <<status, wrote, shown, reader, held>>

(* ssh and the remote cargo behind it, which ends when it has written what *)
(* it has to, or at any time when it is killed.                            *)
SshWrites(s, utf8) ==
  /\ stage # "off" /\ status = <<>> /\ Len(wrote[s]) < lines[s]
  /\ reader[s] = "reading" => Len(wrote[s]) - shown[s] < PipeCap
  /\ wrote' = [wrote EXCEPT ![s] = Append(@, utf8)]
  /\ UNCHANGED <<stage, status, lines, shown, reader, held>>

SshExits(c) ==
  /\ stage # "off" /\ status = <<>>
  /\ c # Killed => \A s \in Streams : Len(wrote[s]) = lines[s]
  /\ status' = <<c>>
  /\ held' \in BOOLEAN
  /\ UNCHANGED <<stage, lines, wrote, shown, reader>>

PipesClosed ==
  /\ held /\ held' = FALSE
  /\ UNCHANGED <<stage, status, lines, wrote, shown, reader>>

(* Seeded fault: the pipes are read when the child has been waited for.    *)
CopyLineLate(s) ==
  /\ stage = "join" /\ reader[s] = "reading"
  /\ shown[s] < Len(wrote[s]) /\ wrote[s][shown[s] + 1]
  /\ shown' = [shown EXCEPT ![s] = @ + 1]
  /\ UNCHANGED <<stage, status, lines, wrote, reader, held>>

(* stdout_task, stderr_task: a line, or the end of the loop                *)
CopyLine(s) ==
  /\ stage # "off" /\ reader[s] = "reading"
  /\ shown[s] < Len(wrote[s]) /\ wrote[s][shown[s] + 1]
  /\ shown' = [shown EXCEPT ![s] = @ + 1]
  /\ UNCHANGED <<stage, status, lines, wrote, reader, held>>

CopyEnds(s) ==
  /\ stage # "off" /\ reader[s] = "reading"
  /\ IF shown[s] < Len(wrote[s]) THEN ~wrote[s][shown[s] + 1]
                                 ELSE status # <<>> /\ ~held
  /\ reader' = [reader EXCEPT ![s] = "ended"]
  /\ UNCHANGED <<stage, status, lines, wrote, shown, held>>

(* Seeded fault: nobody waits for the tasks.                               *)
WaitReturnsAtOnce ==
  /\ stage = "wait" /\ status # <<>>
  /\ stage' = "back"
  /\ UNCHANGED <<status, lines, wrote, shown, reader, held>>

WaitReturns ==
  /\ stage = "wait" /\ status # <<>>
  /\ stage' = "join"
  /\ UNCHANGED <<status, lines, wrote, shown, reader, held>>

Join ==
  /\ stage = "join" /\ \A s \in Streams : reader[s] = "ended"
  /\ stage' = "back"
  /\ UNCHANGED <<status, lines, wrote, shown, reader, held>>

Transport ==
  \/ WaitReturns \/ Join
  \/ \E s \in Streams : CopyLine(s) \/ CopyEnds(s)

(* ssh as long as nobody kills it.                                         *)
SshGoesOn ==
  \/ \E s \in Streams, b \in BOOLEAN : SshWrites(s, b)
  \/ \E c \in Statuses \ {Killed} : SshExits(c)

SshKilled == Killed \in Statuses /\ SshExits(Killed)

(* Output that a reader could pass on: the lines before the first that is  *)
(* no UTF-8.                                                               *)
Readable(s) == {n \in DOMAIN wrote[s] : \A m \in 1..n : wrote[s][m]}

SshTypeOK ==
  /\ stage \in {"off", "wait", "join", "back"}
  /\ status \in {<<>>} \cup {<<c>> : c \in Statuses}
  /\ lines \in [Streams -> Nat] /\ held \in BOOLEAN
  /\ wrote \in [Streams -> Seq(BOOLEAN)] /\ shown \in [Streams -> Nat]
  /\ reader \in [Streams -> {"reading", "ended"}]
=============================================================================
