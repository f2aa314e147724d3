---------------------------- MODULE RcargodDaemon ----------------------------
(***************************************************************************)
(* The rcargod process as a service: main spawns a task per listener and   *)
(* waits for the first of them to end; the listeners hand every connection *)
(* to a task of its own; the systemd unit that bootstrap-remote.sh installs *)
(* decides whether a process that has ended is started again.  What goes   *)
(* on inside a session is RcargodSession.                                  *)
(***************************************************************************)
EXTENDS Integers, Sequences

CONSTANTS
  Handles,     \* the listeners main spawns, in the order of its Vec
  Clients,     \* connections that are attempted
  Via,         \* per client: the listener it connects to
  MaxTrouble   \* bound: failing system calls, signals and operator's stops

Kinds == {"tcp", "wt"}
Listeners == {Handles[i] : i \in DOMAIN Handles}

ASSUME DaemonAssumption ==
  /\ Handles \in Seq(Kinds) /\ Handles # <<>>
  /\ Via \in [Clients -> Listeners] /\ MaxTrouble \in Nat

VARIABLES
  task,     \* per listener: "none", "bind", "accept", "over"
  conn,     \* per client: how far its connection has come
  unit,     \* "starting", "up" (main waits in futures_select),
            \* "restarting" (after RestartSec), "stopped", "dead"
  ended,    \* how the latest process ended: "none", "exit", "crash", "term", "stop"
  trouble   \* how much has gone wrong

vars == <<task, conn, unit, ended, trouble>>

Init ==
  /\ task = [l \in Kinds |-> "none"]
  /\ conn = [c \in Clients |-> "none"]
  /\ unit = "starting" /\ ended = "none" /\ trouble = 0

Trouble == trouble < MaxTrouble /\ trouble' = trouble + 1

-----------------------------------------------------------------------------
(* main, and the unit around it *)

(* Seeded fault: the unit has no Restart= line.                            *)
RestartsNever(how) == FALSE

(* Restart=on-failure: after a crash, which is a signal such as SIGKILL or *)
(* SIGSEGV, or after a non-zero exit code; neither after exit code 0, nor  *)
(* after systemctl stop, nor after a signal that systemd takes for a clean *)
(* end (SIGTERM, SIGINT, SIGHUP), whoever sent it.                         *)
Restarts(how) == how = "crash"

(* Seeded fault: sessions run outside of the runtime and outlive main.     *)
EndProcessAlone(how) ==
  /\ task' = [l \in Kinds |-> "none"]
  /\ ended' = how
  /\ unit' = IF how = "stop" THEN "stopped"
             ELSE IF Restarts(how) THEN "restarting" ELSE "dead"
  /\ UNCHANGED conn

(* With the process go its runtime, all listeners and every session.       *)
EndProcess(how) ==
  /\ task' = [l \in Kinds |-> "none"]
  /\ conn' = [c \in Clients |-> "none"]
  /\ ended' = how
  /\ unit' = IF how = "stop" THEN "stopped"
             ELSE IF Restarts(how) THEN "restarting" ELSE "dead"

Boot ==
  /\ unit = "starting"
  /\ unit' = "up"
  /\ task' = [l \in Kinds |-> IF l \in Listeners THEN "bind" ELSE "none"]
  /\ UNCHANGED <<conn, ended, trouble>>

(* Seeded fault: only the first handle is polled.                          *)
SelectFirst ==
  /\ unit = "up" /\ task[Handles[1]] = "over"
  /\ EndProcess("exit")
  /\ UNCHANGED trouble

(* futures_select is ready with the first task that is; main returns Ok,   *)
(* and the exit code is 0.                                                 *)
Select ==
  /\ unit = "up" /\ \E l \in Listeners : task[l] = "over"
  /\ EndProcess("exit")
  /\ UNCHANGED trouble

KilledBySignal ==
  /\ unit = "up" /\ Trouble
  /\ \E how \in {"crash", "term"} : EndProcess(how)

SystemctlStop == unit = "up" /\ Trouble /\ EndProcess("stop")

SystemctlStart ==
  /\ unit \in {"stopped", "dead"}
  /\ unit' = "starting"
  /\ UNCHANGED <<task, conn, ended, trouble>>

RestartSec ==
  /\ unit = "restarting"
  /\ unit' = "starting"
  /\ UNCHANGED <<task, conn, ended, trouble>>

-----------------------------------------------------------------------------
(* serve_tcp, serve_wt and handle_wt_session *)

Listener(l, from, to) ==
  /\ task[l] = from
  /\ task' = [task EXCEPT ![l] = to]
  /\ UNCHANGED <<conn, unit, ended>>

Binds(l) == Listener(l, "bind", "accept") /\ UNCHANGED trouble

(* The address is taken or malformed: the task logs it and ends.           *)
BindFails(l) == Listener(l, "bind", "over") /\ Trouble

(* Any error of accept ends serve_tcp; the endpoint of serve_wt has none.  *)
AcceptFails == Listener("tcp", "accept", "over") /\ Trouble

Connection(c, from, to) ==
  /\ conn[c] = from
  /\ conn' = [conn EXCEPT ![c] = to]
  /\ UNCHANGED <<task, unit, ended, trouble>>

Knock(c) == task[Via[c]] = "accept" /\ Connection(c, "none", "knocking")

(* Seeded fault: serve_wt walks through the handshake before it accepts    *)
(* the next session, instead of spawning handle_wt_session.                *)
AcceptInline(c) ==
  /\ task[Via[c]] = "accept"
  /\ \A d \in Clients : conn[d] # "handshake"
  /\ Connection(c, "knocking", IF Via[c] = "tcp" THEN "serving" ELSE "handshake")

(* The listener spawns a task for the connection and accepts the next.     *)
Accept(c) ==
  /\ task[Via[c]] = "accept"
  /\ Connection(c, "knocking", IF Via[c] = "tcp" THEN "serving" ELSE "handshake")

(* The session request is completed and accepted, or fails.                *)
Handshake(c) == \E to \in {"connected", "none"} : Connection(c, "handshake", to)

(* accept_bi yields a stream, for which a serve_one is spawned.            *)
OpenStream(c) == Connection(c, "connected", "serving")

(* serve_one returns: a WebTransport connection may go on to a new stream. *)
SessionEnds(c) ==
  Connection(c, "serving", IF Via[c] = "tcp" THEN "none" ELSE "connected")

(* The peer closes the connection or is lost.                              *)
Disconnects(c) ==
  \E from \in {"knocking", "connected", "serving"} : Connection(c, from, "none")

-----------------------------------------------------------------------------

Systemd == Boot \/ RestartSec

Next ==
  \/ Systemd \/ Select \/ KilledBySignal \/ SystemctlStop \/ SystemctlStart
  \/ AcceptFails
  \/ \E l \in Listeners : Binds(l) \/ BindFails(l)
  \/ \E c \in Clients : \/ Knock(c) \/ Accept(c) \/ Handshake(c) \/ OpenStream(c)
                        \/ SessionEnds(c) \/ Disconnects(c)

(* systemd acts on its timers, the runtime polls what is ready; peers and  *)
(* the operator owe nothing, a handshake may hang for ever.                *)
Spec ==
  /\ Init /\ [][Next]_vars
  /\ WF_vars(Systemd) /\ WF_vars(Select)
  /\ \A l \in Kinds : WF_vars(Binds(l))
  /\ \A c \in Clients : WF_vars(Accept(c))

-----------------------------------------------------------------------------
(* Properties *)

(* States and their order: no task of a process is left when it has ended, *)
(* and a session exists only behind a listener that has been bound.        *)
DaemonTypeOK ==
  /\ trouble \in 0..MaxTrouble
  /\ task \in [Kinds -> {"none", "bind", "accept", "over"}]
  /\ conn \in [Clients -> {"none", "knocking", "handshake", "connected",
                           "serving"}]
  /\ unit \in {"stopped", "starting", "up", "restarting", "dead"}
  /\ ended \in {"none", "exit", "crash", "term", "stop"}
  /\ unit # "up" => \A l \in Kinds : task[l] = "none"
  /\ \A c \in Clients : conn[c] # "none" =>
       task[Via[c]] \in {"accept", "over"}

(* A process does not stay up without one of its listeners: whichever of   *)
(* them ends, and in whatever order they were spawned, the process ends.   *)
ListenerLossIsSeen ==
  \A l \in Kinds : task[l] = "over" ~> unit # "up"

(* A process that crashed is running again later: one that was killed or   *)
(* faulted, not one that got a signal systemd takes for a clean end.       *)
CrashIsRepaired == ended = "crash" /\ unit # "up" ~> unit = "up"

(* A client that hangs in its handshake keeps no other one from being      *)
(* accepted: who knocks gets in, unless it gives up or the listener ends.  *)
NobodyWaitsForAnother == \A c \in Clients : conn[c] = "knocking" ~> conn[c] # "knocking"

(* "Wait for any listener to die - if one does, exit so systemd restarts". *)
(* The code does not keep this: the exit code is 0, which is no failure to *)
(* the unit, and the service stays down.                                   *)
DeadListenerComesBack ==
  \A l \in Kinds : task[l] = "over" ~> unit = "up" /\ task[l] # "over"
=============================================================================
