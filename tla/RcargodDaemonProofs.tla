------------------------ MODULE RcargodDaemonProofs ------------------------
(***************************************************************************)
(* Proofs about the rcargod service, for any listeners in any order and    *)
(* any number of clients and failures.                                     *)
(***************************************************************************)
EXTENDS RcargodDaemon, TLAPS

(* What the data of the model are made of.                                 *)
LEMMA ListenersAreKinds ==
  Listeners \subseteq Kinds /\ \A c \in Clients : Via[c] \in Kinds
<1>1. \A i \in DOMAIN Handles : Handles[i] \in Kinds
  BY DaemonAssumption DEF DaemonAssumption
<1>2. Listeners \subseteq Kinds
  BY <1>1 DEF Listeners
<1> QED
  BY <1>2, DaemonAssumption DEF DaemonAssumption

(* With the process go its listeners and all sessions.                     *)
LEMMA EndProcessTypes ==
  ASSUME DaemonTypeOK, NEW how \in {"exit", "crash", "term", "stop"}, EndProcess(how),
         trouble' \in 0..MaxTrouble
  PROVE  DaemonTypeOK'
<1>1. /\ task' = [l \in Kinds |-> "none"] /\ conn' = [c \in Clients |-> "none"]
      /\ ended' = how
  BY DEF EndProcess
<1>2. unit' \in {"stopped", "restarting", "dead"}
  BY DEF EndProcess
<1> QED
  BY <1>1, <1>2 DEF DaemonTypeOK

LEMMA TroubleTypes ==
  ASSUME DaemonTypeOK, Trouble
  PROVE  trouble' \in 0..MaxTrouble
  BY DaemonAssumption DEF DaemonTypeOK, Trouble, DaemonAssumption

(* A listener is bound before it accepts, and goes only to its end.        *)
LEMMA ListenerTypes ==
  ASSUME DaemonTypeOK, NEW l \in Kinds, NEW from \in {"bind", "accept"},
         NEW to \in {"accept", "over"}, Listener(l, from, to),
         trouble' \in 0..MaxTrouble
  PROVE  DaemonTypeOK'
<1>1. /\ task[l] = from /\ task' = [task EXCEPT ![l] = to]
      /\ UNCHANGED <<conn, unit, ended>>
  BY DEF Listener
<1>2. task' \in [Kinds -> {"none", "bind", "accept", "over"}]
  BY <1>1 DEF DaemonTypeOK
<1>3. unit = "up"
  BY <1>1 DEF DaemonTypeOK
<1>4. \A k \in Kinds : task[k] \in {"accept", "over"} => task'[k] \in {"accept", "over"}
  BY <1>1 DEF DaemonTypeOK
<1>5. \A c \in Clients : conn[c] # "none" => task'[Via[c]] \in {"accept", "over"}
  BY <1>4, ListenersAreKinds DEF DaemonTypeOK
<1> QED
  BY <1>1, <1>2, <1>3, <1>5 DEF DaemonTypeOK

(* A connection goes on only where it has begun behind a bound listener.   *)
LEMMA ConnectionTypes ==
  ASSUME DaemonTypeOK, NEW c \in Clients, NEW from,
         NEW to \in {"none", "knocking", "handshake", "connected", "serving"},
         Connection(c, from, to),
         from = "none" => task[Via[c]] = "accept"
  PROVE  DaemonTypeOK'
<1>1. /\ conn[c] = from /\ conn' = [conn EXCEPT ![c] = to]
      /\ UNCHANGED <<task, unit, ended, trouble>>
  BY DEF Connection
<1>2. task[Via[c]] \in {"accept", "over"}
  BY <1>1 DEF DaemonTypeOK
<1>3. /\ conn' \in [Clients -> {"none", "knocking", "handshake", "connected", "serving"}]
      /\ \A d \in Clients \ {c} : conn'[d] = conn[d]
  BY <1>1 DEF DaemonTypeOK
<1> QED
  BY <1>1, <1>2, <1>3 DEF DaemonTypeOK

LEMMA DaemonInit == Init => DaemonTypeOK
  BY DaemonAssumption DEF Init, DaemonTypeOK, DaemonAssumption

LEMMA DaemonNext == DaemonTypeOK /\ [Next]_vars => DaemonTypeOK'
<1> SUFFICES ASSUME DaemonTypeOK, [Next]_vars PROVE DaemonTypeOK'
  OBVIOUS
<1>1. CASE Boot
  <2>1. \A c \in Clients : conn[c] = "none"
    BY <1>1, ListenersAreKinds DEF Boot, DaemonTypeOK
  <2> QED
    BY <1>1, <2>1 DEF Boot, DaemonTypeOK
<1>2. CASE RestartSec \/ SystemctlStart
  BY <1>2 DEF RestartSec, SystemctlStart, DaemonTypeOK
<1>3. CASE Select \/ KilledBySignal \/ SystemctlStop
  BY <1>3, EndProcessTypes, TroubleTypes
     DEF Select, KilledBySignal, SystemctlStop, DaemonTypeOK
<1>4. CASE AcceptFails
  BY <1>4, ListenerTypes, TroubleTypes DEF AcceptFails, Kinds
<1>5. ASSUME NEW l \in Listeners, Binds(l) \/ BindFails(l) PROVE DaemonTypeOK'
  <2>1. l \in Kinds
    BY ListenersAreKinds
  <2>2. trouble' \in 0..MaxTrouble
    BY <1>5, TroubleTypes DEF Binds, BindFails, DaemonTypeOK
  <2> QED
    BY <1>5, <2>1, <2>2, ListenerTypes DEF Binds, BindFails
<1>6. ASSUME NEW c \in Clients,
             \/ Knock(c) \/ Accept(c) \/ Handshake(c) \/ OpenStream(c)
             \/ SessionEnds(c) \/ Disconnects(c)
      PROVE  DaemonTypeOK'
  <2>1. \E from, to \in {"none", "knocking", "handshake", "connected", "serving"} :
          /\ Connection(c, from, to)
          /\ from = "none" => task[Via[c]] = "accept"
    BY <1>6 DEF Knock, Accept, Handshake, OpenStream, SessionEnds, Disconnects
  <2> QED
    BY <2>1, ConnectionTypes
<1>7. CASE UNCHANGED vars
  BY <1>7 DEF vars, DaemonTypeOK
<1> QED
  BY <1>1, <1>2, <1>3, <1>4, <1>5, <1>6, <1>7 DEF Next, Systemd

(* Besides its types: a process that has ended leaves no task behind, and  *)
(* every connection stands behind a listener that has been bound, also     *)
(* when that listener has ended since and the session goes on.             *)
THEOREM DaemonTyped == Spec => []DaemonTypeOK
  BY DaemonInit, DaemonNext, PTL DEF Spec
=============================================================================
