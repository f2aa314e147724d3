--------------------------- MODULE WtBuildProofs ---------------------------
(***************************************************************************)
(* A WebTransport build is one of the sessions of RcargodSession, so what  *)
(* is proved of every session holds of it.                                 *)
(***************************************************************************)
EXTENDS WtBuild, RcargodPromiseProofs

(* A step of the client is a step of the peer, or leaves the session alone. *)
LEMMA ClientIsPeer == Client \/ NetworkFails => Peer \/ UNCHANGED vars
<1> SUFFICES ASSUME Client \/ NetworkFails PROVE Peer \/ UNCHANGED vars
  OBVIOUS
<1>1. CASE Connect \/ ConnectFails \/ GiveUp
  BY <1>1 DEF Connect, ConnectFails, GiveUp, sessionVars
<1>2. CASE SendHello \/ SendBuild
  BY <1>2, ClientAssumption DEF ClientAssumption, SendHello, SendBuild, Peer
<1>3. CASE HalfClose \/ NetworkFails \/ Close
  BY <1>3 DEF HalfClose, NetworkFails, Close, sessionVars, Peer
<1>4. CASE TakeOutput \/ TakeAck \/ TakeExit \/ TakeError
  BY <1>4 DEF TakeOutput, TakeAck, TakeExit, TakeError, Takes, Peer
<1> QED
  BY <1>1, <1>2, <1>3, <1>4 DEF Client

(* The client never leaves the protocol: whatever it does, and however the *)
(* connection fails, the daemon goes through a session of RcargodSession.  *)
THEOREM WtIsSession == WtSpec => Spec
<1>1. WtInit => Init
  BY DEF WtInit
<1>2. [WtNext]_wtVars => [Next]_vars
  BY ClientIsPeer DEF WtNext, Daemon, AtRest, Next, wtVars
<1> QED
  BY <1>1, <1>2, PTL DEF WtSpec, Spec

(* What the client reads is in order, and nothing of its build follows the *)
(* Exit at which it stops reading.                                         *)
THEOREM WtStream == WtSpec => [](WireInOrder /\ ExitClosesBuild)
  BY WtIsSession, InOrder, ExitCloses, PTL

(* The promise of a session holds of a build over WebTransport: whatever   *)
(* the connection does, the daemon sends the lines of each stream in order *)
(* and at most one Exit behind them, with the status of this cargo.        *)
THEOREM WtRefines == WtSpec => KeepsPromise
  BY WtIsSession, Refines, PTL

-----------------------------------------------------------------------------
(* One build: the requests of the client.                                  *)

LEMMA DueTail ==
  ASSUME NEW q \in Seq(Requests), q # <<>>, \A i, j \in Due(q) : i = j
  PROVE  /\ \A i, j \in Due(Tail(q)) : i = j
         /\ Due(q) = {} => Due(Tail(q)) = {}
         /\ Head(q) = "build" => Due(q) # {} /\ Due(Tail(q)) = {}
<1>1. /\ Tail(q) \in Seq(Requests) /\ Head(q) = q[1] /\ 1 \in DOMAIN q
      /\ \A i \in DOMAIN Tail(q) : i + 1 \in DOMAIN q /\ Tail(q)[i] = q[i + 1]
  BY Uncons
<1>2. DOMAIN Tail(q) \subseteq Nat \ {0}
  BY <1>1, LenProperties
<1>3. \A i \in Due(Tail(q)) : i + 1 \in Due(q) /\ i \in Nat \ {0}
  BY <1>1, <1>2 DEF Due
<1>4. \A i, j \in Due(Tail(q)) : i = j
  <2> SUFFICES ASSUME NEW i \in Due(Tail(q)), NEW j \in Due(Tail(q)) PROVE i = j
    OBVIOUS
  <2>1. i + 1 = j + 1 /\ i \in Nat /\ j \in Nat
    BY <1>3
  <2> QED
    BY <2>1
<1>5. ASSUME Head(q) = "build" PROVE Due(q) # {} /\ Due(Tail(q)) = {}
  <2>1. 1 \in Due(q)
    BY <1>1, <1>5 DEF Due
  <2>2. ASSUME NEW i \in Due(Tail(q)) PROVE FALSE
    <3>1. i + 1 = 1 /\ i \in Nat \ {0}
      BY <1>3, <2>1, <2>2
    <3> QED
      BY <3>1
  <2> QED
    BY <2>1, <2>2
<1> QED
  BY <1>3, <1>4, <1>5

LEMMA DueAppend ==
  ASSUME NEW q \in Seq(Requests), NEW r \in Requests, Due(q) = {}
  PROVE  /\ \A i, j \in Due(Append(q, r)) : i = j
         /\ r # "build" => Due(Append(q, r)) = {}
<1>1. /\ DOMAIN Append(q, r) = 1..(Len(q) + 1) /\ Append(q, r)[Len(q) + 1] = r
      /\ \A i \in DOMAIN q : Append(q, r)[i] = q[i]
      /\ DOMAIN q = 1..Len(q) /\ Len(q) \in Nat
  BY Snoc, LenProperties
<1>2. \A i \in Due(Append(q, r)) : i = Len(q) + 1 /\ r = "build"
  <2> SUFFICES ASSUME NEW i \in Due(Append(q, r)) PROVE i = Len(q) + 1 /\ r = "build"
    OBVIOUS
  <2>1. i \in 1..(Len(q) + 1) /\ Append(q, r)[i] = "build"
    BY <1>1 DEF Due
  <2>2. i \notin DOMAIN q
    BY <1>1, <2>1 DEF Due
  <2>3. i = Len(q) + 1
    BY <1>1, <2>1, <2>2
  <2> QED
    BY <1>1, <2>1, <2>3
<1> QED
  BY <1>2

LEMMA OneBuildStays ==
  ASSUME OneBuild, UNCHANGED <<inbox, build>>,
         pc' \in {"Drain", "Refuse", "Report"} => pc \in {"Drain", "Refuse", "Report"},
         client' \in {"connect", "hello", "build"} => client \in {"connect", "hello", "build"}
  PROVE  OneBuild'
  BY DEF OneBuild

(* The daemon takes requests up; the first build is the only one.          *)
LEMMA DaemonOneBuild ==
  ASSUME Types, OneBuild, Daemon
  PROVE  OneBuild'
<1>0. UNCHANGED client /\ inbox \in Seq(Requests)
  BY DEF Daemon, clientVars, Types
<1>1. CASE (\E s \in Streams : Task(s)) \/ WaitReaps \/ Cargo
  <2>1. UNCHANGED <<inbox, build, pc>>
    BY <1>1 DEF Task, ReadLine, ReaderStops, WaitReaps, Cargo, CargoWants, CargoWrites,
       BackgroundWrites, BackgroundEnds, CargoExits
  <2> QED
    BY <1>0, <2>1, OneBuildStays
<1>2. ASSUME NEW r, NextLine(r), UNCHANGED build, pc' = pc \/ pc' = "Done"
      PROVE  OneBuild'
  <2>1. inbox # <<>> /\ inbox' = Tail(inbox)
    BY <1>2 DEF NextLine
  <2>2. /\ \A i, j \in Due(Tail(inbox)) : i = j
        /\ Due(inbox) = {} => Due(Tail(inbox)) = {}
    BY <1>0, <2>1, DueTail DEF OneBuild
  <2> QED
    BY <1>0, <1>2, <2>1, <2>2 DEF OneBuild
<1>3. ASSUME NextLine("build"), build' = build + 1 PROVE OneBuild'
  <2>1. inbox # <<>> /\ inbox' = Tail(inbox) /\ Head(inbox) = "build"
    BY <1>3 DEF NextLine
  <2>2. Due(inbox) # {} /\ Due(Tail(inbox)) = {}
    BY <1>0, <2>1, DueTail DEF OneBuild
  <2>3. build' = 1 /\ client \notin {"connect", "hello", "build"}
    BY <1>3, <2>2 DEF OneBuild
  <2> QED
    BY <1>0, <2>1, <2>2, <2>3 DEF OneBuild
<1>4. CASE EndOfInput \/ EmitFails \/ Recv \/ FinishBuild \/ Emit
  <2>1. /\ UNCHANGED <<inbox, build>>
        /\ pc' \in {"Drain", "Refuse", "Report"} => pc \in {"Drain", "Refuse", "Report"}
    BY <1>4 DEF EndOfInput, EmitFails, EndSession, Recv, FinishBuild, Emit
  <2> QED
    BY <1>0, <2>1, OneBuildStays
<1>5. CASE Serve
  <2>1. ASSUME NEW r \in {"blank", "hello", "garbage"}, Answer(r) PROVE OneBuild'
    BY <1>2, <2>1 DEF Answer
  <2>2. ASSUME NEW r \in {"bye", "binary"}, Hangup(r) PROVE OneBuild'
    BY <1>2, <2>2 DEF Hangup, EndSession
  <2>3. ASSUME NEW c \in {1, 127}, RefuseBuild(c) PROVE OneBuild'
    BY <1>3, <2>3 DEF RefuseBuild
  <2>4. CASE StartBuild
    BY <1>3, <2>4 DEF StartBuild
  <2> QED
    BY <1>4, <1>5, <2>1, <2>2, <2>3, <2>4 DEF Serve
<1> QED
  BY <1>1, <1>5 DEF Daemon

LEMMA ClientOneBuild ==
  ASSUME Types, OneBuild, Client \/ NetworkFails
  PROVE  OneBuild'
<1>0. inbox \in Seq(Requests) /\ {"hello", "build"} \subseteq Requests
  BY DEF Types, Requests
<1>1. CASE SendHello
  <2>1. /\ inbox' = Append(inbox, "hello") /\ UNCHANGED <<build, pc>>
        /\ client = "hello" /\ client' = "build"
    BY <1>1 DEF SendHello, PeerSends, Goto
  <2>2. build = 0 /\ Due(inbox) = {}
    BY <2>1 DEF OneBuild
  <2>3. Due(Append(inbox, "hello")) = {}
    BY <1>0, <2>2, DueAppend
  <2> QED
    BY <2>1, <2>2, <2>3 DEF OneBuild
<1>2. CASE SendBuild
  <2>1. /\ inbox' = Append(inbox, "build") /\ UNCHANGED <<build, pc>>
        /\ client = "build" /\ client' = "half_close"
    BY <1>2 DEF SendBuild, PeerSends, Goto
  <2>2. build = 0 /\ Due(inbox) = {}
    BY <2>1 DEF OneBuild
  <2>3. \A i, j \in Due(Append(inbox, "build")) : i = j
    BY <1>0, <2>2, DueAppend
  <2> QED
    BY <2>1, <2>2, <2>3 DEF OneBuild
<1>3. CASE Connect \/ ConnectFails \/ GiveUp
  BY <1>3, OneBuildStays
  DEF Connect, ConnectFails, GiveUp, Goto, Ends, sessionVars, vars
<1>4. CASE HalfClose \/ Close \/ NetworkFails
  BY <1>4, OneBuildStays
  DEF HalfClose, Close, NetworkFails, PeerLeaves, Goto, sessionVars, vars, clientVars
<1>5. CASE TakeOutput \/ TakeAck \/ TakeExit \/ TakeError
  BY <1>5, OneBuildStays
  DEF TakeOutput, TakeAck, TakeExit, TakeError, Takes, PeerReads, Ends, clientVars
<1> QED
  BY <1>1, <1>2, <1>3, <1>4, <1>5 DEF Client

-----------------------------------------------------------------------------
(* A success is final.                                                     *)

(* Only emit writes to the peer.                                           *)
LEMMA WireStays ==
  ASSUME [Next]_vars
  PROVE  Emit \/ wire' = wire
<1>1. ASSUME Peer \/ (\E s \in Streams : Task(s)) \/ WaitReaps \/ Terminated \/ UNCHANGED vars
      PROVE  wire' = wire
  BY <1>1 DEF Peer, PeerReads, PeerSends, PeerLeaves, Task, ReadLine, ReaderStops,
     WaitReaps, Terminated, vars
<1>2. ASSUME Cargo PROVE wire' = wire
  BY <1>2 DEF Cargo, CargoWants, CargoWrites, BackgroundWrites, BackgroundEnds, CargoExits
<1>3. ASSUME Serve PROVE Emit \/ wire' = wire
  BY <1>3 DEF Serve, Answer, Hangup, EndOfInput, EndSession, NextLine, RefuseBuild,
     StartBuild, Recv, FinishBuild, EmitFails
<1> QED
  BY <1>1, <1>2, <1>3 DEF Next

LEMMA WireGrows ==
  ASSUME Types, [Next]_vars
  PROVE  /\ Len(wire) <= Len(wire')
         /\ \A i \in DOMAIN wire : i \in DOMAIN wire' /\ wire'[i] = wire[i]
<1>1. CASE Emit
  <2>1. wire' = Append(wire, Head(pending)) /\ wire \in Seq(Event) /\ Head(pending) \in Event
    BY <1>1, Uncons DEF Emit, Types
  <2>2. Len(wire) \in Nat /\ DOMAIN wire = 1..Len(wire)
    BY <2>1, LenProperties
  <2> QED
    BY <2>1, <2>2, Snoc
<1>2. CASE wire' = wire
  <2>1. Len(wire) \in Nat
    BY LenProperties DEF Types
  <2> QED
    BY <1>2, <2>1
<1>3. Emit \/ wire' = wire
  BY WireStays
<1> QED
  BY <1>1, <1>2, <1>3

LEMMA SuccessStays ==
  ASSUME Types, OneBuild, Succeeded, [Next]_vars
  PROVE  Succeeded' /\ UNCHANGED good
<1>1. build = 1 /\ cargo = "exited" /\ status = 0 /\ Due(inbox) = {}
  BY DEF Succeeded, OneBuild
<1>2. ~NextLine("build")
  <2> SUFFICES ASSUME NextLine("build") PROVE FALSE
    OBVIOUS
  <2>1. inbox \in Seq(Requests) /\ inbox # <<>> /\ Head(inbox) = "build"
    BY DEF NextLine, Types
  <2>2. 1 \in Due(inbox)
    BY <2>1, Uncons DEF Due
  <2> QED
    BY <1>1, <2>2
<1>3. /\ UNCHANGED <<build, cargo, status, good>>
      /\ \A s \in Streams : reader'[s] = reader[s] \/ reader'[s] # "reading"
  <2>1. CASE Peer \/ WaitReaps \/ Terminated \/ UNCHANGED vars
    BY <2>1 DEF Peer, PeerReads, PeerSends, PeerLeaves, WaitReaps, Terminated, vars,
       cargoVars, taskVars
  <2>2. ASSUME NEW s \in Streams, Task(s)
        PROVE  /\ UNCHANGED <<build, cargo, status, good>>
               /\ \A t \in Streams : reader'[t] = reader[t] \/ reader'[t] # "reading"
    BY <2>2 DEF Task, ReadLine, ReaderStops, Types, cargoVars
  <2>3. ASSUME NEW s \in Streams, CargoWants(s) \/ CargoWrites(s) \/ BackgroundWrites(s)
        PROVE  UNCHANGED <<build, cargo, status, good, reader>>
    <3>1. CASE CargoWants(s)
      BY <3>1 DEF CargoWants, taskVars
    <3>2. CASE CargoWrites(s)
      BY <1>1, <3>2 DEF CargoWrites
    <3>3. CASE BackgroundWrites(s)
      <4>1. reader[s] # "reading"
        BY DEF Succeeded
      <4> QED
        BY <3>3, <4>1 DEF BackgroundWrites, Write, taskVars
    <3> QED
      BY <2>3, <3>1, <3>2, <3>3
  <2>4. ASSUME BackgroundEnds \/ \E c \in ExitCodes \cup {Killed} : CargoExits(c)
        PROVE  UNCHANGED <<build, cargo, status, good, reader>>
    BY <1>1, <2>4 DEF BackgroundEnds, CargoExits, taskVars
  <2>5. ASSUME EndSession
        PROVE  /\ UNCHANGED <<build, cargo, status, good>>
               /\ \A s \in Streams : reader'[s] = reader[s] \/ reader'[s] # "reading"
    BY <2>5 DEF EndSession, cargoVars
  <2>6. ASSUME Serve
        PROVE  /\ UNCHANGED <<build, cargo, status, good>>
               /\ \A s \in Streams : reader'[s] = reader[s] \/ reader'[s] # "reading"
    <3>1. CASE \E r \in {"blank", "hello", "garbage"} : Answer(r)
      BY <3>1 DEF Answer, cargoVars, taskVars
    <3>2. CASE (\E r \in {"bye", "binary"} : Hangup(r)) \/ EndOfInput \/ EmitFails
      BY <2>5, <3>2 DEF Hangup, EndOfInput, EmitFails
    <3>3. CASE Recv \/ FinishBuild \/ Emit
      BY <3>3 DEF Recv, FinishBuild, Emit, cargoVars, taskVars
    <3> QED
      BY <1>2, <2>6, <3>1, <3>2, <3>3 DEF Serve, RefuseBuild, StartBuild
  <2> QED
    BY <2>1, <2>2, <2>3, <2>4, <2>6 DEF Next, Cargo
<1>4. \A e : OnWire(e) => OnWire(e)'
  BY WireGrows DEF OnWire
<1> QED
  BY <1>1, <1>3, <1>4 DEF Succeeded

-----------------------------------------------------------------------------
(* What the daemon sends to the client.                                    *)

(* Exit 0 goes out when cargo succeeded and all its output has.            *)
LEMMA EmitWire ==
  ASSUME Inv, PromiseInv, OneBuild, Emit
  PROVE  LET e == Head(pending) IN
         /\ e \in Event
         /\ e.kind \in Streams => e.build = 1 /\ e.val > 0
         /\ e.kind = "exit" => e.build = 1
         /\ e.kind = "exit" /\ e.val = 0 => Succeeded
<1> DEFINE e == Head(pending)
           Goal == /\ e.kind \in Streams => e.build = 1 /\ e.val > 0
                   /\ e.kind = "exit" => e.build = 1
                   /\ e.kind = "exit" /\ e.val = 0 => Succeeded
<1>1. pending # <<>> /\ pending \in Seq(Event) /\ e \in Event
  BY Uncons DEF Emit, Inv, Types
<1>2. \A x : Head(<<x>>) = x
  OBVIOUS
<1>3. \A x, y : Head(<<x, y>>) = x
  OBVIOUS
<1>4. CASE pc = "Read"
  <2>1. pending \in {<<HelloAck>>, <<Error(0)>>}
    BY <1>1, <1>4 DEF PromiseInv, PendingInv
  <2>2. e = HelloAck \/ e = Error(0)
    BY <1>2, <2>1
  <2> QED
    BY <1>1, <2>2 DEF HelloAck, Error, Streams
<1>5. CASE pc = "Refuse"
  <2>1. PICK c \in {1, 127} :
          pending = <<Error(build), Exit(build, c)>> \/ pending = <<Exit(build, c)>>
    BY <1>5 DEF PromiseInv, PendingInv
  <2>2. e = Error(build) \/ e = Exit(build, c)
    BY <1>2, <1>3, <2>1
  <2>3. build = 1 /\ c # 0
    BY <1>5 DEF OneBuild
  <2> QED
    BY <1>1, <2>2, <2>3 DEF Error, Exit, Streams
<1>6. CASE pc = "Drain"
  <2>1. TakenLine(e, build, taken)
    BY <1>1, <1>6 DEF PromiseInv, PendingInv
  <2>2. PICK s \in Streams : \E n \in 1..taken[s] : e = Line(s, build, n)
    BY <2>1 DEF TakenLine
  <2>3. PICK n \in 1..taken[s] : e = Line(s, build, n)
    BY <2>2
  <2>4. build = 1 /\ e.kind = s /\ e.build = build /\ e.val = n
    BY <1>6, <2>3 DEF OneBuild, Line
  <2>5. n > 0
    OBVIOUS
  <2> QED
    BY <1>1, <2>4, <2>5 DEF Streams
<1>7. CASE pc = "Report"
  <2>1. pending = <<Exit(build, CodeOf(status))>>
    BY <1>7 DEF PromiseInv, PendingInv
  <2>2. e = Exit(build, CodeOf(status)) /\ build = 1
    BY <1>2, <1>7, <2>1 DEF OneBuild
  <2>3. e.kind = "exit" /\ e.build = 1 /\ e.val = CodeOf(status)
    BY <2>2 DEF Exit
  <2>4. cargo = "exited" /\ \A s \in Streams : reader[s] # "reading"
    BY <1>7 DEF PromiseInv, ReportInv, Inv, PhaseInv, Types
  <2>5. \A s \in Streams : \A n \in 1..good[s] : OnWire(Line(s, 1, n))
    BY <1>7, <2>2 DEF PromiseInv, ReportInv
  <2>6. CodeOf(status) = 0 => status = 0
    BY DEF CodeOf
  <2> QED
    BY <1>1, <2>2, <2>3, <2>4, <2>5, <2>6 DEF Succeeded, Streams
<1>8. pc # "Done"
  BY <1>1 DEF PromiseInv, PendingInv
<1>9. Goal
  BY <1>4, <1>5, <1>6, <1>7, <1>8 DEF Inv, Types
<1> QED
  BY <1>1, <1>9

LEMMA NextWire ==
  ASSUME Inv, PromiseInv, OneBuild, WireInv, [Next]_vars
  PROVE  WireInv'
<1>1. Succeeded => Succeeded'
  BY SuccessStays DEF Inv
<1>2. CASE Emit
  <2>1. wire' = Append(wire, Head(pending)) /\ wire \in Seq(Event) /\ Head(pending) \in Event
    BY <1>2, EmitWire DEF Emit, Inv, Types
  <2>2. /\ DOMAIN wire' = 1..(Len(wire) + 1) /\ wire'[Len(wire) + 1] = Head(pending)
        /\ \A i \in DOMAIN wire : wire'[i] = wire[i]
        /\ DOMAIN wire = 1..Len(wire) /\ Len(wire) \in Nat
    BY <2>1, Snoc, LenProperties
  <2>3. ASSUME NEW i \in DOMAIN wire'
        PROVE  /\ wire'[i].kind \in Streams => wire'[i].build = 1 /\ wire'[i].val > 0
               /\ wire'[i].kind = "exit" => wire'[i].build = 1
               /\ wire'[i].kind = "exit" /\ wire'[i].val = 0 => Succeeded'
    <3>1. CASE i = Len(wire) + 1
      BY <1>1, <1>2, <2>2, <3>1, EmitWire
    <3>2. CASE i # Len(wire) + 1
      <4>1. i \in DOMAIN wire
        BY <2>2, <3>2
      <4> QED
        BY <1>1, <2>2, <4>1 DEF WireInv
    <3> QED
      BY <3>1, <3>2
  <2> QED
    BY <2>3 DEF WireInv
<1>3. CASE wire' = wire
  BY <1>1, <1>3 DEF WireInv
<1>4. Emit \/ wire' = wire
  BY WireStays
<1> QED
  BY <1>2, <1>3, <1>4

-----------------------------------------------------------------------------
(* What the client takes from the wire.                                    *)

LEMMA DaemonSeen ==
  ASSUME Daemon
  PROVE  UNCHANGED <<seen, clientVars>>
<1>1. UNCHANGED clientVars
  BY DEF Daemon
<1>2. ASSUME (\E s \in Streams : Task(s)) \/ WaitReaps PROVE UNCHANGED seen
  BY <1>2 DEF Task, ReadLine, ReaderStops, WaitReaps, peerVars
<1>3. ASSUME Cargo PROVE UNCHANGED seen
  BY <1>3 DEF Cargo, CargoWants, CargoWrites, BackgroundWrites, BackgroundEnds, CargoExits,
     peerVars
<1>4. ASSUME Serve PROVE UNCHANGED seen
  BY <1>4 DEF Serve, Answer, Hangup, EndOfInput, NextLine, RefuseBuild,
     StartBuild, Recv, FinishBuild, Emit, EmitFails, peerVars
<1> QED
  BY <1>1, <1>2, <1>3, <1>4 DEF Daemon

(* A client step that takes no event.                                      *)
LEMMA ClientSeen ==
  ASSUME Connect \/ ConnectFails \/ SendHello \/ SendBuild \/ HalfClose \/ GiveUp \/ Close
           \/ NetworkFails
  PROVE  /\ UNCHANGED <<seen, wire, shown>>
         /\ UNCHANGED <<outcome, code>> \/ outcome' = "failed"
<1>1. CASE Connect \/ ConnectFails \/ GiveUp
  BY <1>1 DEF Connect, ConnectFails, GiveUp, Goto, Ends, sessionVars, vars
<1>2. CASE SendHello \/ SendBuild
  BY <1>2 DEF SendHello, SendBuild, PeerSends, Goto
<1>3. CASE HalfClose \/ Close \/ NetworkFails
  BY <1>3 DEF HalfClose, Close, NetworkFails, PeerLeaves, Goto, sessionVars, vars, clientVars
<1> QED
  BY <1>1, <1>2, <1>3

LEMMA ShownStays ==
  ASSUME Types, ShownInv, [Next]_vars, UNCHANGED <<seen, shown>>
  PROVE  ShownInv'
<1>1. \A i \in 1..seen : wire'[i] = wire[i]
  <2>1. seen \in 0..Len(wire) /\ Len(wire) \in Nat /\ DOMAIN wire = 1..Len(wire)
    BY LenProperties DEF Types
  <2> QED
    BY <2>1, WireGrows
<1> QED
  BY <1>1 DEF ShownInv

(* The event at hand is in its place behind those taken before.            *)
LEMMA TakenEvent ==
  ASSUME Inv, PeerReads
  PROVE  /\ seen \in Nat /\ seen + 1 \in DOMAIN wire /\ wire[seen + 1] \in Event
         /\ seen' = seen + 1 /\ wire' = wire /\ wire \in Seq(Event)
         /\ DOMAIN wire = 1..Len(wire) /\ Len(wire) \in Nat
         /\ \A i \in 1..seen : i \in DOMAIN wire /\ i \in 1..(seen + 1)
<1>1. wire \in Seq(Event) /\ seen \in 0..Len(wire) /\ seen < Len(wire)
      /\ seen' = seen + 1 /\ wire' = wire
  BY DEF Inv, Types, PeerReads
<1>2. DOMAIN wire = 1..Len(wire) /\ Len(wire) \in Nat
  BY <1>1, LenProperties
<1>3. seen \in Nat /\ seen + 1 \in DOMAIN wire
  BY <1>1, <1>2
<1> QED
  BY <1>1, <1>2, <1>3, ElementIsEvent

LEMMA OutputShown ==
  ASSUME Inv, WtTypeOK, WireInv, ShownInv, TakeOutput
  PROVE  ShownInv'
<1> DEFINE e == wire[seen + 1]
           t == e.kind
           k == Len(shown[t])
<1>1. /\ PeerReads /\ e.kind \in Streams /\ shown' = [shown EXCEPT ![t] = Append(@, e)]
  BY DEF TakeOutput, Takes
<1>2. /\ seen \in Nat /\ seen + 1 \in DOMAIN wire /\ e \in Event
      /\ seen' = seen + 1 /\ wire' = wire /\ wire \in Seq(Event)
      /\ \A i \in 1..seen : i \in DOMAIN wire
  BY <1>1, TakenEvent
<1>3. /\ t \in Streams /\ e.build = 1 /\ e.val \in Int /\ e.val > 0 /\ e = Line(t, 1, e.val)
  BY <1>1, <1>2 DEF WireInv, Event, Line
<1>4. shown[t] \in Seq(Event) /\ k \in Nat /\ DOMAIN shown[t] = 1..k
  <2>1. shown[t] \in Seq(Event)
    BY <1>3 DEF WtTypeOK
  <2> QED
    BY <2>1, LenProperties
<1>5. /\ \A n \in 1..k : shown[t][n] = Line(t, 1, n)
      /\ \A n \in 1..k : \E i \in 1..seen : wire[i] = Line(t, 1, n)
      /\ \A i \in 1..seen : wire[i].kind = t => wire[i].val <= k
  BY <1>3, <1>4 DEF ShownInv
<1>6. /\ \A j \in 1..((seen + 1) - 1) :
           wire[j].kind = t /\ wire[j].build = 1 => wire[j].val < e.val
      /\ e.val > 1 => \E j \in 1..((seen + 1) - 1) : wire[j] = Line(t, 1, e.val - 1)
  <2>1. StreamInOrder(wire)
    BY InvMeaning DEF WireInOrder
  <2> QED
    BY <1>2, <1>3, <2>1 DEF StreamInOrder
<1>7. (seen + 1) - 1 = seen
  BY <1>2
<1> HIDE DEF k
<1>8. e.val <= k + 1
  <2>1. CASE e.val > 1
    <3>1. PICK j \in 1..seen : wire[j] = Line(t, 1, e.val - 1)
      BY <1>6, <1>7, <2>1
    <3>2. wire[j].kind = t /\ wire[j].val = e.val - 1
      BY <3>1 DEF Line
    <3>3. e.val - 1 <= k
      BY <1>5, <3>2
    <3> QED
      BY <1>3, <1>4, <3>3
  <2>2. CASE ~(e.val > 1)
    BY <1>3, <1>4, <2>2
  <2> QED
    BY <2>1, <2>2
<1>9. k < e.val
  <2>1. CASE k = 0
    BY <1>3, <2>1
  <2>2. CASE k # 0
    <3>1. k \in 1..k
      BY <1>4, <2>2
    <3>2. PICK i \in 1..seen : wire[i] = Line(t, 1, k)
      BY <1>5, <3>1
    <3>3. wire[i].kind = t /\ wire[i].build = 1 /\ wire[i].val = k
      BY <3>2 DEF Line
    <3> QED
      BY <1>6, <1>7, <3>3
  <2> QED
    BY <2>1, <2>2
<1>10. e.val = k + 1
  BY <1>3, <1>4, <1>8, <1>9
<1>11. e = Line(t, 1, k + 1)
  BY <1>3, <1>10
<1> HIDE DEF e, t
<1> DEFINE q == shown[t]
           r == Append(q, e)
<1>12. /\ Len(r) = k + 1 /\ DOMAIN r = 1..(k + 1) /\ r[k + 1] = e
       /\ \A n \in 1..k : r[n] = q[n]
  <2>1. q \in Seq(Event) /\ Len(q) = k /\ DOMAIN q = 1..k
    BY <1>4 DEF k
  <2> HIDE DEF q
  <2> QED
    BY <1>2, <2>1, Snoc
<1>13. \A n \in 1..(k + 1) : n \in 1..k \/ n = k + 1
  BY <1>4
<1>14. \A n \in 1..(k + 1) : r[n] = Line(t, 1, n)
  BY <1>5, <1>11, <1>12, <1>13
<1>15. \A n \in 1..(k + 1) : \E i \in 1..(seen + 1) : wire[i] = Line(t, 1, n)
  <2> SUFFICES ASSUME NEW n \in 1..(k + 1)
               PROVE  \E i \in 1..(seen + 1) : wire[i] = Line(t, 1, n)
    OBVIOUS
  <2>1. CASE n \in 1..k
    <3>1. PICK i \in 1..seen : wire[i] = Line(t, 1, n)
      BY <1>5, <2>1
    <3>2. i \in 1..(seen + 1)
      BY <1>2
    <3> QED
      BY <3>1, <3>2
  <2>2. CASE n = k + 1
    <3>1. seen + 1 \in 1..(seen + 1) /\ wire[seen + 1] = Line(t, 1, n)
      BY <1>2, <1>11, <2>2 DEF e
    <3> QED
      BY <3>1
  <2> QED
    BY <1>13, <2>1, <2>2
<1>16. \A i \in 1..(seen + 1) : i \in 1..seen \/ i = seen + 1
  BY <1>2
<1>17. \A i \in 1..(seen + 1) : wire[i].kind = t => wire[i].val <= k + 1
  <2> SUFFICES ASSUME NEW i \in 1..(seen + 1), wire[i].kind = t PROVE wire[i].val <= k + 1
    OBVIOUS
  <2>1. CASE i \in 1..seen
    <3>1. wire[i].val <= k /\ wire[i].val \in Int
      BY <1>2, <1>5, <2>1, ElementIsEvent
    <3> QED
      BY <1>4, <3>1
  <2>2. CASE i = seen + 1
    BY <1>4, <1>10, <2>2 DEF e
  <2> QED
    BY <1>16, <2>1, <2>2
<1>18. /\ shown'[t] = r /\ \A s \in Streams \ {t} : shown'[s] = shown[s]
  BY <1>1, <1>3 DEF WtTypeOK
<1>19. ASSUME NEW s \in Streams \ {t}
       PROVE  /\ \A n \in DOMAIN shown'[s] : shown'[s][n] = Line(s, 1, n)
              /\ \A n \in DOMAIN shown'[s] : \E i \in 1..(seen + 1) : wire[i] = Line(s, 1, n)
              /\ \A i \in 1..(seen + 1) : wire[i].kind = s => wire[i].val <= Len(shown'[s])
  <2>1. /\ \A n \in DOMAIN shown[s] : shown[s][n] = Line(s, 1, n)
        /\ \A n \in DOMAIN shown[s] : \E i \in 1..seen : wire[i] = Line(s, 1, n)
        /\ \A i \in 1..seen : wire[i].kind = s => wire[i].val <= Len(shown[s])
    BY DEF ShownInv
  <2>2. wire[seen + 1].kind # s
    BY DEF t, e
  <2>3. \A i \in 1..seen : i \in 1..(seen + 1)
    BY <1>2
  <2> QED
    BY <1>16, <1>18, <2>1, <2>2, <2>3
<1>20. /\ \A n \in DOMAIN shown'[t] : shown'[t][n] = Line(t, 1, n)
       /\ \A n \in DOMAIN shown'[t] : \E i \in 1..(seen + 1) : wire[i] = Line(t, 1, n)
       /\ \A i \in 1..(seen + 1) : wire[i].kind = t => wire[i].val <= Len(shown'[t])
  BY <1>12, <1>14, <1>15, <1>17, <1>18
<1> QED
  BY <1>2, <1>19, <1>20 DEF ShownInv

(* The other events are no lines.                                          *)
LEMMA OtherShown ==
  ASSUME Inv, ShownInv, PeerReads, wire[seen + 1].kind \notin Streams, UNCHANGED shown
  PROVE  ShownInv'
<1>1. seen \in Nat /\ seen' = seen + 1 /\ wire' = wire
  BY TakenEvent
<1>2. \A i \in 1..(seen + 1) : i \in 1..seen \/ i = seen + 1
  BY <1>1
<1>3. \A i \in 1..seen : i \in 1..(seen + 1)
  BY <1>1
<1> QED
  BY <1>1, <1>2, <1>3 DEF ShownInv

LEMMA WireOk ==
  ASSUME Inv
  PROVE  QueueOk(wire, build, taken)
<1>1. /\ wire \in Seq(Event) /\ pending \in Seq(Event) /\ chan \in Seq(Event)
      /\ build \in Nat /\ taken \in [Streams -> Nat]
      /\ wire \o pending \in Seq(Event)
      /\ QueueOk((wire \o pending) \o chan, build, taken)
  BY QueueTyped DEF Inv, Types, QueueInv, Queue
<1>2. QueueOk(wire \o pending, build, taken)
  BY <1>1, OkPrefix
<1> QED
  BY <1>1, <1>2, OkPrefix

(* The Exit 0 of a success stands behind all its lines, so that all of     *)
(* them have been printed when the client takes it.                        *)
LEMMA AllShown ==
  ASSUME Inv, PromiseInv, WtTypeOK, WireInv, ShownInv, PeerReads,
         wire[seen + 1].kind = "exit", wire[seen + 1].val = 0
  PROVE  Succeeded /\ \A s \in Streams : Len(shown[s]) = good[s]
<1>1. /\ seen \in Nat /\ seen + 1 \in DOMAIN wire /\ wire \in Seq(Event)
      /\ DOMAIN wire = 1..Len(wire) /\ Len(wire) \in Nat
      /\ \A i \in 1..seen : i \in DOMAIN wire
  BY TakenEvent
<1>2. Succeeded /\ wire[seen + 1].build = 1
  BY <1>1 DEF WireInv
<1>3. ASSUME NEW s \in Streams PROVE Len(shown[s]) = good[s]
  <2> DEFINE k == Len(shown[s])
  <2>1. k \in Nat /\ DOMAIN shown[s] = 1..k /\ good[s] \in Nat
    <3>1. shown[s] \in Seq(Event) /\ good[s] \in Nat
      BY DEF WtTypeOK, Types
    <3> QED
      BY <3>1, LenProperties
  <2>2. good[s] <= k
    <3>1. CASE good[s] = 0
      BY <2>1, <3>1
    <3>2. CASE good[s] # 0
      <4>1. good[s] \in 1..good[s]
        BY <2>1, <3>2
      <4>2. PICK j \in DOMAIN wire : wire[j] = Line(s, 1, good[s])
        BY <1>2, <4>1 DEF Succeeded, OnWire
      <4>3. wire[j].kind = s /\ wire[j].build = 1 /\ wire[j].val = good[s]
        BY <4>2 DEF Line
      <4>4. ~(seen + 1 < j)
        <5>1. ExitLast(wire)
          BY InvMeaning DEF ExitClosesBuild
        <5>2. seen + 1 < j => wire[j].build = 0 \/ wire[j].build > 1
          BY <1>1, <1>2, <5>1 DEF ExitLast
        <5> QED
          BY <4>3, <5>2
      <4>5. j # seen + 1
        BY <4>3 DEF Streams
      <4>6. j \in 1..seen
        BY <1>1, <4>4, <4>5
      <4> QED
        BY <4>3, <4>6 DEF ShownInv
    <3> QED
      BY <3>1, <3>2
  <2>3. k <= good[s]
    <3>1. CASE k = 0
      BY <2>1, <3>1
    <3>2. CASE k # 0
      <4>1. k \in DOMAIN shown[s]
        BY <2>1, <3>2
      <4>2. PICK i \in 1..seen : wire[i] = Line(s, 1, k)
        BY <4>1 DEF ShownInv
      <4>3. wire[i].kind = s /\ wire[i].build = 1 /\ wire[i].val = k /\ i \in DOMAIN wire
        BY <1>1, <4>2 DEF Line
      <4>4. QueueOk(wire, build, taken)
        BY WireOk
      <4>5. k <= taken[s]
        BY <1>2, <4>3, <4>4 DEF QueueOk, Succeeded
      <4>6. taken[s] <= good[s] /\ taken[s] \in Nat
        BY DEF PromiseInv, GoodInv, Inv, Types
      <4> QED
        BY <2>1, <4>5, <4>6
    <3> QED
      BY <3>1, <3>2
  <2> QED
    BY <2>1, <2>2, <2>3
<1> QED
  BY <1>2, <1>3

-----------------------------------------------------------------------------
(* Every step of both sides.                                               *)

LEMMA WtStepIsNext == [WtNext]_wtVars => [Next]_vars
  BY ClientIsPeer DEF WtNext, Daemon, AtRest, Next, wtVars

LEMMA NextTyped ==
  ASSUME Inv, WtTypeOK, Types', WtNext
  PROVE  WtTypeOK'
<1>1. CASE Daemon \/ AtRest
  BY <1>1 DEF Daemon, AtRest, WtTypeOK, clientVars
<1>2. CASE Connect \/ SendHello \/ SendBuild \/ HalfClose \/ Close
  BY <1>2 DEF Connect, SendHello, SendBuild, HalfClose, Close, Goto, WtTypeOK
<1>3. CASE ConnectFails \/ GiveUp
  BY <1>3 DEF ConnectFails, GiveUp, StreamBroken, Ends, WtTypeOK
<1>4. CASE NetworkFails \/ TakeAck
  BY <1>4 DEF NetworkFails, TakeAck, WtTypeOK, clientVars
<1>5. CASE TakeError
  BY <1>5 DEF TakeError, Takes, Ends, WtTypeOK
<1>6. CASE TakeExit
  <2>1. PeerReads /\ wire[seen + 1].kind = "exit" /\ client = "stream"
    BY <1>6 DEF TakeExit, Takes
  <2>2. QueueOk(wire, build, taken) /\ seen + 1 \in DOMAIN wire
    BY <2>1, WireOk, TakenEvent
  <2>3. wire[seen + 1].val \in 0..255
    BY <2>1, <2>2 DEF QueueOk
  <2> QED
    BY <1>6, <2>1, <2>3 DEF TakeExit, Ends, WtTypeOK
<1>7. CASE TakeOutput
  <2>1. PeerReads /\ wire[seen + 1].kind \in Streams /\ client = "stream"
    BY <1>7 DEF TakeOutput, Takes
  <2>2. wire[seen + 1] \in Event
    BY <2>1, TakenEvent
  <2>3. shown' \in [Streams -> Seq(Event)]
    BY <1>7, <2>1, <2>2, AppendProperties DEF TakeOutput, WtTypeOK
  <2> QED
    BY <1>7, <2>1, <2>3 DEF TakeOutput, WtTypeOK
<1> QED
  BY <1>1, <1>2, <1>3, <1>4, <1>5, <1>6, <1>7 DEF WtNext, Client

LEMMA NextShown ==
  ASSUME Inv, WtTypeOK, WireInv, ShownInv, [WtNext]_wtVars
  PROVE  ShownInv'
<1>0. Types /\ [Next]_vars
  BY WtStepIsNext DEF Inv
<1>1. CASE Daemon \/ AtRest \/ UNCHANGED wtVars
  <2>1. UNCHANGED <<seen, shown>>
    BY <1>1, DaemonSeen DEF AtRest, Terminated, clientVars, wtVars, vars
  <2> QED
    BY <1>0, <2>1, ShownStays
<1>2. CASE Connect \/ ConnectFails \/ SendHello \/ SendBuild \/ HalfClose \/ GiveUp
             \/ Close \/ NetworkFails
  BY <1>0, <1>2, ClientSeen, ShownStays
<1>3. CASE TakeAck \/ TakeExit \/ TakeError
  BY <1>3, OtherShown DEF TakeAck, TakeExit, TakeError, Takes, Ends, clientVars, Streams
<1> QED
  BY <1>1, <1>2, <1>3, OutputShown DEF WtNext, Client

LEMMA NextZero ==
  ASSUME Inv, PromiseInv, WtTypeOK, OneBuild, WireInv, ShownInv, ZeroInv, [WtNext]_wtVars
  PROVE  ZeroInv'
<1>0. Types /\ [Next]_vars
  BY WtStepIsNext DEF Inv
<1>1. Succeeded => Succeeded' /\ UNCHANGED good
  BY <1>0, SuccessStays
<1>2. ASSUME UNCHANGED <<outcome, code, shown>> \/ outcome' \notin {"exit"} PROVE ZeroInv'
  BY <1>1, <1>2 DEF ZeroInv
<1>3. CASE Daemon \/ AtRest \/ UNCHANGED wtVars
  BY <1>2, <1>3, DaemonSeen DEF AtRest, clientVars, wtVars
<1>4. CASE Connect \/ ConnectFails \/ SendHello \/ SendBuild \/ HalfClose \/ GiveUp
             \/ Close \/ NetworkFails
  BY <1>2, <1>4, ClientSeen
<1>5. CASE TakeAck \/ TakeError
  BY <1>2, <1>5 DEF TakeAck, TakeError, Ends, clientVars
<1>6. CASE TakeOutput
  <2>1. outcome = "none" /\ UNCHANGED outcome
    BY <1>6 DEF TakeOutput, Takes, WtTypeOK
  <2> QED
    BY <1>2, <2>1
<1>7. CASE TakeExit
  <2>1. /\ PeerReads /\ wire[seen + 1].kind = "exit"
        /\ code' = wire[seen + 1].val /\ UNCHANGED shown
    BY <1>7 DEF TakeExit, Takes, Ends
  <2> QED
    BY <1>1, <2>1, AllShown DEF ZeroInv
<1> QED
  BY <1>3, <1>4, <1>5, <1>6, <1>7 DEF WtNext, Client

LEMMA NextOneBuild ==
  ASSUME Types, OneBuild, [WtNext]_wtVars
  PROVE  OneBuild'
<1>1. CASE AtRest \/ UNCHANGED wtVars
  BY <1>1, OneBuildStays DEF AtRest, Terminated, wtVars, vars, clientVars
<1> QED
  BY <1>1, DaemonOneBuild, ClientOneBuild DEF WtNext

LEMMA WtInvInit == WtInit => WtInv
<1> SUFFICES ASSUME WtInit PROVE WtInv
  OBVIOUS
<1>1. Types
  BY InitTypes DEF WtInit
<1>2. /\ inbox = <<>> /\ wire = <<>> /\ seen = 0 /\ build = 0 /\ pc = "Read"
      /\ client = "connect" /\ outcome = "none" /\ code = 0
      /\ \A s \in Streams : shown[s] = <<>>
      /\ shown \in [Streams -> Seq(Event)]
  BY EmptySeq DEF WtInit, Init, Each
<1>3. WtTypeOK
  BY <1>1, <1>2 DEF WtTypeOK
<1>4. OneBuild
  <2>1. Due(inbox) = {}
    BY <1>2 DEF Due
  <2> QED
    BY <1>2, <2>1 DEF OneBuild
<1>5. WireInv /\ ShownInv /\ ZeroInv
  <2>1. 1..0 = {} /\ DOMAIN wire = {} /\ \A s \in Streams : DOMAIN shown[s] = {}
    BY <1>2
  <2> QED
    BY <1>2, <2>1 DEF WireInv, ShownInv, ZeroInv
<1> QED
  BY <1>3, <1>4, <1>5 DEF WtInv

LEMMA WtInvNext ==
  Inv /\ PromiseInv /\ WtInv /\ [WtNext]_wtVars => WtInv'
<1> SUFFICES ASSUME Inv, PromiseInv, WtInv, [WtNext]_wtVars PROVE WtInv'
  OBVIOUS
<1>1. [Next]_vars /\ Types
  BY WtStepIsNext DEF Inv
<1>2. Types'
  BY <1>1, NextTypes
<1>3. WtTypeOK'
  <2>1. CASE UNCHANGED wtVars
    BY <1>2, <2>1 DEF WtInv, WtTypeOK, wtVars, clientVars
  <2> QED
    BY <1>2, <2>1, NextTyped DEF WtInv
<1> QED
  BY <1>1, <1>3, NextOneBuild, NextWire, NextShown, NextZero DEF WtInv

LEMMA WtAlways == WtSpec => []WtInv
  BY WtInvInit, WtInvNext, WtIsSession, PromiseAlways, PTL DEF WtSpec

(* One build over WebTransport: the client asks once, what it has printed  *)
(* is a prefix of each stream, and an Exit 0 stands for a success whose    *)
(* output is on the wire before it.                                        *)
THEOREM WtInductive == WtSpec => []WtInv
  BY WtAlways, PTL

(* The state of run_cargo of the client has its types; it has an outcome   *)
(* exactly from the end of its loop on, and its code fits an ExitCode.     *)
THEOREM WtTyped == WtSpec => []WtTypeOK
<1>1. WtInv => WtTypeOK
  BY DEF WtInv
<1> QED
  BY <1>1, WtAlways, PTL

(* Exit status 0 of rcargo is never made up by a connection that breaks, a *)
(* cargo that is killed, or a stream that ends early: cargo has exited     *)
(* with 0, and what can be forwarded of its output is printed, each stream *)
(* whole and in order.                                                     *)
THEOREM SuccessReal == WtSpec => []SuccessIsReal
<1>1. WtInv => SuccessIsReal
  <2> SUFFICES ASSUME WtInv, ExitStatus = 0
               PROVE  /\ cargo = "exited" /\ status = 0
                      /\ \A s \in Streams : shown[s] = [n \in 1..good[s] |-> Line(s, build, n)]
    BY DEF SuccessIsReal
  <2>1. outcome = "exit" /\ code = 0
    BY DEF ExitStatus
  <2>2. Succeeded /\ \A s \in Streams : Len(shown[s]) = good[s]
    BY <2>1 DEF WtInv, ZeroInv
  <2>3. ASSUME NEW s \in Streams PROVE shown[s] = [n \in 1..good[s] |-> Line(s, build, n)]
    <3>1. shown[s] \in Seq(Event) /\ Len(shown[s]) = good[s]
      BY <2>2 DEF WtInv, WtTypeOK
    <3>2. shown[s] = [n \in 1..good[s] |-> shown[s][n]]
      BY <3>1
    <3>3. DOMAIN shown[s] = 1..good[s]
      BY <3>1, LenProperties
    <3>4. \A n \in 1..good[s] : shown[s][n] = Line(s, build, n)
      BY <2>2, <3>3 DEF WtInv, ShownInv, Succeeded
    <3> QED
      BY <3>2, <3>4
  <2> QED
    BY <2>2, <2>3 DEF Succeeded
<1> QED
  BY <1>1, WtAlways, PTL
=============================================================================
