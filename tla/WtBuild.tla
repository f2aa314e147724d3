------------------------------ MODULE WtBuild ------------------------------
(***************************************************************************)
(* One build over WebTransport: WebTransportTransport::run_cargo of the    *)
(* client (webtransport_stub.rs) as the peer of a rcargod session, over a  *)
(* stream that may be lost at any moment, and what the rcargo process then *)
(* reports to its caller (main of rcargo-cli).                             *)
(*                                                                         *)
(* The client sends Hello and Build, closes its sending half, and reads    *)
(* events until an Exit, an Error, or the end of the stream.               *)
(***************************************************************************)
EXTENDS RcargodSession

ASSUME ClientAssumption ==
  {"hello", "build"} \subseteq Offered /\ MaxRequests >= 2

VARIABLES
  client,   \* where run_cargo of the client is
  outcome,  \* "none", "exit", "refused" (an Error event), "failed"
  code,     \* the exit code of an outcome "exit"
  shown     \* per stream: the output events it has printed, in order

clientVars  == <<client, outcome, code, shown>>
sessionVars == vars
wtVars      == <<vars, clientVars>>

WtInit ==
  /\ Init
  /\ client = "connect" /\ outcome = "none" /\ code = 0 /\ shown = Each(<<>>)

-----------------------------------------------------------------------------
(* The client *)

Goto(step) == client' = step /\ UNCHANGED <<outcome, code, shown>>

Ends(how, c) ==
  /\ client' = "close" /\ outcome' = how /\ code' = c
  /\ UNCHANGED shown

(* connect_dyn and open_bi, which may fail before anything is sent.        *)
Connect ==
  /\ client = "connect"
  /\ Goto("hello")
  /\ UNCHANGED sessionVars

ConnectFails ==
  /\ client = "connect"
  /\ Ends("failed", 0)
  /\ UNCHANGED sessionVars

SendHello == client = "hello" /\ PeerSends("hello") /\ Goto("build")

SendBuild == client = "build" /\ PeerSends("build") /\ Goto("half_close")

(* serve_one meets the end of its input after the one Build.               *)
HalfClose == client = "half_close" /\ PeerLeaves("half") /\ Goto("stream")

(* An event that has arrived; it may still be read after the loss.         *)
Takes(kinds) ==
  client = "stream" /\ PeerReads /\ wire[seen + 1].kind \in kinds

TakeOutput ==
  /\ Takes(Streams)
  /\ LET e == wire[seen + 1]
     IN  shown' = [shown EXCEPT ![e.kind] = Append(@, e)]
  /\ UNCHANGED <<client, outcome, code>>

TakeAck == Takes({"hello_ack"}) /\ UNCHANGED clientVars

TakeExit == Takes({"exit"}) /\ Ends("exit", wire[seen + 1].val)

(* The first Error is the outcome: the Exit behind it is never read.       *)
TakeError == Takes({"error"}) /\ Ends("refused", 0)

(* A write or a read fails, or the stream ends before the Exit.            *)
StreamBroken ==
  \/ client \in {"hello", "build", "half_close", "stream"} /\ peer = "gone"
  \/ client = "stream" /\ pc = "Done" /\ seen = Len(wire)

(* Seeded fault: a stream that ends before the Exit counts as exit code 0. *)
GiveUpAsSuccess ==
  /\ StreamBroken
  /\ Ends("exit", 0)
  /\ UNCHANGED sessionVars

GiveUp ==
  /\ StreamBroken
  /\ Ends("failed", 0)
  /\ UNCHANGED sessionVars

(* conn.close, or the connection is dropped with the failed call.          *)
Close ==
  /\ client = "close"
  /\ Goto("done")
  /\ IF peer = "gone" THEN UNCHANGED sessionVars ELSE PeerLeaves("gone")

(* The connection is lost, or rcargod is stopped under it.                 *)
NetworkFails ==
  /\ client \notin {"connect", "close", "done"}
  /\ PeerLeaves("gone")
  /\ UNCHANGED clientVars

(* What the caller of the rcargo process sees: an outcome that is no code  *)
(* is 1, and so is a code that does not fit the 8 bits of an ExitCode.     *)
ExitStatus ==
  IF outcome = "exit" THEN IF code \in 0..255 THEN code ELSE 1 ELSE 1

-----------------------------------------------------------------------------

Client ==
  \/ Connect \/ ConnectFails \/ SendHello \/ SendBuild \/ HalfClose
  \/ TakeOutput \/ TakeAck \/ TakeExit \/ TakeError \/ GiveUp \/ Close

Daemon ==
  /\ Serve \/ (\E s \in Streams : Task(s)) \/ WaitReaps \/ Cargo
  /\ UNCHANGED clientVars

AtRest == client = "done" /\ Terminated /\ UNCHANGED clientVars

WtNext == Client \/ NetworkFails \/ Daemon \/ AtRest

WtSpec == WtInit /\ [][WtNext]_wtVars

(* The runtimes of both processes schedule their tasks; the network and a  *)
(* background process owe nothing.                                         *)
WtFairSpec ==
  /\ WtSpec
  /\ WF_wtVars(Client)
  /\ WF_wtVars(Serve /\ UNCHANGED clientVars)
  /\ WF_wtVars(WaitReaps /\ UNCHANGED clientVars)
  /\ \A s \in Streams : /\ WF_wtVars(Task(s) /\ UNCHANGED clientVars)
                        /\ WF_wtVars(CargoWrites(s) /\ UNCHANGED clientVars)
  /\ WF_wtVars((\E c \in ExitCodes : CargoExits(c)) /\ UNCHANGED clientVars)

-----------------------------------------------------------------------------
(* Properties *)

WtTypeOK ==
  /\ Types
  /\ client \in {"connect", "hello", "build", "half_close", "stream", "close", "done"}
  /\ outcome \in {"none", "exit", "refused", "failed"}
  /\ code \in 0..255
  /\ shown \in [Streams -> Seq(Event)]
  /\ outcome = "none" <=> client \notin {"close", "done"}

(* rcargo reports success only if cargo exited with code 0, and then it    *)
(* has printed every line that the readers of the daemon could forward,    *)
(* each stream in order: no loss of the connection, no kill of cargo and   *)
(* no early end of a stream can look like a success.                       *)
SuccessIsReal ==
  client = "done" /\ ExitStatus = 0 =>
    /\ cargo = "exited" /\ status = 0
    /\ \A s \in Streams :
         shown[s] = [n \in 1..good[s] |-> Line(s, build, n)]

(* The exit code of the remote build reaches the user: if the stream       *)
(* carries an Exit and was not lost, its code is what rcargo returns.  The *)
(* client does not keep this: it ends at the Error that rcargod sends      *)
(* before the Exit of a build it cannot start.                             *)
ExitCodeReachesUser ==
  client = "done" /\ outcome # "failed" =>
    \A i \in DOMAIN wire : wire[i].kind = "exit" => ExitStatus = wire[i].val

(* Once it is connected the client comes to an outcome, unless a process   *)
(* that outlives cargo keeps its pipes for ever: the Exit waits for their  *)
(* end, and nothing in the client bounds its own wait for the Exit.        *)
ClientAnswers == BackgroundDies => (client = "hello" ~> client = "done")

(* When the client is done, its session on the daemon ends as well, also   *)
(* when the client gave up in the middle of a build.  The session learns   *)
(* of the loss only when it writes: with the pipes held and nothing to     *)
(* forward it would wait in rx.recv() for ever, hence the premise.         *)
SessionFollowsClient == BackgroundDies => (client = "done" ~> pc = "Done")
-----------------------------------------------------------------------------
(* The inductive invariant that SuccessIsReal rests on, besides those of   *)
(* the session.                                                            *)

Due(q) == {i \in DOMAIN q : q[i] = "build"}

(* The client asks for one build, and the daemon takes it up once.         *)
OneBuild ==
  /\ build \in {0, 1}
  /\ build = 1 => Due(inbox) = {}
  /\ \A i, j \in Due(inbox) : i = j
  /\ client \in {"connect", "hello", "build"} => build = 0 /\ Due(inbox) = {}
  /\ pc \in {"Drain", "Refuse", "Report"} => build = 1

(* cargo has ended with code 0, and all that can be forwarded is sent.     *)
Succeeded ==
  /\ build = 1 /\ cargo = "exited" /\ status = 0
  /\ \A s \in Streams : /\ reader[s] # "reading"
                        /\ \A n \in 1..good[s] : OnWire(Line(s, 1, n))

(* Output and Exit on the wire belong to that build; Exit 0 tells success. *)
WireInv ==
  \A i \in DOMAIN wire :
    /\ wire[i].kind \in Streams => wire[i].build = 1 /\ wire[i].val > 0
    /\ wire[i].kind = "exit" => wire[i].build = 1
    /\ wire[i].kind = "exit" /\ wire[i].val = 0 => Succeeded

(* What is printed of a stream is its lines from the first on, and all     *)
(* that the client has taken from the wire.                                *)
ShownInv ==
  \A s \in Streams :
    /\ \A n \in DOMAIN shown[s] : shown[s][n] = Line(s, 1, n)
    /\ \A n \in DOMAIN shown[s] : \E i \in 1..seen : wire[i] = Line(s, 1, n)
    /\ \A i \in 1..seen : wire[i].kind = s => wire[i].val <= Len(shown[s])

(* An outcome 0 was the Exit of a build that succeeded, all of it printed. *)
ZeroInv ==
  outcome = "exit" /\ code = 0 =>
    Succeeded /\ \A s \in Streams : Len(shown[s]) = good[s]

WtInv == WtTypeOK /\ OneBuild /\ WireInv /\ ShownInv /\ ZeroInv
=============================================================================
