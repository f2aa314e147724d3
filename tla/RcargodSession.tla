--------------------------- MODULE RcargodSession ---------------------------
(***************************************************************************)
(* One session of rcargod: serve_one reads request lines and writes event  *)
(* lines; for a Build it runs run_cargo, which starts cargo and three      *)
(* tasks (a reader of each pipe, and one that waits for the child) that    *)
(* feed an unbounded channel.  The session alone writes to the peer, so a  *)
(* line of one event is never cut by another.                              *)
(*                                                                         *)
(* Around it: a peer that sends, reads at its own pace, closes its sending *)
(* half or is lost; cargo with its two pipes; and a background process     *)
(* that cargo may leave behind, which inherits the pipes.                  *)
(***************************************************************************)
EXTENDS RcargoProto, Sequences

CONSTANTS
  Offered,      \* kinds of request lines the peer may send
  MaxRequests,  \* bound: request lines the peer sends
  MaxLines,     \* bound: lines a build writes on each pipe
  PipeCap,      \* lines a pipe holds before a write blocks
  SockCap,      \* events the transport holds before emit blocks
  ExitCodes,    \* codes cargo exits with when no signal ends it
  Stdio,        \* TRUE: --stdio, the process ends with its session
  Background,   \* TRUE: cargo may leave a process behind on its pipes
  Binary        \* TRUE: a line of output may be no UTF-8

ASSUME ConstantsAssumption ==
  /\ Offered \subseteq Requests
  /\ MaxRequests \in Nat /\ MaxLines \in Nat
  /\ PipeCap \in Nat \ {0} /\ SockCap \in Nat \ {0}
  /\ ExitCodes \subseteq 0..255
  /\ Stdio \in BOOLEAN /\ Background \in BOOLEAN /\ Binary \in BOOLEAN

VARIABLES
  peer,     \* "open", "half" (sends no more), "gone" (connection lost)
  asked,    \* request lines sent so far
  inbox,    \* request lines not yet read by serve_one
  wire,     \* every event written to the peer, in order
  seen,     \* how many of them the peer has taken
  pc,       \* where serve_one is
  pending,  \* events it has to write before it goes on
  build,    \* Build requests taken up so far
  cargo,    \* "none", "running", "exited"
  status,   \* how the latest cargo ended
  want,     \* per pipe: a process of the build is inside a write on it
  held,     \* a background process still holds the pipes
  written,  \* per pipe: lines of the current build written so far
  good,     \* per pipe: those before the first that is no UTF-8
  pipe,     \* per pipe: lines written and not yet read
  reader,   \* out_task and err_task: "idle", "reading", "stopped"
  waiter,   \* wait_task: "idle", "waiting", "done"
  taken,    \* per pipe: lines its reader has sent to the channel
  chan      \* the channel of run_cargo

peerVars  == <<peer, asked, seen>>
cargoVars == <<cargo, status, want, held, written, good>>
taskVars  == <<reader, waiter, taken>>
vars == <<peer, asked, inbox, wire, seen, pc, pending, build, cargo, status,
          want, held, written, good, pipe, reader, waiter, taken, chan>>

Each(x) == [s \in Streams |-> x]

Init ==
  /\ peer = "open" /\ asked = 0 /\ inbox = <<>> /\ seen = 0
  /\ wire = <<>> /\ pc = "Read" /\ pending = <<>> /\ build = 0
  /\ cargo = "none" /\ status = Killed /\ want = Each(FALSE) /\ held = FALSE
  /\ written = Each(0) /\ good = Each(0) /\ pipe = Each(<<>>)
  /\ reader = Each("idle") /\ waiter = "idle" /\ taken = Each(0)
  /\ chan = <<>>

-----------------------------------------------------------------------------
(* The peer *)

PeerSends(r) ==
  /\ peer = "open" /\ pc # "Done" /\ asked < MaxRequests
  /\ asked' = asked + 1
  /\ inbox' = Append(inbox, r)
  /\ UNCHANGED <<peer, seen, wire, pc, pending, build, pipe, chan>>
  /\ UNCHANGED <<cargoVars, taskVars>>

(* What has arrived before the connection is lost may still be taken.      *)
PeerReads ==
  /\ seen < Len(wire)
  /\ seen' = seen + 1
  /\ UNCHANGED <<peer, asked, inbox, wire, pc, pending, build, pipe, chan>>
  /\ UNCHANGED <<cargoVars, taskVars>>

PeerLeaves(how) ==
  /\ peer # "gone" /\ peer # how
  /\ peer' = how
  /\ UNCHANGED <<asked, inbox, seen, wire, pc, pending, build, pipe, chan>>
  /\ UNCHANGED <<cargoVars, taskVars>>

-----------------------------------------------------------------------------
(* serve_one *)

(* serve_one returns.  The receiver of a running build is dropped with it; *)
(* its tasks go on, unless the process ends too and takes them down.       *)
EndSession ==
  /\ pc' = "Done" /\ pending' = <<>> /\ chan' = <<>>
  /\ IF Stdio
     THEN /\ reader' = [s \in Streams |->
                          IF reader[s] = "reading" THEN "stopped" ELSE reader[s]]
          /\ waiter' = IF waiter = "waiting" THEN "done" ELSE waiter
          /\ pipe' = Each(<<>>)
     ELSE UNCHANGED <<reader, waiter, pipe>>
  /\ UNCHANGED <<wire, build, taken, cargoVars>>

NextLine(r) ==
  /\ pc = "Read" /\ pending = <<>> /\ inbox # <<>> /\ Head(inbox) = r
  /\ inbox' = Tail(inbox)
  /\ UNCHANGED <<peerVars, wire>>

Answer(r) ==
  /\ NextLine(r)
  /\ pending' = CASE r = "hello"   -> <<HelloAck>>
                  [] r = "garbage" -> <<Error(0)>>
                  [] OTHER         -> <<>>
  /\ UNCHANGED <<pc, build, pipe, chan, cargoVars, taskVars>>

(* Bye ends the session, and so does a line that is no UTF-8.              *)
Hangup(r) == NextLine(r) /\ EndSession

(* Seeded fault: end of file on the request stream goes unnoticed.         *)
EndOfInputIfGone ==
  /\ pc = "Read" /\ pending = <<>> /\ peer = "gone"
  /\ EndSession
  /\ UNCHANGED <<peerVars, inbox>>

(* The peer closed its half, or reading fails because it is lost.          *)
EndOfInput ==
  /\ pc = "Read" /\ pending = <<>>
  /\ \/ peer = "half" /\ inbox = <<>>
     \/ peer = "gone"
  /\ EndSession
  /\ UNCHANGED <<peerVars, inbox>>

(* Seeded fault: the Exit goes out before the Error it belongs to.         *)
RefuseBuildExitFirst(c) ==
  /\ NextLine("build")
  /\ build' = build + 1
  /\ pc' = "Refuse"
  /\ pending' = <<Exit(build', c), Error(build')>>
  /\ UNCHANGED <<pipe, chan, cargoVars, taskVars>>

(* create_dir_all fails (code 1) or cargo cannot be spawned (code 127).    *)
RefuseBuild(c) ==
  /\ NextLine("build")
  /\ build' = build + 1
  /\ pc' = "Refuse"
  /\ pending' = <<Error(build'), Exit(build', c)>>
  /\ UNCHANGED <<pipe, chan, cargoVars, taskVars>>

StartBuild ==
  /\ NextLine("build")
  /\ build' = build + 1
  /\ pc' = "Drain"
  /\ cargo' = "running" /\ want' = Each(FALSE) /\ held' = FALSE
  /\ written' = Each(0) /\ good' = Each(0) /\ pipe' = Each(<<>>)
  /\ reader' = Each("reading") /\ waiter' = "waiting" /\ taken' = Each(0)
  /\ chan' = <<>>
  /\ UNCHANGED <<pending, status>>

(* Seeded fault: the newest event is taken from the channel first.         *)
RecvNewest ==
  /\ pc = "Drain" /\ pending = <<>> /\ chan # <<>>
  /\ pending' = <<chan[Len(chan)]>>
  /\ chan' = SubSeq(chan, 1, Len(chan) - 1)
  /\ UNCHANGED <<inbox, wire, pc, build, pipe, peerVars, cargoVars, taskVars>>

(* rx.recv() yields the oldest event, which is then written.               *)
Recv ==
  /\ pc = "Drain" /\ pending = <<>> /\ chan # <<>>
  /\ pending' = <<Head(chan)>>
  /\ chan' = Tail(chan)
  /\ UNCHANGED <<inbox, wire, pc, build, pipe, peerVars, cargoVars, taskVars>>

(* Seeded faults: the session does not wait for the child; it does not     *)
(* wait for its readers; it keeps a sender of its own.                     *)
SendersGoneNoWait == \A s \in Streams : reader[s] = "stopped"

SendersGoneNoReaders == waiter = "done"

SendersGoneNever == waiter = "done" /\ pc # "Drain"

(* Every clone of the sender is dropped: rx.recv() yields None.            *)
SendersGone == waiter = "done" /\ \A s \in Streams : reader[s] = "stopped"

FinishBuild ==
  /\ pc = "Drain" /\ pending = <<>> /\ chan = <<>> /\ SendersGone
  /\ pc' = "Report"
  /\ pending' = <<Exit(build, CodeOf(status))>>
  /\ UNCHANGED <<inbox, wire, build, pipe, chan, peerVars, cargoVars, taskVars>>

(* emit writes one whole line and flushes; it waits for room.              *)
Emit ==
  /\ pending # <<>> /\ Len(wire) - seen < SockCap
  /\ wire' = Append(wire, Head(pending))
  /\ pending' = Tail(pending)
  /\ pc' = IF pc \in {"Refuse", "Report"} /\ Tail(pending) = <<>>
           THEN "Read" ELSE pc
  /\ UNCHANGED <<inbox, build, pipe, chan, peerVars, cargoVars, taskVars>>

EmitFails ==
  /\ pending # <<>> /\ peer = "gone"
  /\ EndSession
  /\ UNCHANGED <<peerVars, inbox>>

-----------------------------------------------------------------------------
(* The tasks of run_cargo *)

(* Seeded fault: a bounded channel, so that a slow peer holds up a reader. *)
ReadLineBounded(s) ==
  /\ reader[s] = "reading" /\ pipe[s] # <<>> /\ Head(pipe[s]).utf8
  /\ pc # "Done" => Len(chan) < SockCap
  /\ pipe' = [pipe EXCEPT ![s] = Tail(@)]
  /\ taken' = [taken EXCEPT ![s] = @ + 1]
  /\ chan' = IF pc = "Done" THEN chan
             ELSE Append(chan, Line(s, build, Head(pipe[s]).n))
  /\ UNCHANGED <<inbox, wire, pc, pending, build, reader, waiter>>
  /\ UNCHANGED <<peerVars, cargoVars>>

(* A send after the receiver is gone fails, which the task ignores.        *)
ReadLine(s) ==
  /\ reader[s] = "reading" /\ pipe[s] # <<>> /\ Head(pipe[s]).utf8
  /\ pipe' = [pipe EXCEPT ![s] = Tail(@)]
  /\ taken' = [taken EXCEPT ![s] = @ + 1]
  /\ chan' = IF pc = "Done" THEN chan
             ELSE Append(chan, Line(s, build, Head(pipe[s]).n))
  /\ UNCHANGED <<inbox, wire, pc, pending, build, reader, waiter>>
  /\ UNCHANGED <<peerVars, cargoVars>>

(* End of file, or a line that is no UTF-8: the task ends, and drops its   *)
(* end of the pipe with whatever is still in it.                           *)
ReaderStops(s) ==
  /\ reader[s] = "reading"
  /\ IF pipe[s] = <<>> THEN cargo = "exited" /\ ~held
                       ELSE ~Head(pipe[s]).utf8
  /\ reader' = [reader EXCEPT ![s] = "stopped"]
  /\ pipe' = [pipe EXCEPT ![s] = <<>>]
  /\ UNCHANGED <<inbox, wire, pc, pending, build, waiter, taken, chan>>
  /\ UNCHANGED <<peerVars, cargoVars>>

WaitReaps ==
  /\ waiter = "waiting" /\ cargo = "exited"
  /\ waiter' = "done"
  /\ UNCHANGED <<inbox, wire, pc, pending, build, pipe, reader, taken, chan>>
  /\ UNCHANGED <<peerVars, cargoVars>>

-----------------------------------------------------------------------------
(* cargo, and the process it may leave behind *)

(* A line reaches the pipe, unless nobody reads that pipe any more.        *)
Write(s, utf8) ==
  /\ written[s] < MaxLines
  /\ reader[s] = "reading" => Len(pipe[s]) < PipeCap
  /\ written' = [written EXCEPT ![s] = @ + 1]
  /\ IF reader[s] = "reading"
     THEN /\ pipe' = [pipe EXCEPT ![s] =
                        Append(@, [n |-> written[s] + 1, utf8 |-> utf8])]
          /\ good' = IF utf8 /\ good[s] = written[s]
                     THEN [good EXCEPT ![s] = @ + 1] ELSE good
     ELSE UNCHANGED <<pipe, good>>

Encodings == IF Binary THEN BOOLEAN ELSE {TRUE}

CargoWants(s) ==
  /\ cargo = "running" /\ ~want[s] /\ written[s] < MaxLines
  /\ want' = [want EXCEPT ![s] = TRUE]
  /\ UNCHANGED <<inbox, wire, pc, pending, build, cargo, status, held, written>>
  /\ UNCHANGED <<good, pipe, chan, peerVars, taskVars>>

CargoWrites(s) ==
  /\ cargo = "running" /\ want[s]
  /\ \E utf8 \in Encodings : Write(s, utf8)
  /\ want' = [want EXCEPT ![s] = FALSE]
  /\ UNCHANGED <<inbox, wire, pc, pending, build, cargo, status, held, chan>>
  /\ UNCHANGED <<peerVars, taskVars>>

(* cargo leaves by itself only when it is not stuck in a write; a signal   *)
(* ends it anywhere.                                                       *)
CargoExits(c) ==
  /\ cargo = "running"
  /\ c = Killed \/ want = Each(FALSE)
  /\ cargo' = "exited"
  /\ status' = c
  /\ want' = Each(FALSE)
  /\ held' \in IF Background THEN BOOLEAN ELSE {FALSE}
  /\ UNCHANGED <<inbox, wire, pc, pending, build, written, good, pipe, chan>>
  /\ UNCHANGED <<peerVars, taskVars>>

BackgroundWrites(s) ==
  /\ held
  /\ \E utf8 \in Encodings : Write(s, utf8)
  /\ UNCHANGED <<inbox, wire, pc, pending, build, cargo, status, want, held>>
  /\ UNCHANGED <<chan, peerVars, taskVars>>

BackgroundEnds ==
  /\ held
  /\ held' = FALSE
  /\ UNCHANGED <<inbox, wire, pc, pending, build, cargo, status, want, written>>
  /\ UNCHANGED <<good, pipe, chan, peerVars, taskVars>>

-----------------------------------------------------------------------------

Peer == PeerReads \/ (\E r \in Offered : PeerSends(r))
        \/ (\E how \in {"half", "gone"} : PeerLeaves(how))

Serve ==
  \/ \E r \in {"blank", "hello", "garbage"} : Answer(r)
  \/ \E r \in {"bye", "binary"} : Hangup(r)
  \/ EndOfInput
  \/ (\E c \in {1, 127} : RefuseBuild(c)) \/ StartBuild
  \/ Recv \/ FinishBuild \/ Emit \/ EmitFails

Task(s) == ReadLine(s) \/ ReaderStops(s)

Cargo ==
  \/ \E s \in Streams : CargoWants(s) \/ CargoWrites(s) \/ BackgroundWrites(s)
  \/ \E c \in ExitCodes \cup {Killed} : CargoExits(c)
  \/ BackgroundEnds

(* The session is over and what it started has come to rest.               *)
Terminated ==
  /\ pc = "Done" /\ cargo # "running" /\ ~held /\ waiter # "waiting"
  /\ \A s \in Streams : reader[s] # "reading"
  /\ UNCHANGED vars

Next == Peer \/ Serve \/ (\E s \in Streams : Task(s)) \/ WaitReaps \/ Cargo
        \/ Terminated

Spec == Init /\ [][Next]_vars

(* What the tokio runtime and the operating system schedule: the session,  *)
(* the three tasks, a write that the pipe has room for, and a build that   *)
(* comes to its end.  The peer and a background process owe nothing.       *)
Fairness ==
  /\ WF_vars(Serve) /\ WF_vars(WaitReaps)
  /\ \A s \in Streams : WF_vars(Task(s)) /\ WF_vars(CargoWrites(s))
  /\ WF_vars(\E c \in ExitCodes : CargoExits(c))

FairSpec == Spec /\ Fairness

(* A peer that keeps reading, as the clients of this repository do until   *)
(* they have seen the Exit, and a background process that ends some time.  *)
GoodPeer       == WF_vars(PeerReads)
BackgroundDies == WF_vars(BackgroundEnds)

-----------------------------------------------------------------------------
(* Properties *)

Status == ExitCodes \cup {Killed}

(* What a pipe holds.                                                      *)
Entry == [n : Nat, utf8 : BOOLEAN]

Types ==
  /\ peer \in {"open", "half", "gone"} /\ asked \in Nat /\ seen \in 0..Len(wire)
  /\ inbox \in Seq(Requests) /\ wire \in Seq(Event) /\ pending \in Seq(Event)
  /\ pc \in {"Read", "Drain", "Report", "Refuse", "Done"} /\ build \in Nat
  /\ cargo \in {"none", "running", "exited"} /\ status \in Status
  /\ want \in [Streams -> BOOLEAN] /\ held \in BOOLEAN
  /\ written \in [Streams -> Nat] /\ good \in [Streams -> Nat]
  /\ taken \in [Streams -> Nat]
  /\ pipe \in [Streams -> Seq(Entry)]
  /\ reader \in [Streams -> {"idle", "reading", "stopped"}]
  /\ waiter \in {"idle", "waiting", "done"}
  /\ chan \in Seq(Event)

(* The state has its types, and an Exit carries what an i32 exit status of *)
(* a process can be: 255 stands for the child that a signal ended.         *)
TypeOK ==
  /\ Types
  /\ \A i \in DOMAIN wire : wire[i].kind = "exit" => wire[i].val \in 0..255

OnWire(e) == \E i \in DOMAIN wire : wire[i] = e

(* Each stream of a build reaches the wire in the order cargo wrote it,    *)
(* with nothing skipped, although three tasks and a channel lie between.   *)
StreamInOrder(q) ==
  \A i \in DOMAIN q : q[i].kind \in Streams =>
    /\ \A j \in 1..(i - 1) : q[j].kind = q[i].kind /\ q[j].build = q[i].build
                             => q[j].val < q[i].val
    /\ q[i].val > 1 => \E j \in 1..(i - 1) :
                         q[j] = Line(q[i].kind, q[i].build, q[i].val - 1)

WireInOrder == StreamInOrder(wire)

(* "Process exited; stream is over": nothing of a build, nor of an earlier *)
(* one, follows its Exit on the wire.                                      *)
ExitLast(q) ==
  \A i, j \in DOMAIN q :
    i < j /\ q[i].kind = "exit" => q[j].build = 0 \/ q[j].build > q[i].build

ExitClosesBuild == ExitLast(wire)

(* A session takes up a Build only when the cargo and the tasks of its     *)
(* previous one are at rest: serve_one runs builds one after another.      *)
BuildsDoNotOverlap ==
  [][build' # build =>
       /\ cargo # "running" /\ waiter # "waiting"
       /\ \A s \in Streams : reader[s] # "reading"]_vars

(* When a build reports its Exit, every line that cargo wrote has gone     *)
(* out.  The code does not keep this: a reader ends at the first line that *)
(* is no UTF-8 (while let Ok(Some(line))), and the rest is lost.           *)
NoOutputLost ==
  pc = "Report" =>
    \A s \in Streams : \A n \in 1..written[s] : OnWire(Line(s, build, n))

(* BuildStream is what the session promises; the lines it may forward are  *)
(* those before the first that is no UTF-8.                                *)
Phase ==
  CASE pc = "Read"                -> "idle"
    [] pc = "Refuse"              -> IF Len(pending) = 2 THEN "refusing" ELSE "refused"
    [] pc \in {"Drain", "Report"} -> "building"
    [] OTHER                      -> "over"

Promise == INSTANCE BuildStream WITH phase <- Phase, out <- good

(* Whatever the tasks do, the session as its client sees it only ever does *)
(* what BuildStream allows: the Exit comes after the last line, with the   *)
(* status of this cargo.                                                   *)
KeepsPromise == Promise!Spec

(* A running cargo is never stuck for good in a write on its pipes, not    *)
(* even when the peer has stopped reading or the session has ended.        *)
CargoNeverStalls == cargo = "running" ~> cargo = "exited"

(* A build that was started is reported, or its session ends, if the peer  *)
(* goes on reading and nothing holds cargo's pipes for ever: the Exit      *)
(* waits for the end of both pipes, not only for the end of cargo.         *)
BuildFinishes == GoodPeer /\ BackgroundDies => (pc = "Drain" ~> pc # "Drain")

(* A peer that closes its sending half, or is lost, ends its session: the  *)
(* requests already sent are served first, then serve_one returns.  It     *)
(* may be busy with a build, hence the premises.                           *)
HangupEndsSession == GoodPeer /\ BackgroundDies => (peer # "open" ~> pc = "Done")
-----------------------------------------------------------------------------
(* The inductive invariant that the safety properties rest on.             *)

(* What serve_one has committed itself to write, oldest first.             *)
Queue == (wire \o pending) \o chan

(* A queue is in order from end to end, and what it holds of build b does  *)
(* not run ahead of the t[s] lines that the readers took.                  *)
QueueOk(q, b, t) ==
  /\ StreamInOrder(q) /\ ExitLast(q)
  /\ \A i \in DOMAIN q :
       /\ q[i].build <= b
       /\ q[i].kind = "exit" => q[i].val \in 0..255
       /\ q[i].kind \in Streams /\ q[i].build = b => q[i].val <= t[q[i].kind]

(* While b is drained its Exit is not in sight, and no line taken is lost. *)
DrainOk(q, b, t) ==
  /\ \A i \in DOMAIN q : q[i].kind = "exit" => q[i].build < b
  /\ \A s \in Streams : \A n \in 1..t[s] :
       \E i \in DOMAIN q : q[i] = Line(s, b, n)

QueueInv ==
  /\ QueueOk(Queue, build, taken)
  /\ pc = "Drain" => DrainOk(Queue, build, taken)

(* A pipe holds the lines after the last one taken, numbered without gaps. *)
PipeInv ==
  \A s \in Streams : reader[s] = "reading" =>
    /\ Len(pipe[s]) = written[s] - taken[s]
    /\ \A i \in DOMAIN pipe[s] : pipe[s][i].n = taken[s] + i

(* Which of cargo, the tasks and the channel may be alive where serve_one  *)
(* stands.                                                                 *)
PhaseInv ==
  /\ pc # "Drain" => chan = <<>>
  /\ \A s \in Streams : reader[s] = "reading" => pc \in {"Drain", "Done"}
  /\ pc = "Drain" /\ waiter = "done" => cargo # "running"
  /\ pc \in {"Read", "Refuse", "Report"} =>
       cargo # "running" /\ waiter # "waiting"

(* Wire, pending events and channel are one ordered queue without gaps,    *)
(* the pipes continue it, and what is alive fits where serve_one stands.   *)
IInv == TypeOK /\ QueueInv /\ PipeInv /\ PhaseInv

-----------------------------------------------------------------------------
(* What the refinement of BuildStream needs besides.                       *)

(* One of the t[s] lines that the readers took of build b.                 *)
TakenLine(e, b, t) == \E s \in Streams : \E n \in 1..t[s] : e = Line(s, b, n)

(* What serve_one is about to write, and may be about to write next.       *)
PendingInv ==
  /\ pc = "Read" => pending \in {<<>>, <<HelloAck>>, <<Error(0)>>}
  /\ pc = "Refuse" => \E c \in {1, 127} :
       pending \in {<<Error(build), Exit(build, c)>>, <<Exit(build, c)>>}
  /\ pc = "Drain" /\ pending # <<>> =>
       Tail(pending) = <<>> /\ TakenLine(Head(pending), build, taken)
  /\ pc = "Report" => pending = <<Exit(build, CodeOf(status))>>
  /\ pc = "Done" => pending = <<>>
  /\ \A i \in DOMAIN chan : TakenLine(chan[i], build, taken)

(* A reader takes exactly the lines before the first that is no UTF-8.     *)
GoodInv ==
  \A s \in Streams :
    /\ taken[s] <= good[s] /\ good[s] <= written[s]
    /\ reader[s] = "reading" =>
         /\ \A i \in 1..(good[s] - taken[s]) : pipe[s][i].utf8
         /\ good[s] < written[s] => ~pipe[s][good[s] - taken[s] + 1].utf8
    /\ reader[s] # "reading" /\ pc # "Done" => good[s] = taken[s]

(* The Exit is due when cargo has ended and every such line has gone out.  *)
ReportInv ==
  /\ pc \in {"Drain", "Report"} => cargo # "none"
  /\ pc = "Report" => \A s \in Streams : \A n \in 1..good[s] : OnWire(Line(s, build, n))

PromiseInv == PendingInv /\ GoodInv /\ ReportInv
=============================================================================
