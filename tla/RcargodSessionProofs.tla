------------------------ MODULE RcargodSessionProofs ------------------------
(***************************************************************************)
(* Proofs about one rcargod session, for any number of requests, lines,    *)
(* and any capacity of the pipes and the transport.                        *)
(***************************************************************************)
EXTENDS RcargodSession, SequenceTheorems, TLAPS

-----------------------------------------------------------------------------
(* The events, and a code that reports a status.                           *)

LEMMA EventsTyped ==
  /\ HelloAck \in Event
  /\ \A b \in Nat : Error(b) \in Event
  /\ \A b \in Nat, c \in Int : Exit(b, c) \in Event
  /\ \A s \in Streams, b \in Nat, n \in Nat : Line(s, b, n) \in Event
  BY DEF Line, Exit, Error, HelloAck, Event, EventKinds

LEMMA CodeInRange ==
  ASSUME NEW st \in Status
  PROVE  CodeOf(st) \in 0..255
  BY ConstantsAssumption DEF ConstantsAssumption, Status, CodeOf, Killed

(* Head and Tail of a sequence that is not empty; appending to one.        *)
LEMMA Uncons ==
  ASSUME NEW S, NEW q \in Seq(S), q # <<>>
  PROVE  /\ Head(q) \in S /\ Head(q) = q[1] /\ 1 \in DOMAIN q
         /\ Tail(q) \in Seq(S) /\ Len(Tail(q)) = Len(q) - 1
         /\ \A i \in DOMAIN Tail(q) : i + 1 \in DOMAIN q /\ Tail(q)[i] = q[i + 1]
  BY HeadTailProperties, LenProperties, EmptySeq

LEMMA Snoc ==
  ASSUME NEW S, NEW q \in Seq(S), NEW e \in S
  PROVE  /\ Append(q, e) \in Seq(S) /\ Len(Append(q, e)) = Len(q) + 1
         /\ DOMAIN Append(q, e) = 1..(Len(q) + 1)
         /\ Append(q, e)[Len(q) + 1] = e
         /\ \A i \in DOMAIN q : i \in 1..Len(q) /\ Append(q, e)[i] = q[i]
  BY LenProperties, AppendProperties

-----------------------------------------------------------------------------
(* Types.                                                                  *)

USE DEF Each

LEMMA InitTypes == Init => Types
<1> SUFFICES ASSUME Init PROVE Types
  OBVIOUS
<1>1. /\ inbox \in Seq(Requests) /\ wire \in Seq(Event) /\ pending \in Seq(Event)
      /\ chan \in Seq(Event) /\ pipe \in [Streams -> Seq(Entry)]
      /\ seen \in 0..Len(wire)
  BY EmptySeq DEF Init
<1> QED
  BY <1>1 DEF Init, Types, Status

LEMMA PeerTypes == Types /\ Peer => Types'
<1> SUFFICES ASSUME Types, Peer PROVE Types'
  OBVIOUS
<1>1. CASE PeerReads
  BY <1>1, LenProperties DEF PeerReads, Types, cargoVars, taskVars
<1>2. CASE \E r \in Offered : PeerSends(r)
  <2> PICK r \in Offered : PeerSends(r)
    BY <1>2
  <2>1. inbox' \in Seq(Requests)
    BY ConstantsAssumption DEF PeerSends, Types, ConstantsAssumption
  <2> QED
    BY <2>1 DEF PeerSends, Types, cargoVars, taskVars
<1>3. CASE \E how \in {"half", "gone"} : PeerLeaves(how)
  BY <1>3 DEF PeerLeaves, Types, cargoVars, taskVars
<1> QED
  BY <1>1, <1>2, <1>3 DEF Peer

LEMMA EndSessionTypes ==
  ASSUME Types, EndSession, UNCHANGED <<peerVars>>, inbox' \in Seq(Requests)
  PROVE  Types'
<1>1. reader' \in [Streams -> {"idle", "reading", "stopped"}]
      /\ waiter' \in {"idle", "waiting", "done"}
  BY DEF EndSession, Types
<1>2. pipe' \in [Streams -> Seq(Entry)]
  BY EmptySeq DEF EndSession, Types
<1>3. pending' \in Seq(Event) /\ chan' \in Seq(Event)
  BY EmptySeq DEF EndSession
<1> QED
  BY <1>1, <1>2, <1>3 DEF EndSession, Types, peerVars, cargoVars

LEMMA NextLineTypes ==
  ASSUME Types, NEW r, NextLine(r)
  PROVE  inbox' \in Seq(Requests)
  BY Uncons DEF Types, NextLine

LEMMA ServeTypes == Types /\ Serve => Types'
<1> SUFFICES ASSUME Types, Serve PROVE Types'
  OBVIOUS
<1>0. build + 1 \in Nat
  BY DEF Types
<1>1. CASE \E r \in {"blank", "hello", "garbage"} : Answer(r)
  <2> PICK r \in {"blank", "hello", "garbage"} : Answer(r)
    BY <1>1
  <2>1. inbox' \in Seq(Requests)
    BY NextLineTypes DEF Answer
  <2>2. pending' \in Seq(Event)
    BY EventsTyped, EmptySeq DEF Answer
  <2> QED
    BY <2>1, <2>2 DEF Answer, NextLine, Types, peerVars, cargoVars, taskVars
<1>2. CASE \E r \in {"bye", "binary"} : Hangup(r)
  BY <1>2, NextLineTypes, EndSessionTypes DEF Hangup, NextLine
<1>3. CASE EndOfInput
  BY <1>3, EndSessionTypes DEF EndOfInput, Types
<1>4. CASE \E c \in {1, 127} : RefuseBuild(c)
  <2> PICK c \in {1, 127} : RefuseBuild(c)
    BY <1>4
  <2>1. inbox' \in Seq(Requests)
    BY NextLineTypes DEF RefuseBuild
  <2>2. pending' \in Seq(Event)
    BY <1>0, EventsTyped DEF RefuseBuild
  <2> QED
    BY <1>0, <2>1, <2>2
    DEF RefuseBuild, NextLine, Types, peerVars, cargoVars, taskVars
<1>5. CASE StartBuild
  <2>1. inbox' \in Seq(Requests)
    BY <1>5, NextLineTypes DEF StartBuild
  <2>2. chan' \in Seq(Event) /\ pipe' \in [Streams -> Seq(Entry)]
    BY <1>5, EmptySeq DEF StartBuild
  <2> QED
    BY <1>0, <1>5, <2>1, <2>2 DEF StartBuild, NextLine, Types, peerVars
<1>6. CASE Recv
  <2>1. pending' \in Seq(Event) /\ chan' \in Seq(Event)
    BY <1>6, Uncons DEF Recv, Types
  <2> QED
    BY <1>6, <2>1 DEF Recv, Types, peerVars, cargoVars, taskVars
<1>7. CASE FinishBuild
  <2>1. status \in Status /\ build \in Nat
    BY DEF Types
  <2>2. CodeOf(status) \in Int
    BY <2>1, CodeInRange
  <2>3. Exit(build, CodeOf(status)) \in Event
    BY <2>1, <2>2, EventsTyped
  <2>4. pending' \in Seq(Event)
    BY <1>7, <2>3 DEF FinishBuild
  <2> QED
    BY <1>7, <2>4 DEF FinishBuild, Types, peerVars, cargoVars, taskVars
<1>8. CASE Emit
  <2>1. /\ pending' \in Seq(Event) /\ wire' \in Seq(Event)
        /\ Len(wire') = Len(wire) + 1
    BY <1>8, Uncons, Snoc DEF Emit, Types
  <2>2. seen' \in 0..Len(wire')
    BY <1>8, <2>1, LenProperties DEF Emit, Types, peerVars
  <2> QED
    BY <1>8, <2>1, <2>2 DEF Emit, Types, peerVars, cargoVars, taskVars
<1>9. CASE EmitFails
  BY <1>9, EndSessionTypes DEF EmitFails, Types
<1> QED
  BY <1>1, <1>2, <1>3, <1>4, <1>5, <1>6, <1>7, <1>8, <1>9 DEF Serve

LEMMA TaskTypes ==
  ASSUME Types, NEW s \in Streams, Task(s)
  PROVE  Types'
<1>1. CASE ReadLine(s)
  <2>1. /\ pipe[s] \in Seq(Entry) /\ taken[s] \in Nat
        /\ build \in Nat /\ chan \in Seq(Event)
    BY DEF Types
  <2>2. Head(pipe[s]) \in Entry /\ Tail(pipe[s]) \in Seq(Entry)
    BY <1>1, <2>1, Uncons DEF ReadLine
  <2>4. Head(pipe[s]).n \in Nat
    BY <2>2 DEF Entry
  <2>5. Line(s, build, Head(pipe[s]).n) \in Event
    BY <2>1, <2>4, EventsTyped
  <2>3. chan' \in Seq(Event)
    BY <1>1, <2>1, <2>5, Snoc DEF ReadLine
  <2>6. pipe' \in [Streams -> Seq(Entry)] /\ taken' \in [Streams -> Nat]
    BY <1>1, <2>1, <2>2 DEF ReadLine, Types
  <2> QED
    BY <1>1, <2>3, <2>6 DEF ReadLine, Types, peerVars, cargoVars
<1>2. CASE ReaderStops(s)
  <2>1. pipe' \in [Streams -> Seq(Entry)]
    BY <1>2, EmptySeq DEF ReaderStops, Types
  <2> QED
    BY <1>2, <2>1 DEF ReaderStops, Types, peerVars, cargoVars
<1> QED
  BY <1>1, <1>2 DEF Task

LEMMA WriteTypes ==
  ASSUME Types, NEW s \in Streams, NEW utf8 \in BOOLEAN, Write(s, utf8)
  PROVE  /\ written' \in [Streams -> Nat] /\ good' \in [Streams -> Nat]
         /\ pipe' \in [Streams -> Seq(Entry)]
<1> DEFINE e == [n |-> written[s] + 1, utf8 |-> utf8]
<1>1. e \in Entry /\ pipe[s] \in Seq(Entry)
  BY DEF Types, Entry
<1> HIDE DEF e
<1>2. Append(pipe[s], e) \in Seq(Entry)
  BY <1>1, Snoc
<1>3. written' \in [Streams -> Nat]
  BY DEF Write, Types
<1>4. CASE reader[s] = "reading"
  <2>1. pipe' = [pipe EXCEPT ![s] = Append(pipe[s], e)]
    BY <1>4 DEF Write, e
  <2>2. pipe' \in [Streams -> Seq(Entry)]
    BY <1>2, <2>1 DEF Types
  <2>3. good' = [good EXCEPT ![s] = good[s] + 1] \/ good' = good
    BY <1>4 DEF Write
  <2>4. good \in [Streams -> Nat] /\ good[s] + 1 \in Nat
    BY DEF Types
  <2>5. good' \in [Streams -> Nat]
    BY <2>3, <2>4
  <2> QED
    BY <1>3, <2>2, <2>5
<1>5. CASE reader[s] # "reading"
  BY <1>3, <1>5 DEF Write, Types
<1> QED
  BY <1>4, <1>5

LEMMA CargoTypes == Types /\ Cargo => Types'
<1> SUFFICES ASSUME Types, Cargo PROVE Types'
  OBVIOUS
<1>0. Encodings \subseteq BOOLEAN
  BY DEF Encodings
<1>1. ASSUME NEW s \in Streams, CargoWants(s) PROVE Types'
  BY <1>1 DEF CargoWants, Types, peerVars, taskVars
<1>2. ASSUME NEW s \in Streams, CargoWrites(s) PROVE Types'
  BY <1>0, <1>2, WriteTypes DEF CargoWrites, Types, peerVars, taskVars
<1>3. ASSUME NEW s \in Streams, BackgroundWrites(s) PROVE Types'
  BY <1>0, <1>3, WriteTypes DEF BackgroundWrites, Types, peerVars, taskVars
<1>4. ASSUME NEW c \in ExitCodes \cup {Killed}, CargoExits(c) PROVE Types'
  BY <1>4 DEF CargoExits, Types, Status, peerVars, taskVars
<1>5. CASE BackgroundEnds
  BY <1>5 DEF BackgroundEnds, Types, peerVars, taskVars
<1> QED
  BY <1>1, <1>2, <1>3, <1>4, <1>5 DEF Cargo

LEMMA NextTypes == Types /\ [Next]_vars => Types'
<1> SUFFICES ASSUME Types, [Next]_vars PROVE Types'
  OBVIOUS
<1>1. CASE WaitReaps
  BY <1>1 DEF WaitReaps, Types, peerVars, cargoVars
<1>2. CASE UNCHANGED vars
  BY <1>2 DEF vars, Types
<1> QED
  BY <1>1, <1>2, PeerTypes, ServeTypes, TaskTypes, CargoTypes DEF Next, Terminated

-----------------------------------------------------------------------------
(* Queues of events: what may be appended, and that a prefix is as good.   *)

LEMMA ElementIsEvent ==
  ASSUME NEW q \in Seq(Event), NEW i \in DOMAIN q
  PROVE  /\ q[i] \in Event /\ q[i].build \in Nat /\ q[i].val \in Int
         /\ q[i].kind \in EventKinds
<1>1. q[i] \in Event
  BY ElementOfSeq, LenProperties
<1> QED
  BY <1>1 DEF Event

LEMMA OrderAppend ==
  ASSUME NEW q \in Seq(Event), StreamInOrder(q), NEW e \in Event,
         e.kind \in Streams =>
           /\ \A j \in DOMAIN q : q[j].kind = e.kind /\ q[j].build = e.build
                                  => q[j].val < e.val
           /\ e.val > 1 =>
                \E j \in DOMAIN q : q[j] = Line(e.kind, e.build, e.val - 1)
  PROVE  StreamInOrder(Append(q, e))
<1> DEFINE r == Append(q, e)
<1>1. /\ DOMAIN r = 1..(Len(q) + 1) /\ r[Len(q) + 1] = e /\ Len(q) \in Nat
      /\ DOMAIN q = 1..Len(q) /\ \A i \in 1..Len(q) : r[i] = q[i]
  BY Snoc, LenProperties
<1> HIDE DEF r
<1>2. SUFFICES ASSUME NEW i \in DOMAIN r, r[i].kind \in Streams
               PROVE  /\ \A j \in 1..(i - 1) :
                           r[j].kind = r[i].kind /\ r[j].build = r[i].build
                           => r[j].val < r[i].val
                      /\ r[i].val > 1 => \E j \in 1..(i - 1) :
                           r[j] = Line(r[i].kind, r[i].build, r[i].val - 1)
  BY DEF StreamInOrder, r
<1>3. CASE i = Len(q) + 1
  BY <1>1, <1>2, <1>3
<1>4. CASE i \in 1..Len(q)
  <2>1. /\ r[i] = q[i] /\ \A j \in 1..(i - 1) : r[j] = q[j] /\ j \in DOMAIN q
    BY <1>1, <1>4
  <2> QED
    BY <1>1, <1>2, <1>4, <2>1 DEF StreamInOrder
<1> QED
  BY <1>1, <1>3, <1>4

LEMMA ExitLastAppend ==
  ASSUME NEW q \in Seq(Event), ExitLast(q), NEW e \in Event,
         \A i \in DOMAIN q : q[i].kind = "exit" =>
                              e.build = 0 \/ e.build > q[i].build
  PROVE  ExitLast(Append(q, e))
<1> DEFINE r == Append(q, e)
<1>1. /\ DOMAIN r = 1..(Len(q) + 1) /\ r[Len(q) + 1] = e /\ Len(q) \in Nat
      /\ DOMAIN q = 1..Len(q) /\ \A i \in 1..Len(q) : r[i] = q[i]
  BY Snoc, LenProperties
<1> HIDE DEF r
<1>2. SUFFICES ASSUME NEW i \in DOMAIN r, NEW j \in DOMAIN r,
                      i < j, r[i].kind = "exit"
               PROVE  r[j].build = 0 \/ r[j].build > r[i].build
  BY DEF ExitLast, r
<1>3. i \in 1..Len(q) /\ r[i] = q[i]
  BY <1>1, <1>2
<1>4. CASE j = Len(q) + 1
  BY <1>1, <1>2, <1>3, <1>4
<1>5. CASE j \in 1..Len(q)
  BY <1>1, <1>2, <1>3, <1>5 DEF ExitLast
<1> QED
  BY <1>1, <1>4, <1>5

LEMMA OkPrefix ==
  ASSUME NEW p \in Seq(Event), NEW r \in Seq(Event), NEW b \in Nat,
         NEW t \in [Streams -> Nat], QueueOk(p \o r, b, t)
  PROVE  QueueOk(p, b, t)
<1> DEFINE q == p \o r
<1>1. /\ DOMAIN p \subseteq DOMAIN q /\ \A i \in DOMAIN p : q[i] = p[i]
      /\ \A i \in DOMAIN p : \A j \in 1..(i - 1) : j \in DOMAIN p
  BY ConcatProperties, LenProperties
<1> HIDE DEF q
<1>2. QueueOk(q, b, t)
  BY DEF q
<1>3. StreamInOrder(p)
  BY <1>1, <1>2 DEF QueueOk, StreamInOrder
<1>4. ExitLast(p)
  BY <1>1, <1>2 DEF QueueOk, ExitLast
<1> QED
  BY <1>1, <1>2, <1>3, <1>4 DEF QueueOk

(* An answer that is no output line: HelloAck, Error or Exit.              *)
LEMMA OkAnswer ==
  ASSUME NEW q \in Seq(Event), NEW b \in Nat, NEW t \in [Streams -> Nat],
         QueueOk(q, b, t), NEW e \in Event,
         e.kind \notin Streams, e.build <= b,
         e.kind = "exit" => e.val \in 0..255,
         \A i \in DOMAIN q : q[i].kind = "exit" =>
                              e.build = 0 \/ e.build > q[i].build
  PROVE  QueueOk(Append(q, e), b, t)
<1>1. StreamInOrder(Append(q, e))
  BY OrderAppend DEF QueueOk
<1>2. ExitLast(Append(q, e))
  BY ExitLastAppend DEF QueueOk
<1>3. \A i \in DOMAIN Append(q, e) : \/ i \in DOMAIN q /\ Append(q, e)[i] = q[i]
                                     \/ Append(q, e)[i] = e
  BY Snoc, LenProperties
<1> QED
  BY <1>1, <1>2, <1>3 DEF QueueOk

(* A build is taken up: nothing of it is in the queue yet.                 *)
LEMMA OkNewBuild ==
  ASSUME NEW q \in Seq(Event), NEW b \in Nat, NEW t \in [Streams -> Nat],
         QueueOk(q, b, t), NEW u \in [Streams -> Nat]
  PROVE  /\ QueueOk(q, b + 1, u)
         /\ \A i \in DOMAIN q : q[i].build < b + 1
         /\ (\A s \in Streams : u[s] = 0) => DrainOk(q, b + 1, u)
<1>1. \A i \in DOMAIN q : q[i].build \in Nat /\ q[i].build <= b
  BY ElementIsEvent DEF QueueOk
<1>2. \A i \in DOMAIN q : q[i].build < b + 1 /\ q[i].build # b + 1
  BY <1>1
<1>3. QueueOk(q, b + 1, u)
  BY <1>1, <1>2 DEF QueueOk
<1>4. ASSUME \A s \in Streams : u[s] = 0 PROVE DrainOk(q, b + 1, u)
  BY <1>2, <1>4 DEF DrainOk
<1> QED
  BY <1>2, <1>3, <1>4

(* A reader takes one more line after the session has ended.               *)
LEMMA OkTaken ==
  ASSUME NEW q \in Seq(Event), NEW b \in Nat, NEW t \in [Streams -> Nat],
         QueueOk(q, b, t), NEW s \in Streams
  PROVE  QueueOk(q, b, [t EXCEPT ![s] = @ + 1])
<1>1. \A i \in DOMAIN q : q[i].val \in Int
  BY ElementIsEvent
<1>2. \A x \in Streams : /\ t[x] \in Nat /\ [t EXCEPT ![s] = @ + 1][x] \in Nat
                         /\ t[x] <= [t EXCEPT ![s] = @ + 1][x]
  OBVIOUS
<1>3. \A i \in DOMAIN q : q[i].kind \in Streams /\ q[i].build = b
                            => q[i].val <= [t EXCEPT ![s] = @ + 1][q[i].kind]
  BY <1>1, <1>2 DEF QueueOk
<1> QED
  BY <1>3 DEF QueueOk

(* A reader sends the line after the last one it took.                     *)
LEMMA OkLine ==
  ASSUME NEW q \in Seq(Event), NEW b \in Nat, NEW t \in [Streams -> Nat],
         QueueOk(q, b, t), DrainOk(q, b, t), NEW s \in Streams
  PROVE  LET e == Line(s, b, t[s] + 1)
             u == [t EXCEPT ![s] = @ + 1]
         IN  QueueOk(Append(q, e), b, u) /\ DrainOk(Append(q, e), b, u)
<1> DEFINE e == Line(s, b, t[s] + 1)
           u == [t EXCEPT ![s] = @ + 1]
           r == Append(q, e)
<1>1. /\ e \in Event /\ e.kind = s /\ e.build = b /\ e.val = t[s] + 1
      /\ t[s] \in Nat /\ u \in [Streams -> Nat] /\ u[s] = t[s] + 1
      /\ \A x \in Streams : x # s => u[x] = t[x]
  BY EventsTyped DEF Line
<1>e. e.kind # "exit"
  BY <1>1 DEF Streams
<1>2. QueueOk(q, b, u)
  BY OkTaken
<1> HIDE DEF u
<1>3. StreamInOrder(r)
  <2>1. \A j \in DOMAIN q : q[j].kind = s /\ q[j].build = b => q[j].val < t[s] + 1
    BY <1>1, ElementIsEvent DEF QueueOk
  <2>2. ASSUME t[s] + 1 > 1
        PROVE  \E j \in DOMAIN q : q[j] = Line(s, b, (t[s] + 1) - 1)
    <3>1. t[s] \in 1..t[s] /\ (t[s] + 1) - 1 = t[s]
      BY <1>1, <2>2
    <3> QED
      BY <3>1 DEF DrainOk
  <2> HIDE DEF e
  <2> QED
    BY <1>1, <2>1, <2>2, OrderAppend DEF QueueOk
<1>4. ExitLast(r)
  BY <1>1, ExitLastAppend DEF QueueOk, DrainOk
<1>5. /\ DOMAIN q \subseteq DOMAIN r /\ \A i \in DOMAIN q : r[i] = q[i]
      /\ \A i \in DOMAIN r : i \in DOMAIN q \/ r[i] = e
      /\ Len(q) + 1 \in DOMAIN r /\ r[Len(q) + 1] = e
  BY <1>1, Snoc, LenProperties
<1> HIDE DEF r
<1>6. QueueOk(r, b, u)
  <2>1. \A i \in DOMAIN q :
          /\ q[i].build <= b
          /\ q[i].kind = "exit" => q[i].val \in 0..255
          /\ q[i].kind \in Streams /\ q[i].build = b => q[i].val <= u[q[i].kind]
    BY <1>2 DEF QueueOk
  <2>2. e.build <= b /\ e.val <= u[e.kind]
    BY <1>1
  <2> HIDE DEF e
  <2> QED
    BY <1>e, <1>3, <1>4, <1>5, <2>1, <2>2 DEF QueueOk
<1>7. DrainOk(r, b, u)
  <2>1. \A i \in DOMAIN r : r[i].kind = "exit" => r[i].build < b
    BY <1>e, <1>5 DEF DrainOk
  <2>2. ASSUME NEW x \in Streams, NEW n \in 1..u[x]
        PROVE  \E i \in DOMAIN r : r[i] = Line(x, b, n)
    <3>1. CASE n \in 1..t[x]
      BY <1>5, <3>1 DEF DrainOk
    <3>2. CASE n \notin 1..t[x]
      <4>1. x = s /\ n = t[s] + 1
        BY <1>1, <3>2
      <4> QED
        BY <1>5, <4>1
    <3> QED
      BY <3>1, <3>2
  <2> QED
    BY <2>1, <2>2 DEF DrainOk
<1> QED
  BY <1>6, <1>7 DEF u, r

-----------------------------------------------------------------------------
(* How the steps move the queue.                                           *)

LEMMA ConcatAppend ==
  ASSUME NEW S, NEW p \in Seq(S), NEW q \in Seq(S), NEW e \in S
  PROVE  p \o Append(q, e) = Append(p \o q, e)
<1>1. /\ Append(q, e) \in Seq(S) /\ p \o q \in Seq(S)
      /\ <<e>> \in Seq(S) /\ Append(q, e) = q \o <<e>>
      /\ Append(p \o q, e) = (p \o q) \o <<e>>
  BY ConcatProperties, AppendProperties
<1> QED
  BY <1>1, ConcatAssociative

LEMMA QueueTyped ==
  ASSUME Types
  PROVE  wire \o pending \in Seq(Event) /\ Queue \in Seq(Event)
  BY ConcatProperties DEF Types, Queue

(* serve_one takes from the channel what it writes next.                   *)
LEMMA RecvQueue ==
  ASSUME Types, Recv
  PROVE  Queue' = Queue
<1>1. /\ pending = <<>> /\ wire' = wire /\ pending' = <<Head(chan)>>
      /\ chan' = Tail(chan) /\ chan # <<>>
      /\ wire \in Seq(Event) /\ chan \in Seq(Event)
  BY DEF Recv, Types
<1>2. Head(chan) \in Event /\ Tail(chan) \in Seq(Event)
  BY <1>1, Uncons
<1>3. chan = <<Head(chan)>> \o Tail(chan)
  BY <1>1, <1>2, SeqEqual, ConcatProperties, Uncons
<1>4. wire \o (<<Head(chan)>> \o Tail(chan)) = (wire \o <<Head(chan)>>) \o Tail(chan)
  BY <1>1, <1>2, ConcatAssociative
<1>5. wire \o pending = wire
  BY <1>1, ConcatEmptySeq
<1> QED
  BY <1>1, <1>3, <1>4, <1>5 DEF Queue

(* An event that is written stays where it is in the queue.                *)
LEMMA EmitQueue ==
  ASSUME Types, Emit
  PROVE  Queue' = Queue
<1>1. /\ pending # <<>> /\ wire' = Append(wire, Head(pending))
      /\ pending' = Tail(pending) /\ chan' = chan
      /\ wire \in Seq(Event) /\ pending \in Seq(Event)
  BY DEF Emit, Types
<1>2. Head(pending) \in Event /\ Tail(pending) \in Seq(Event)
  BY <1>1, Uncons
<1>3. wire' \o pending' = wire \o pending
  <2>1. wire' = wire \o <<Head(pending)>>
    BY <1>1, <1>2, AppendProperties
  <2>2. pending = <<Head(pending)>> \o Tail(pending)
    BY <1>1, <1>2, SeqEqual, ConcatProperties, Uncons
  <2> QED
    BY <1>1, <1>2, <2>1, <2>2, ConcatAssociative
<1> QED
  BY <1>1, <1>3 DEF Queue

(* While the channel is empty, what serve_one decides to write is appended *)
(* to the queue.                                                           *)
LEMMA NoChan ==
  ASSUME Types, chan = <<>>
  PROVE  Queue = wire \o pending
  BY ConcatEmptySeq, QueueTyped DEF Queue

LEMMA EmptyPending ==
  ASSUME Types, chan = <<>>, pending = <<>>
  PROVE  Queue = wire
  BY NoChan, ConcatEmptySeq DEF Types

LEMMA OneMore ==
  ASSUME Types, chan = <<>>, pending = <<>>, wire' = wire, chan' = <<>>,
         NEW e \in Event, pending' = <<e>>
  PROVE  Queue' = Append(Queue, e)
<1>1. Queue = wire /\ wire \in Seq(Event)
  BY EmptyPending DEF Types
<1>2. wire \o <<e>> = Append(wire, e) /\ wire \o <<e>> \in Seq(Event)
  BY <1>1, AppendProperties, ConcatProperties
<1>3. Queue' = wire \o <<e>>
  BY <1>2, ConcatEmptySeq DEF Queue
<1> QED
  BY <1>1, <1>2, <1>3

LEMMA EndQueue ==
  ASSUME Types, QueueInv, EndSession
  PROVE  QueueInv'
<1>1. /\ wire \in Seq(Event) /\ pending \in Seq(Event) /\ chan \in Seq(Event)
      /\ build \in Nat /\ taken \in [Streams -> Nat]
  BY DEF Types
<1>2. pending \o chan \in Seq(Event) /\ Queue = wire \o (pending \o chan)
  BY <1>1, ConcatAssociative, ConcatProperties DEF Queue
<1>3. QueueOk(wire, build, taken)
  BY <1>1, <1>2, OkPrefix DEF QueueInv
<1>4. /\ wire' = wire /\ pending' = <<>> /\ chan' = <<>> /\ build' = build
      /\ taken' = taken /\ pc' = "Done"
  BY DEF EndSession
<1>5. Queue' = wire
  BY <1>1, <1>4, ConcatEmptySeq DEF Queue
<1> QED
  BY <1>3, <1>4, <1>5 DEF QueueInv

(* Steps that touch neither the queue nor what the invariant compares it   *)
(* with.                                                                   *)
LEMMA QueueStays ==
  ASSUME QueueInv, Queue' = Queue, build' = build, taken' = taken,
         pc' = "Drain" => pc = "Drain"
  PROVE  QueueInv'
  BY DEF QueueInv

LEMMA ServeQueue == Types /\ QueueInv /\ PhaseInv /\ Serve => QueueInv'
<1> SUFFICES ASSUME Types, QueueInv, PhaseInv, Serve PROVE QueueInv'
  OBVIOUS
<1>0. /\ QueueOk(Queue, build, taken) /\ Queue \in Seq(Event)
      /\ build \in Nat /\ taken \in [Streams -> Nat] /\ build + 1 \in Nat
  BY QueueTyped DEF QueueInv, Types
<1>a. pc # "Drain" => chan = <<>>
  BY DEF PhaseInv
<1>1. CASE \E r \in {"blank", "hello", "garbage"} : Answer(r)
  <2> PICK r \in {"blank", "hello", "garbage"} : Answer(r)
    BY <1>1
  <2>1. /\ chan = <<>> /\ chan' = <<>> /\ pending = <<>> /\ wire' = wire
        /\ pc' = "Read" /\ build' = build /\ taken' = taken
    BY <1>a DEF Answer, NextLine, taskVars
  <2>2. ASSUME NEW e \in {HelloAck, Error(0)}, pending' = <<e>>
        PROVE  QueueInv'
    <3>1. e \in Event /\ e.kind \notin Streams /\ e.kind # "exit" /\ e.build = 0
      BY EventsTyped DEF HelloAck, Error, Streams
    <3>2. QueueOk(Append(Queue, e), build, taken)
      BY <1>0, <3>1, OkAnswer
    <3>3. Queue' = Append(Queue, e)
      BY <2>1, <2>2, <3>1, OneMore
    <3> QED
      BY <2>1, <3>2, <3>3 DEF QueueInv
  <2>3. CASE pending' = <<>>
    <3>1. Queue' = Queue
      BY <2>1, <2>3 DEF Queue
    <3> QED
      BY <2>1, <3>1, QueueStays
  <2>4. \/ pending' = <<>> \/ pending' = <<HelloAck>> \/ pending' = <<Error(0)>>
    BY DEF Answer
  <2> QED
    BY <2>2, <2>3, <2>4
<1>2. CASE \E r \in {"bye", "binary"} : Hangup(r)
  BY <1>2, EndQueue DEF Hangup
<1>3. CASE EndOfInput
  BY <1>3, EndQueue DEF EndOfInput
<1>4. CASE \E c \in {1, 127} : RefuseBuild(c)
  <2> PICK c \in {1, 127} : RefuseBuild(c)
    BY <1>4
  <2> DEFINE b == build + 1
             x == Error(b)
             y == Exit(b, c)
  <2>1. /\ chan = <<>> /\ chan' = <<>> /\ pending = <<>> /\ wire' = wire
        /\ pc' = "Refuse" /\ build' = b /\ taken' = taken /\ pending' = <<x, y>>
    BY <1>a DEF RefuseBuild, NextLine, taskVars
  <2>2. /\ x \in Event /\ x.kind = "error" /\ x.build = b
        /\ y \in Event /\ y.kind = "exit" /\ y.build = b /\ y.val \in 0..255
        /\ b \in Nat /\ x.kind \notin Streams /\ y.kind \notin Streams
    BY <1>0, EventsTyped DEF Error, Exit, Streams
  <2> HIDE DEF b, x, y
  <2>3. QueueOk(Queue, b, taken) /\ \A i \in DOMAIN Queue : Queue[i].build < b
    BY <1>0, OkNewBuild DEF b
  <2>4. QueueOk(Append(Queue, x), b, taken)
    <3>1. \A i \in DOMAIN Queue : x.build > Queue[i].build
      BY <1>0, <2>2, <2>3, ElementIsEvent
    <3>2. x.build <= b
      BY <2>2
    <3> QED
      BY <1>0, <2>2, <2>3, <3>1, <3>2, OkAnswer
  <2> DEFINE q == Append(Queue, x)
  <2>5. q \in Seq(Event)
        /\ \A i \in DOMAIN q : q[i].kind = "exit" => y.build > q[i].build
    <3>1. q \in Seq(Event) /\ \A i \in DOMAIN q : q[i] = x \/ \E j \in DOMAIN Queue : q[i] = Queue[j]
      BY <1>0, <2>2, Snoc, LenProperties
    <3>2. \A j \in DOMAIN Queue : y.build > Queue[j].build
      BY <1>0, <2>2, <2>3, ElementIsEvent
    <3> HIDE DEF q
    <3> QED
      BY <2>2, <3>1, <3>2
  <2> HIDE DEF q
  <2>6. QueueOk(Append(q, y), b, taken)
    <3>1. y.build <= b /\ QueueOk(q, b, taken) /\ taken \in [Streams -> Nat]
      BY <1>0, <2>2, <2>4 DEF q
    <3> QED
      BY <2>2, <2>5, <3>1, OkAnswer
  <2>7. Queue' = Append(q, y)
    <3>1. Queue = wire /\ wire \in Seq(Event) /\ <<x>> \in Seq(Event)
      BY <2>1, <2>2, EmptyPending DEF Types
    <3>2. <<x, y>> = Append(<<x>>, y)
      OBVIOUS
    <3>3. wire \o <<x>> = Append(wire, x)
      BY <2>2, <3>1, AppendProperties
    <3>4. wire \o <<x, y>> = Append(Append(wire, x), y)
      BY <2>2, <3>1, <3>2, <3>3, ConcatAppend
    <3>5. Append(Append(wire, x), y) \in Seq(Event)
      BY <2>2, <3>1, Snoc
    <3>6. Queue' = wire \o <<x, y>>
      BY <2>1, <3>4, <3>5, ConcatEmptySeq DEF Queue
    <3> QED
      BY <3>1, <3>4, <3>6 DEF q
  <2> QED
    BY <2>1, <2>6, <2>7 DEF QueueInv
<1>5. CASE StartBuild
  <2>1. /\ chan = <<>> /\ chan' = <<>> /\ pending' = pending /\ wire' = wire
        /\ build' = build + 1 /\ taken' = [s \in Streams |-> 0]
    BY <1>5, <1>a DEF StartBuild, NextLine
  <2>2. Queue' = Queue
    BY <2>1 DEF Queue
  <2>3. taken' \in [Streams -> Nat] /\ \A s \in Streams : taken'[s] = 0
    BY <2>1
  <2>4. QueueOk(Queue, build + 1, taken') /\ DrainOk(Queue, build + 1, taken')
    BY <1>0, <2>3, OkNewBuild
  <2> QED
    BY <2>1, <2>2, <2>4 DEF QueueInv
<1>6. CASE Recv
  <2>1. pc' = pc /\ build' = build /\ taken' = taken
    BY <1>6 DEF Recv, taskVars
  <2> QED
    BY <1>6, <2>1, RecvQueue, QueueStays
<1>7. CASE FinishBuild
  <2> DEFINE y == Exit(build, CodeOf(status))
  <2>1. /\ pc = "Drain" /\ chan = <<>> /\ chan' = <<>> /\ pending = <<>>
        /\ wire' = wire /\ pc' = "Report" /\ build' = build /\ taken' = taken
        /\ pending' = <<y>>
    BY <1>7 DEF FinishBuild, taskVars
  <2>2. CodeOf(status) \in 0..255
    BY CodeInRange DEF Types
  <2>3. /\ y \in Event /\ y.kind = "exit" /\ y.build = build
        /\ y.val \in 0..255 /\ y.kind \notin Streams
    <3>1. CodeOf(status) \in Int
      BY <2>2
    <3>2. y \in Event
      BY <1>0, <3>1, EventsTyped
    <3> QED
      BY <2>2, <3>2 DEF Exit, Streams
  <2> HIDE DEF y
  <2>4. \A i \in DOMAIN Queue : Queue[i].kind = "exit" => y.build > Queue[i].build
    <3>1. \A i \in DOMAIN Queue : Queue[i].kind = "exit" => Queue[i].build < build
      BY <2>1 DEF QueueInv, DrainOk
    <3> QED
      BY <1>0, <2>3, <3>1, ElementIsEvent
  <2>5. QueueOk(Append(Queue, y), build, taken)
    BY <1>0, <2>3, <2>4, OkAnswer
  <2>6. Queue' = Append(Queue, y)
    BY <2>1, <2>3, OneMore
  <2> QED
    BY <2>1, <2>5, <2>6 DEF QueueInv
<1>8. CASE Emit
  <2>1. (pc' = "Drain" => pc = "Drain") /\ build' = build /\ taken' = taken
    BY <1>8 DEF Emit, taskVars
  <2> QED
    BY <1>8, <2>1, EmitQueue, QueueStays
<1>9. CASE EmitFails
  BY <1>9, EndQueue DEF EmitFails
<1> QED
  BY <1>1, <1>2, <1>3, <1>4, <1>5, <1>6, <1>7, <1>8, <1>9 DEF Serve

(* A reader appends the next line of its pipe to the queue.                *)
LEMMA TaskQueue ==
  ASSUME Types, QueueInv, PipeInv, PhaseInv, NEW s \in Streams, Task(s)
  PROVE  QueueInv'
<1>0. /\ QueueOk(Queue, build, taken) /\ Queue \in Seq(Event)
      /\ build \in Nat /\ taken \in [Streams -> Nat]
      /\ wire \o pending \in Seq(Event) /\ chan \in Seq(Event)
  BY QueueTyped DEF QueueInv, Types
<1>1. CASE ReadLine(s)
  <2> DEFINE e == Line(s, build, taken[s] + 1)
  <2>1. /\ reader[s] = "reading" /\ pipe[s] # <<>> /\ pipe[s] \in Seq(Entry)
        /\ taken' = [taken EXCEPT ![s] = @ + 1] /\ build' = build /\ pc' = pc
        /\ wire' = wire /\ pending' = pending
    BY <1>1 DEF ReadLine, Types
  <2>2. Head(pipe[s]).n = taken[s] + 1
    BY <1>0, <2>1, Uncons DEF PipeInv
  <2>3. e \in Event
    BY <1>0, EventsTyped
  <2>4. CASE pc = "Done"
    <3>1. Queue' = Queue
      BY <1>1, <2>1, <2>4 DEF ReadLine, Queue
    <3>2. QueueOk(Queue, build, taken')
      BY <1>0, <2>1, OkTaken
    <3> QED
      BY <2>1, <2>4, <3>1, <3>2 DEF QueueInv
  <2>5. CASE pc # "Done"
    <3>1. pc = "Drain"
      BY <2>1, <2>5 DEF PhaseInv
    <3>2. chan' = Append(chan, e)
      BY <1>1, <2>2, <2>5 DEF ReadLine
    <3>3. Queue' = Append(Queue, e)
      BY <1>0, <2>1, <2>3, <3>2, ConcatAppend DEF Queue
    <3>4. QueueOk(Append(Queue, e), build, taken') /\ DrainOk(Append(Queue, e), build, taken')
      BY <1>0, <2>1, <3>1, OkLine DEF QueueInv
    <3> QED
      BY <2>1, <3>3, <3>4 DEF QueueInv
  <2> QED
    BY <2>4, <2>5
<1>2. CASE ReaderStops(s)
  BY <1>2, QueueStays DEF ReaderStops, Queue
<1> QED
  BY <1>1, <1>2 DEF Task

-----------------------------------------------------------------------------
(* The pipes.                                                              *)

LEMMA WritePipe ==
  ASSUME Types, PipeInv, NEW s \in Streams, NEW utf8 \in BOOLEAN,
         Write(s, utf8), reader' = reader, taken' = taken
  PROVE  PipeInv'
<1> DEFINE e == [n |-> written[s] + 1, utf8 |-> utf8]
           r == Append(pipe[s], e)
<1>1. /\ e \in Entry /\ e.n = written[s] + 1 /\ pipe[s] \in Seq(Entry)
      /\ written[s] \in Nat /\ taken[s] \in Nat
  BY DEF Types, Entry
<1>2. /\ reader[s] = "reading" => pipe' = [pipe EXCEPT ![s] = r]
      /\ reader[s] # "reading" => pipe' = pipe
      /\ written' = [written EXCEPT ![s] = @ + 1]
  BY DEF Write
<1> HIDE DEF e
<1>3. /\ Len(r) = Len(pipe[s]) + 1 /\ DOMAIN r = 1..(Len(pipe[s]) + 1)
      /\ r[Len(pipe[s]) + 1] = e /\ Len(pipe[s]) \in Nat
      /\ DOMAIN pipe[s] = 1..Len(pipe[s])
      /\ \A i \in 1..Len(pipe[s]) : r[i] = pipe[s][i]
  BY <1>1, Snoc, LenProperties
<1> HIDE DEF r
<1>4. SUFFICES ASSUME NEW x \in Streams, reader[x] = "reading"
               PROVE  /\ Len(pipe'[x]) = written'[x] - taken[x]
                      /\ \A i \in DOMAIN pipe'[x] : pipe'[x][i].n = taken[x] + i
  BY DEF PipeInv
<1>5. /\ Len(pipe[x]) = written[x] - taken[x]
      /\ \A i \in DOMAIN pipe[x] : pipe[x][i].n = taken[x] + i
  BY <1>4 DEF PipeInv
<1>6. CASE x = s
  <2>1. pipe'[x] = r /\ written'[x] = written[s] + 1
    BY <1>2, <1>4, <1>6 DEF Types
  <2>2. /\ Len(pipe[s]) = written[s] - taken[s] /\ written[s] \in Nat
        /\ taken[s] \in Nat
        /\ \A i \in 1..Len(pipe[s]) : pipe[s][i].n = taken[s] + i
    BY <1>1, <1>3, <1>5, <1>6
  <2>3. ASSUME NEW i \in DOMAIN r PROVE r[i].n = taken[s] + i
    <3>1. CASE i \in 1..Len(pipe[s])
      BY <1>3, <2>2, <3>1
    <3>2. CASE i = Len(pipe[s]) + 1
      <4>1. r[i].n = written[s] + 1
        BY <1>1, <1>3, <3>2
      <4> QED
        BY <2>2, <3>2, <4>1
    <3> QED
      BY <1>3, <3>1, <3>2
  <2>4. Len(r) = (written[s] + 1) - taken[s]
    BY <1>3, <2>2
  <2> QED
    BY <1>6, <2>1, <2>3, <2>4
<1>7. CASE x # s
  <2>1. pipe'[x] = pipe[x] /\ written'[x] = written[x]
    BY <1>2, <1>7 DEF Types
  <2> QED
    BY <1>5, <2>1
<1> QED
  BY <1>6, <1>7

LEMMA ReadPipe ==
  ASSUME Types, PipeInv, NEW s \in Streams, ReadLine(s)
  PROVE  PipeInv'
<1>1. /\ pipe[s] \in Seq(Entry) /\ pipe[s] # <<>> /\ reader' = reader
      /\ pipe' = [pipe EXCEPT ![s] = Tail(pipe[s])]
      /\ taken' = [taken EXCEPT ![s] = taken[s] + 1] /\ written' = written
      /\ taken[s] \in Nat /\ written[s] \in Nat
  BY DEF ReadLine, Types, cargoVars
<1>2. /\ Len(Tail(pipe[s])) = Len(pipe[s]) - 1
      /\ \A i \in DOMAIN Tail(pipe[s]) :
           i \in Nat /\ i + 1 \in DOMAIN pipe[s] /\ Tail(pipe[s])[i] = pipe[s][i + 1]
  <2>1. Tail(pipe[s]) \in Seq(Entry)
    BY <1>1, Uncons
  <2> QED
    BY <1>1, <2>1, Uncons, LenProperties
<1>3. SUFFICES ASSUME NEW x \in Streams, reader[x] = "reading"
               PROVE  /\ Len(pipe'[x]) = written[x] - taken'[x]
                      /\ \A i \in DOMAIN pipe'[x] : pipe'[x][i].n = taken'[x] + i
  BY <1>1 DEF PipeInv
<1>4. /\ Len(pipe[x]) = written[x] - taken[x]
      /\ \A i \in DOMAIN pipe[x] : pipe[x][i].n = taken[x] + i
  BY <1>3 DEF PipeInv
<1>5. CASE x = s
  <2>1. pipe'[x] = Tail(pipe[s]) /\ taken'[x] = taken[s] + 1
    BY <1>1, <1>5 DEF Types
  <2>2. ASSUME NEW i \in DOMAIN Tail(pipe[s])
        PROVE  Tail(pipe[s])[i].n = taken[s] + 1 + i
    <3>1. /\ i \in Nat /\ taken[s] \in Nat /\ i + 1 \in DOMAIN pipe[s]
          /\ Tail(pipe[s])[i] = pipe[s][i + 1]
      BY <1>1, <1>2
    <3>2. pipe[s][i + 1].n = taken[s] + (i + 1)
      BY <1>4, <1>5, <3>1
    <3> QED
      BY <3>1, <3>2
  <2>3. /\ Len(Tail(pipe[s])) = Len(pipe[s]) - 1 /\ taken[s] \in Nat
        /\ Len(pipe[s]) = written[s] - taken[s] /\ written[s] \in Nat
    BY <1>1, <1>2, <1>4, <1>5
  <2>4. Len(Tail(pipe[s])) = written[s] - (taken[s] + 1)
    BY <2>3
  <2> QED
    BY <1>5, <2>1, <2>2, <2>4
<1>6. CASE x # s
  <2>1. pipe'[x] = pipe[x] /\ taken'[x] = taken[x]
    BY <1>1, <1>6 DEF Types
  <2> QED
    BY <1>4, <2>1
<1> QED
  BY <1>5, <1>6

LEMMA PipeStays ==
  ASSUME PipeInv, pipe' = pipe, reader' = reader, taken' = taken, written' = written
  PROVE  PipeInv'
  BY DEF PipeInv

(* EndSession stops every reader whose pipe it takes away.                 *)
LEMMA EndPipe ==
  ASSUME Types, PipeInv, EndSession
  PROVE  PipeInv'
<1>1. CASE Stdio
  <2>1. \A s \in Streams : reader'[s] # "reading"
    BY <1>1 DEF EndSession
  <2> QED
    BY <2>1 DEF PipeInv
<1>2. CASE ~Stdio
  BY <1>2, PipeStays DEF EndSession, cargoVars
<1> QED
  BY <1>1, <1>2

LEMMA ServePipe == Types /\ PipeInv /\ Serve => PipeInv'
<1> SUFFICES ASSUME Types, PipeInv, Serve PROVE PipeInv'
  OBVIOUS
<1>1. ASSUME NEW r \in {"blank", "hello", "garbage"}, Answer(r) PROVE PipeInv'
  BY <1>1, PipeStays DEF Answer, taskVars, cargoVars
<1>2. ASSUME NEW r \in {"bye", "binary"}, Hangup(r) PROVE PipeInv'
  BY <1>2, EndPipe DEF Hangup
<1>3. CASE EndOfInput
  BY <1>3, EndPipe DEF EndOfInput
<1>4. ASSUME NEW c \in {1, 127}, RefuseBuild(c) PROVE PipeInv'
  BY <1>4, PipeStays DEF RefuseBuild, taskVars, cargoVars
<1>5. CASE StartBuild
  <2>1. \A s \in Streams : /\ pipe'[s] = <<>> /\ written'[s] = 0 /\ taken'[s] = 0
                           /\ Len(pipe'[s]) = 0 /\ DOMAIN pipe'[s] = {}
    BY <1>5 DEF StartBuild
  <2> QED
    BY <2>1 DEF PipeInv
<1>6. CASE Recv
  BY <1>6, PipeStays DEF Recv, taskVars, cargoVars
<1>7. CASE FinishBuild
  BY <1>7, PipeStays DEF FinishBuild, taskVars, cargoVars
<1>8. CASE Emit
  BY <1>8, PipeStays DEF Emit, taskVars, cargoVars
<1>9. CASE EmitFails
  BY <1>9, EndPipe DEF EmitFails
<1> QED
  BY <1>1, <1>2, <1>3, <1>4, <1>5, <1>6, <1>7, <1>8, <1>9 DEF Serve

LEMMA NextPipe == Types /\ PipeInv /\ [Next]_vars => PipeInv'
<1> SUFFICES ASSUME Types, PipeInv, [Next]_vars PROVE PipeInv'
  OBVIOUS
<1>0. Encodings \subseteq BOOLEAN
  BY DEF Encodings
<1>1. CASE Peer
  BY <1>1, PipeStays DEF Peer, PeerReads, PeerSends, PeerLeaves, taskVars, cargoVars
<1>2. ASSUME NEW s \in Streams, ReaderStops(s) PROVE PipeInv'
  <2>1. \A x \in Streams : reader'[x] = "reading" =>
          /\ reader[x] = "reading" /\ pipe'[x] = pipe[x]
          /\ written'[x] = written[x] /\ taken'[x] = taken[x]
    BY <1>2 DEF ReaderStops, Types, cargoVars
  <2> QED
    BY <2>1 DEF PipeInv
<1>3. CASE WaitReaps
  BY <1>3, PipeStays DEF WaitReaps, cargoVars
<1>4. ASSUME NEW s \in Streams, CargoWants(s) PROVE PipeInv'
  BY <1>4, PipeStays DEF CargoWants, taskVars
<1>5. ASSUME NEW s \in Streams, CargoWrites(s) PROVE PipeInv'
  BY <1>0, <1>5, WritePipe DEF CargoWrites, taskVars
<1>6. ASSUME NEW s \in Streams, BackgroundWrites(s) PROVE PipeInv'
  BY <1>0, <1>6, WritePipe DEF BackgroundWrites, taskVars
<1>7. ASSUME NEW c \in ExitCodes \cup {Killed}, CargoExits(c) PROVE PipeInv'
  BY <1>7, PipeStays DEF CargoExits, taskVars
<1>8. CASE BackgroundEnds
  BY <1>8, PipeStays DEF BackgroundEnds, taskVars
<1>9. CASE UNCHANGED vars
  BY <1>9, PipeStays DEF vars
<1> QED
  BY <1>1, <1>2, <1>3, <1>4, <1>5, <1>6, <1>7, <1>8, <1>9, ServePipe, ReadPipe
  DEF Next, Cargo, Task, Terminated

-----------------------------------------------------------------------------
(* The queue, for every step.                                              *)

LEMMA NextQueue ==
  Types /\ QueueInv /\ PipeInv /\ PhaseInv /\ [Next]_vars => QueueInv'
<1> SUFFICES ASSUME Types, QueueInv, PipeInv, PhaseInv, [Next]_vars PROVE QueueInv'
  OBVIOUS
<1>1. CASE Peer \/ Cargo \/ WaitReaps \/ UNCHANGED vars
  <2>1. UNCHANGED <<wire, pending, chan, build, taken, pc>>
    BY <1>1 DEF Peer, PeerReads, PeerSends, PeerLeaves, Cargo, CargoWants,
                CargoWrites, BackgroundWrites, CargoExits, BackgroundEnds,
                WaitReaps, vars, taskVars
  <2>2. Queue' = Queue
    BY <2>1 DEF Queue
  <2> QED
    BY <2>1, <2>2, QueueStays
<1> QED
  BY <1>1, ServeQueue, TaskQueue DEF Next, Terminated

-----------------------------------------------------------------------------
(* Where serve_one stands, and what may be alive around it.                *)

LEMMA ServePhase == Types /\ PhaseInv /\ Serve => PhaseInv'
<1> SUFFICES ASSUME Types, PhaseInv, Serve PROVE PhaseInv'
  OBVIOUS
<1>1. ASSUME NEW r \in {"blank", "hello", "garbage"}, Answer(r) PROVE PhaseInv'
  BY <1>1 DEF Answer, NextLine, PhaseInv, taskVars, cargoVars
<1>2. ASSUME EndSession PROVE PhaseInv'
  BY <1>2 DEF EndSession, PhaseInv, Types, cargoVars
<1>3. ASSUME NEW c \in {1, 127}, RefuseBuild(c) PROVE PhaseInv'
  BY <1>3 DEF RefuseBuild, NextLine, PhaseInv, taskVars, cargoVars
<1>4. CASE StartBuild
  BY <1>4 DEF StartBuild, NextLine, PhaseInv
<1>5. CASE Recv
  BY <1>5 DEF Recv, PhaseInv, taskVars, cargoVars
<1>6. CASE FinishBuild
  BY <1>6 DEF FinishBuild, SendersGone, PhaseInv, taskVars, cargoVars
<1>7. CASE Emit
  <2>1. pc' = "Drain" <=> pc = "Drain"
    BY <1>7 DEF Emit, Types
  <2>2. pc' = "Done" <=> pc = "Done"
    BY <1>7 DEF Emit, Types
  <2>3. pc' \in {"Read", "Refuse", "Report"} => pc \in {"Read", "Refuse", "Report"}
    BY <1>7 DEF Emit, Types
  <2> QED
    BY <1>7, <2>1, <2>2, <2>3 DEF Emit, PhaseInv, taskVars, cargoVars
<1> QED
  BY <1>1, <1>2, <1>3, <1>4, <1>5, <1>6, <1>7
  DEF Serve, Hangup, EndOfInput, EmitFails

LEMMA NextPhase == Types /\ PhaseInv /\ [Next]_vars => PhaseInv'
<1> SUFFICES ASSUME Types, PhaseInv, [Next]_vars PROVE PhaseInv'
  OBVIOUS
<1>1. CASE Peer
  BY <1>1 DEF Peer, PeerReads, PeerSends, PeerLeaves, PhaseInv, taskVars, cargoVars
<1>2. ASSUME NEW s \in Streams, ReadLine(s) PROVE PhaseInv'
  BY <1>2 DEF ReadLine, PhaseInv, cargoVars
<1>3. ASSUME NEW s \in Streams, ReaderStops(s) PROVE PhaseInv'
  BY <1>3 DEF ReaderStops, PhaseInv, Types, cargoVars
<1>4. CASE WaitReaps
  BY <1>4 DEF WaitReaps, PhaseInv, cargoVars
<1>5. CASE Cargo
  BY <1>5 DEF Cargo, CargoWants, CargoWrites, BackgroundWrites, CargoExits,
              BackgroundEnds, PhaseInv, taskVars
<1>6. CASE UNCHANGED vars
  BY <1>6 DEF vars, PhaseInv
<1> QED
  BY <1>1, <1>2, <1>3, <1>4, <1>5, <1>6, ServePhase DEF Next, Task, Terminated

-----------------------------------------------------------------------------
(* The theorems.                                                           *)

(* The strengthening of the safety properties that every step keeps; the   *)
(* codes on the wire are in range because they are in the queue.           *)
Inv == Types /\ QueueInv /\ PipeInv /\ PhaseInv

LEMMA InvInit == Init => Inv
<1> SUFFICES ASSUME Init PROVE Inv
  OBVIOUS
<1>1. Types
  BY InitTypes
<1>2. Queue = <<>>
  BY ConcatEmptySeq, EmptySeq DEF Init, Queue
<1>3. QueueOk(<<>>, build, taken)
  BY DEF QueueOk, StreamInOrder, ExitLast
<1>4. QueueInv /\ PipeInv /\ PhaseInv
  BY <1>2, <1>3 DEF Init, QueueInv, PipeInv, PhaseInv
<1> QED
  BY <1>1, <1>4 DEF Inv

LEMMA InvNext == Inv /\ [Next]_vars => Inv'
  BY NextTypes, NextQueue, NextPipe, NextPhase DEF Inv

LEMMA InvMeaning == Inv => IInv /\ WireInOrder /\ ExitClosesBuild
<1> SUFFICES ASSUME Inv PROVE IInv /\ WireInOrder /\ ExitClosesBuild
  OBVIOUS
<1>1. /\ wire \in Seq(Event) /\ pending \in Seq(Event) /\ chan \in Seq(Event)
      /\ build \in Nat /\ taken \in [Streams -> Nat]
  BY DEF Inv, Types
<1>2. pending \o chan \in Seq(Event) /\ Queue = wire \o (pending \o chan)
  BY <1>1, ConcatAssociative, ConcatProperties DEF Queue
<1>3. QueueOk(wire, build, taken)
  BY <1>1, <1>2, OkPrefix DEF Inv, QueueInv
<1> QED
  BY <1>3 DEF Inv, IInv, TypeOK, QueueOk, WireInOrder, ExitClosesBuild

LEMMA InvAlways == Spec => []Inv
<1>1. Init => Inv
  BY InvInit
<1>2. Inv /\ [Next]_vars => Inv'
  BY InvNext
<1> QED
  BY <1>1, <1>2, PTL DEF Spec

(* In every state of every session the variables have their types, and     *)
(* only codes between 0 and 255 are ever reported.                         *)
THEOREM Typed == Spec => []TypeOK
<1>1. Inv => TypeOK
  BY InvMeaning DEF IInv
<1> QED
  BY <1>1, InvAlways, PTL

(* serve_one keeps its inductive invariant: the wire, what is about to be  *)
(* written and the channel are one queue, in order, that agrees with the   *)
(* readers and with where serve_one stands.                                *)
THEOREM Inductive == Spec => []IInv
<1>1. Inv => IInv
  BY InvMeaning
<1> QED
  BY <1>1, InvAlways, PTL

(* The lines of each stream of each build reach the peer in the order      *)
(* cargo wrote them, without a gap, whatever the tasks of run_cargo do.    *)
THEOREM InOrder == Spec => []WireInOrder
<1>1. Inv => WireInOrder
  BY InvMeaning
<1> QED
  BY <1>1, InvAlways, PTL

(* Once the Exit of a build is on the wire no event of that build follows. *)
THEOREM ExitCloses == Spec => []ExitClosesBuild
<1>1. Inv => ExitClosesBuild
  BY InvMeaning
<1> QED
  BY <1>1, InvAlways, PTL

(* run_cargo returns only when its child and its tasks are at rest, so two *)
(* builds of a session never run at once.                                  *)
THEOREM OneBuildAtATime == Spec => BuildsDoNotOverlap
<1>1. Inv /\ [Next]_vars =>
        [build' # build =>
           /\ cargo # "running" /\ waiter # "waiting"
           /\ \A s \in Streams : reader[s] # "reading"]_vars
  <2> SUFFICES ASSUME Inv, Next, build' # build
               PROVE  /\ cargo # "running" /\ waiter # "waiting"
                      /\ \A s \in Streams : reader[s] # "reading"
    OBVIOUS
  <2>1. pc = "Read"
    BY DEF Next, Peer, PeerReads, PeerSends, PeerLeaves, Serve, Answer, Hangup,
           EndOfInput, EndSession, RefuseBuild, StartBuild, NextLine, Recv,
           FinishBuild, Emit, EmitFails, Task, ReadLine, ReaderStops, WaitReaps,
           Cargo, CargoWants, CargoWrites, BackgroundWrites, CargoExits,
           BackgroundEnds, Terminated, vars
  <2> QED
    BY <2>1 DEF Inv, PhaseInv
<1> QED
  BY <1>1, InvAlways, PTL DEF Spec, BuildsDoNotOverlap
=============================================================================
