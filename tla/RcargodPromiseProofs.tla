------------------------ MODULE RcargodPromiseProofs ------------------------
(***************************************************************************)
(* A session of rcargod implements BuildStream: the proof that every step  *)
(* of serve_one, of the tasks of run_cargo, of cargo and of the peer is a  *)
(* step of the promise or leaves what the promise speaks of alone.         *)
(***************************************************************************)
EXTENDS RcargodSessionProofs

-----------------------------------------------------------------------------
(* The lines that the readers take.                                        *)

LEMMA GoodStays ==
  ASSUME GoodInv, UNCHANGED <<taken, good, written, reader, pipe>>,
         pc = "Done" => pc' = "Done"
  PROVE  GoodInv'
  BY DEF GoodInv

LEMMA EndGood ==
  ASSUME GoodInv, EndSession
  PROVE  GoodInv'
<1>1. CASE Stdio
  <2>1. \A s \in Streams : reader'[s] # "reading"
    BY <1>1 DEF EndSession
  <2> QED
    BY <2>1 DEF EndSession, GoodInv, cargoVars
<1>2. CASE ~Stdio
  BY <1>2, GoodStays DEF EndSession, cargoVars
<1> QED
  BY <1>1, <1>2

LEMMA ServeGood == Types /\ GoodInv /\ Serve => GoodInv'
<1> SUFFICES ASSUME Types, GoodInv, Serve PROVE GoodInv'
  OBVIOUS
<1>1. ASSUME NEW r \in {"blank", "hello", "garbage"}, Answer(r) PROVE GoodInv'
  BY <1>1, GoodStays DEF Answer, taskVars, cargoVars
<1>2. ASSUME NEW r \in {"bye", "binary"}, Hangup(r) PROVE GoodInv'
  BY <1>2, EndGood DEF Hangup
<1>3. CASE EndOfInput
  BY <1>3, EndGood DEF EndOfInput
<1>4. ASSUME NEW c \in {1, 127}, RefuseBuild(c) PROVE GoodInv'
  BY <1>4, GoodStays DEF RefuseBuild, NextLine, taskVars, cargoVars
<1>5. CASE StartBuild
  <2>1. \A s \in Streams : /\ reader'[s] = "reading" /\ written'[s] = 0
                           /\ taken'[s] = 0 /\ good'[s] = 0
    <3>1. /\ reader' = [s \in Streams |-> "reading"]
          /\ written' = [s \in Streams |-> 0]
          /\ taken' = [s \in Streams |-> 0] /\ good' = [s \in Streams |-> 0]
      BY <1>5 DEF StartBuild, Each
    <3> QED
      BY <3>1
  <2>2. 1..(0 - 0) = {}
    OBVIOUS
  <2> QED
    BY <2>1, <2>2 DEF GoodInv
<1>6. CASE Recv
  BY <1>6, GoodStays DEF Recv, taskVars, cargoVars
<1>7. CASE FinishBuild
  BY <1>7, GoodStays DEF FinishBuild, taskVars, cargoVars
<1>8. CASE Emit
  BY <1>8, GoodStays DEF Emit, taskVars, cargoVars
<1>9. CASE EmitFails
  BY <1>9, EndGood DEF EmitFails
<1> QED
  BY <1>1, <1>2, <1>3, <1>4, <1>5, <1>6, <1>7, <1>8, <1>9 DEF Serve

(* A line is taken only before the first that is no UTF-8.                 *)
LEMMA ReadGood ==
  ASSUME Types, PipeInv, GoodInv, NEW s \in Streams, ReadLine(s)
  PROVE  GoodInv'
<1>1. /\ pipe[s] \in Seq(Entry) /\ pipe[s] # <<>> /\ Head(pipe[s]).utf8
      /\ reader[s] = "reading" /\ UNCHANGED <<reader, good, written, pc>>
      /\ pipe' = [pipe EXCEPT ![s] = Tail(pipe[s])]
      /\ taken' = [taken EXCEPT ![s] = taken[s] + 1]
      /\ taken[s] \in Nat /\ written[s] \in Nat /\ good[s] \in Nat
  BY DEF ReadLine, Types, cargoVars
<1>2. /\ Head(pipe[s]) = pipe[s][1] /\ Len(pipe[s]) \in Nat /\ Len(pipe[s]) # 0
      /\ Len(Tail(pipe[s])) = Len(pipe[s]) - 1
      /\ \A i \in 1..(Len(pipe[s]) - 1) : Tail(pipe[s])[i] = pipe[s][i + 1]
  BY <1>1, HeadTailProperties, LenProperties, EmptySeq
<1>3. /\ Len(pipe[s]) = written[s] - taken[s] /\ taken[s] <= good[s] /\ good[s] <= written[s]
      /\ taken[s] \in Nat /\ written[s] \in Nat /\ good[s] \in Nat
  BY <1>1 DEF PipeInv, GoodInv
<1>4. /\ \A i \in 1..(good[s] - taken[s]) : pipe[s][i].utf8
      /\ good[s] < written[s] => ~pipe[s][good[s] - taken[s] + 1].utf8
  BY <1>1 DEF GoodInv
<1>5. taken[s] + 1 <= good[s]
  <2> SUFFICES ASSUME good[s] = taken[s] PROVE FALSE
    BY <1>1, <1>3
  <2>1. good[s] < written[s] /\ good[s] - taken[s] + 1 = 1
    BY <1>1, <1>2, <1>3
  <2> QED
    BY <1>1, <1>2, <1>4, <2>1
<1>6. \A i \in 1..(good[s] - (taken[s] + 1)) : Tail(pipe[s])[i].utf8
  <2> SUFFICES ASSUME NEW i \in 1..(good[s] - (taken[s] + 1))
               PROVE  Tail(pipe[s])[i].utf8
    OBVIOUS
  <2>1. i + 1 \in 1..(good[s] - taken[s]) /\ i \in 1..(Len(pipe[s]) - 1)
    BY <1>3
  <2> QED
    BY <1>2, <1>4, <2>1
<1>7. good[s] < written[s] => ~Tail(pipe[s])[good[s] - (taken[s] + 1) + 1].utf8
  <2> SUFFICES ASSUME good[s] < written[s]
               PROVE  ~Tail(pipe[s])[good[s] - (taken[s] + 1) + 1].utf8
    OBVIOUS
  <2>1. good[s] - (taken[s] + 1) + 1 \in 1..(Len(pipe[s]) - 1)
    BY <1>3, <1>5
  <2>2. (good[s] - (taken[s] + 1) + 1) + 1 = good[s] - taken[s] + 1
    BY <1>1
  <2> QED
    BY <1>2, <1>4, <2>1, <2>2
<1>8. /\ taken'[s] = taken[s] + 1 /\ pipe'[s] = Tail(pipe[s])
      /\ \A x \in Streams \ {s} : taken'[x] = taken[x] /\ pipe'[x] = pipe[x]
  BY <1>1 DEF Types
<1>9. ASSUME NEW x \in Streams \ {s}
      PROVE  /\ taken'[x] <= good'[x] /\ good'[x] <= written'[x]
             /\ reader'[x] = "reading" =>
                  /\ \A i \in 1..(good'[x] - taken'[x]) : pipe'[x][i].utf8
                  /\ good'[x] < written'[x] => ~pipe'[x][good'[x] - taken'[x] + 1].utf8
             /\ reader'[x] # "reading" /\ pc' # "Done" => good'[x] = taken'[x]
  BY <1>1, <1>8 DEF GoodInv
<1>10. /\ taken'[s] <= good'[s] /\ good'[s] <= written'[s]
       /\ \A i \in 1..(good'[s] - taken'[s]) : pipe'[s][i].utf8
       /\ good'[s] < written'[s] => ~pipe'[s][good'[s] - taken'[s] + 1].utf8
  BY <1>1, <1>3, <1>5, <1>6, <1>7, <1>8
<1> QED
  BY <1>1, <1>9, <1>10 DEF GoodInv

(* A reader that stops has taken all it could.                             *)
LEMMA StopGood ==
  ASSUME Types, PipeInv, GoodInv, NEW s \in Streams, ReaderStops(s)
  PROVE  GoodInv'
<1>1. /\ pipe[s] \in Seq(Entry) /\ reader[s] = "reading"
      /\ pipe[s] = <<>> \/ ~Head(pipe[s]).utf8
      /\ UNCHANGED <<taken, good, written, pc>>
      /\ taken[s] \in Nat /\ written[s] \in Nat /\ good[s] \in Nat
  BY DEF ReaderStops, Types, cargoVars
<1>2. Len(pipe[s]) = written[s] - taken[s] /\ taken[s] <= good[s] /\ good[s] <= written[s]
  BY <1>1 DEF PipeInv, GoodInv
<1>3. good[s] = taken[s]
  <2>1. CASE pipe[s] = <<>>
    <3>1. Len(pipe[s]) = 0
      BY <2>1
    <3> QED
      BY <1>1, <1>2, <3>1
  <2>2. CASE pipe[s] # <<>>
    <3>1. ~pipe[s][1].utf8
      BY <1>1, <2>2, Uncons
    <3>2. 1 \in 1..(good[s] - taken[s]) => pipe[s][1].utf8
      BY <1>1 DEF GoodInv
    <3> QED
      BY <1>1, <1>2, <3>1, <3>2
  <2> QED
    BY <2>1, <2>2
<1>4. /\ reader'[s] # "reading"
      /\ \A x \in Streams \ {s} : reader'[x] = reader[x] /\ pipe'[x] = pipe[x]
  BY DEF ReaderStops, Types
<1>5. ASSUME NEW x \in Streams \ {s}
      PROVE  /\ taken'[x] <= good'[x] /\ good'[x] <= written'[x]
             /\ reader'[x] = "reading" =>
                  /\ \A i \in 1..(good'[x] - taken'[x]) : pipe'[x][i].utf8
                  /\ good'[x] < written'[x] => ~pipe'[x][good'[x] - taken'[x] + 1].utf8
             /\ reader'[x] # "reading" /\ pc' # "Done" => good'[x] = taken'[x]
  BY <1>1, <1>4 DEF GoodInv
<1> QED
  BY <1>1, <1>2, <1>3, <1>4, <1>5 DEF GoodInv

(* The good lines end with the first line that is no UTF-8.                *)
LEMMA WriteGood ==
  ASSUME Types, PipeInv, GoodInv, NEW s \in Streams, NEW utf8 \in BOOLEAN,
         Write(s, utf8), UNCHANGED <<reader, taken, pc>>
  PROVE  GoodInv'
<1> DEFINE e == [n |-> written[s] + 1, utf8 |-> utf8]
           r == Append(pipe[s], e)
           g == IF utf8 /\ good[s] = written[s] THEN good[s] + 1 ELSE good[s]
<1>1. /\ pipe[s] \in Seq(Entry) /\ e \in Entry /\ e.utf8 = utf8
      /\ taken[s] \in Nat /\ written[s] \in Nat /\ good[s] \in Nat
      /\ taken[s] <= good[s] /\ good[s] <= written[s]
  BY DEF Types, Entry, GoodInv
<1>2. written'[s] = written[s] + 1
  BY DEF Write, Types
<1>3. \A x \in Streams \ {s} :
        written'[x] = written[x] /\ good'[x] = good[x] /\ pipe'[x] = pipe[x]
  BY DEF Write, Types
<1>4. ASSUME NEW x \in Streams \ {s}
      PROVE  /\ taken'[x] <= good'[x] /\ good'[x] <= written'[x]
             /\ reader'[x] = "reading" =>
                  /\ \A i \in 1..(good'[x] - taken'[x]) : pipe'[x][i].utf8
                  /\ good'[x] < written'[x] => ~pipe'[x][good'[x] - taken'[x] + 1].utf8
             /\ reader'[x] # "reading" /\ pc' # "Done" => good'[x] = taken'[x]
  BY <1>3 DEF GoodInv
<1>5. CASE reader[s] # "reading"
  <2>1. good'[s] = good[s]
    BY <1>5 DEF Write
  <2>2. pc # "Done" => good[s] = taken[s]
    BY <1>5 DEF GoodInv
  <2>3. taken[s] <= good'[s] /\ good'[s] <= written'[s]
    BY <1>1, <1>2, <2>1
  <2> QED
    BY <1>4, <1>5, <2>1, <2>2, <2>3 DEF GoodInv
<1>6. CASE reader[s] = "reading"
  <2>1. pipe'[s] = r /\ good'[s] = g
    BY <1>6 DEF Write, Types
  <2>2. /\ Len(pipe[s]) = written[s] - taken[s]
        /\ \A i \in 1..(good[s] - taken[s]) : pipe[s][i].utf8
        /\ good[s] < written[s] => ~pipe[s][good[s] - taken[s] + 1].utf8
    BY <1>6 DEF PipeInv, GoodInv
  <2> HIDE DEF e
  <2>3. /\ r[Len(pipe[s]) + 1] = e
        /\ \A i \in 1..Len(pipe[s]) : r[i] = pipe[s][i]
    BY <1>1, Snoc, LenProperties
  <2> HIDE DEF r
  <2>4. CASE utf8 /\ good[s] = written[s]
    <3>1. g = written[s] + 1
      BY <2>4
    <3>2. \A i \in 1..((written[s] + 1) - taken[s]) : r[i].utf8
      <4> SUFFICES ASSUME NEW i \in 1..((written[s] + 1) - taken[s]) PROVE r[i].utf8
        OBVIOUS
      <4>1. CASE i = Len(pipe[s]) + 1
        BY <1>1, <2>3, <2>4, <4>1
      <4>2. CASE i # Len(pipe[s]) + 1
        <5>1. i \in 1..Len(pipe[s]) /\ i \in 1..(good[s] - taken[s])
          <6>1. written[s] \in Nat /\ taken[s] \in Nat /\ taken[s] <= written[s]
                /\ Len(pipe[s]) = written[s] - taken[s]
            BY <1>1, <2>2, <2>4
          <6>2. i \in 1..(written[s] - taken[s])
            BY <4>2, <6>1
          <6> QED
            BY <2>4, <6>1, <6>2
        <5> QED
          BY <2>2, <2>3, <5>1
      <4> QED
        BY <4>1, <4>2
    <3> HIDE DEF g
    <3>3. /\ taken'[s] <= good'[s] /\ good'[s] <= written'[s] /\ ~(good'[s] < written'[s])
          /\ \A i \in 1..(good'[s] - taken'[s]) : pipe'[s][i].utf8
      BY <1>1, <1>2, <2>1, <3>1, <3>2
    <3> QED
      BY <1>4, <1>6, <3>3 DEF GoodInv
  <2>5. CASE ~(utf8 /\ good[s] = written[s])
    <3>1. g = good[s]
      BY <2>5
    <3> HIDE DEF g
    <3>2. \A i \in 1..(good[s] - taken[s]) : r[i].utf8
      <4> SUFFICES ASSUME NEW i \in 1..(good[s] - taken[s]) PROVE r[i].utf8
        OBVIOUS
      <4>1. i \in 1..Len(pipe[s])
        BY <1>1, <2>2
      <4> QED
        BY <2>2, <2>3, <4>1
    <3>3. ~r[good[s] - taken[s] + 1].utf8
      <4>1. CASE good[s] = written[s]
        <5>1. good[s] - taken[s] + 1 = Len(pipe[s]) + 1
          BY <1>1, <2>2, <4>1
        <5> QED
          BY <1>1, <2>3, <2>5, <4>1, <5>1
      <4>2. CASE good[s] # written[s]
        <5>1. good[s] - taken[s] + 1 \in 1..Len(pipe[s]) /\ good[s] < written[s]
          BY <1>1, <2>2, <4>2
        <5> QED
          BY <2>2, <2>3, <5>1
      <4> QED
        BY <4>1, <4>2
    <3>4. /\ taken'[s] <= good'[s] /\ good'[s] <= written'[s]
          /\ \A i \in 1..(good'[s] - taken'[s]) : pipe'[s][i].utf8
          /\ ~pipe'[s][good'[s] - taken'[s] + 1].utf8
      BY <1>1, <1>2, <2>1, <3>1, <3>2, <3>3
    <3> QED
      BY <1>4, <1>6, <3>4 DEF GoodInv
  <2> QED
    BY <2>4, <2>5
<1> QED
  BY <1>5, <1>6

LEMMA NextGood == Types /\ PipeInv /\ GoodInv /\ [Next]_vars => GoodInv'
<1> SUFFICES ASSUME Types, PipeInv, GoodInv, [Next]_vars PROVE GoodInv'
  OBVIOUS
<1>0. Encodings \subseteq BOOLEAN
  BY DEF Encodings
<1>1. CASE Peer
  BY <1>1, GoodStays DEF Peer, PeerReads, PeerSends, PeerLeaves, taskVars, cargoVars
<1>2. CASE WaitReaps
  BY <1>2, GoodStays DEF WaitReaps, cargoVars
<1>3. ASSUME NEW s \in Streams, CargoWants(s) PROVE GoodInv'
  BY <1>3, GoodStays DEF CargoWants, taskVars
<1>4. ASSUME NEW s \in Streams, CargoWrites(s) PROVE GoodInv'
  BY <1>0, <1>4, WriteGood DEF CargoWrites, taskVars
<1>5. ASSUME NEW s \in Streams, BackgroundWrites(s) PROVE GoodInv'
  BY <1>0, <1>5, WriteGood DEF BackgroundWrites, taskVars
<1>6. ASSUME NEW c \in ExitCodes \cup {Killed}, CargoExits(c) PROVE GoodInv'
  BY <1>6, GoodStays DEF CargoExits, taskVars
<1>7. CASE BackgroundEnds
  BY <1>7, GoodStays DEF BackgroundEnds, taskVars
<1>8. CASE UNCHANGED vars
  BY <1>8, GoodStays DEF vars
<1> QED
  BY <1>1, <1>2, <1>3, <1>4, <1>5, <1>6, <1>7, <1>8, ServeGood, ReadGood, StopGood
  DEF Next, Cargo, Task, Terminated

-----------------------------------------------------------------------------
(* What is about to be written.                                            *)

LEMMA PendingStays ==
  ASSUME PendingInv, UNCHANGED <<pc, pending, chan, build, taken>>,
         pc = "Report" => status' = status
  PROVE  PendingInv'
  BY DEF PendingInv

LEMMA EndPending ==
  ASSUME EndSession
  PROVE  PendingInv'
<1>1. pc' = "Done" /\ pending' = <<>> /\ chan' = <<>>
  BY DEF EndSession
<1>2. DOMAIN chan' = {}
  BY <1>1
<1> QED
  BY <1>1, <1>2 DEF PendingInv

(* emit takes away the first of the events that are due.                   *)
LEMMA EmitPending ==
  ASSUME Types, PendingInv, Emit
  PROVE  PendingInv'
<1>1. /\ pending # <<>> /\ pending' = Tail(pending)
      /\ pc' = IF pc \in {"Refuse", "Report"} /\ Tail(pending) = <<>> THEN "Read" ELSE pc
      /\ UNCHANGED <<chan, build, taken, status>>
  BY DEF Emit, taskVars, cargoVars
<1>2. \A i \in DOMAIN chan' : TakenLine(chan'[i], build', taken')
  BY <1>1 DEF PendingInv
<1>3. \A e : Tail(<<e>>) = <<>>
  OBVIOUS
<1>4. \A e, f : Tail(<<e, f>>) = <<f>> /\ <<f>> # <<>>
  OBVIOUS
<1>5. CASE pc = "Read"
  <2>1. pc' = "Read" /\ pending' = <<>>
    BY <1>1, <1>3, <1>5 DEF PendingInv
  <2> QED
    BY <1>2, <2>1 DEF PendingInv
<1>6. CASE pc = "Refuse"
  <2>1. PICK c \in {1, 127} :
          pending = <<Error(build), Exit(build, c)>> \/ pending = <<Exit(build, c)>>
    BY <1>6 DEF PendingInv
  <2>2. CASE pending = <<Error(build), Exit(build, c)>>
    <3>1. pc' = "Refuse" /\ pending' = <<Exit(build', c)>>
      BY <1>1, <1>4, <1>6, <2>2
    <3> QED
      BY <1>2, <3>1 DEF PendingInv
  <2>3. CASE pending = <<Exit(build, c)>>
    <3>1. pc' = "Read" /\ pending' = <<>>
      BY <1>1, <1>3, <1>6, <2>3
    <3> QED
      BY <1>2, <3>1 DEF PendingInv
  <2> QED
    BY <2>1, <2>2, <2>3
<1>7. CASE pc = "Drain"
  <2>1. pc' = "Drain" /\ pending' = <<>>
    BY <1>1, <1>7 DEF PendingInv
  <2> QED
    BY <1>2, <2>1 DEF PendingInv
<1>8. CASE pc = "Report"
  <2>1. pc' = "Read" /\ pending' = <<>>
    BY <1>1, <1>3, <1>8 DEF PendingInv
  <2> QED
    BY <1>2, <2>1 DEF PendingInv
<1>9. pc # "Done"
  BY <1>1 DEF PendingInv
<1> QED
  BY <1>5, <1>6, <1>7, <1>8, <1>9 DEF Types

LEMMA ServePending == Types /\ PhaseInv /\ PendingInv /\ Serve => PendingInv'
<1> SUFFICES ASSUME Types, PhaseInv, PendingInv, Serve PROVE PendingInv'
  OBVIOUS
<1>0. DOMAIN <<>> = {}
  OBVIOUS
<1>1. ASSUME NEW r \in {"blank", "hello", "garbage"}, Answer(r) PROVE PendingInv'
  <2>1. pc' = "Read" /\ UNCHANGED <<chan, build, taken>>
    BY <1>1 DEF Answer, NextLine, taskVars
  <2>2. pending' \in {<<>>, <<HelloAck>>, <<Error(0)>>}
    BY <1>1 DEF Answer
  <2> QED
    BY <2>1, <2>2 DEF PendingInv
<1>2. ASSUME NEW c \in {1, 127}, RefuseBuild(c) PROVE PendingInv'
  <2>1. pc' = "Refuse" /\ pending' = <<Error(build'), Exit(build', c)>> /\ chan' = <<>>
    BY <1>2 DEF RefuseBuild, NextLine, PhaseInv
  <2>2. DOMAIN chan' = {}
    BY <1>0, <2>1
  <2> QED
    BY <2>1, <2>2 DEF PendingInv
<1>3. CASE StartBuild
  <2>1. pc' = "Drain" /\ pending' = <<>> /\ chan' = <<>>
    BY <1>3 DEF StartBuild, NextLine
  <2>2. DOMAIN chan' = {}
    BY <1>0, <2>1
  <2> QED
    BY <2>1, <2>2 DEF PendingInv
<1>4. CASE Recv
  <2>1. /\ pc' = "Drain" /\ chan # <<>> /\ pending' = <<Head(chan)>> /\ chan' = Tail(chan)
        /\ UNCHANGED <<build, taken>> /\ chan \in Seq(Event)
    BY <1>4 DEF Recv, taskVars, Types
  <2>2. Tail(pending') = <<>> /\ Head(pending') = chan[1] /\ 1 \in DOMAIN chan
    BY <2>1, Uncons
  <2>3. \A i \in DOMAIN chan' : i + 1 \in DOMAIN chan /\ chan'[i] = chan[i + 1]
    BY <2>1, Uncons
  <2>4. \A i \in DOMAIN chan : TakenLine(chan[i], build, taken)
    BY DEF PendingInv
  <2>5. TakenLine(Head(pending'), build', taken')
    BY <2>1, <2>2, <2>4
  <2>6. \A i \in DOMAIN chan' : TakenLine(chan'[i], build', taken')
    BY <2>1, <2>3, <2>4
  <2> QED
    BY <2>1, <2>2, <2>5, <2>6 DEF PendingInv
<1>5. CASE FinishBuild
  <2>1. /\ pc' = "Report" /\ pending' = <<Exit(build', CodeOf(status'))>>
        /\ UNCHANGED <<chan, build, taken>>
    BY <1>5 DEF FinishBuild, taskVars, cargoVars
  <2> QED
    BY <2>1 DEF PendingInv
<1> QED
  BY <1>1, <1>2, <1>3, <1>4, <1>5, EmitPending, EndPending
     DEF Serve, Hangup, EndOfInput, EmitFails

LEMMA ReadPending ==
  ASSUME Types, PipeInv, PhaseInv, PendingInv, NEW s \in Streams, ReadLine(s)
  PROVE  PendingInv'
<1> DEFINE e == Line(s, build, taken[s] + 1)
<1>1. /\ reader[s] = "reading" /\ pipe[s] # <<>> /\ pipe[s] \in Seq(Entry)
      /\ taken' = [taken EXCEPT ![s] = taken[s] + 1]
      /\ taken \in [Streams -> Nat] /\ build \in Nat
      /\ UNCHANGED <<pc, pending, build, status>>
  BY DEF ReadLine, Types, cargoVars
<1>2. Head(pipe[s]).n = taken[s] + 1
  BY <1>1, Uncons DEF PipeInv, Types
<1>3. \A x \in Streams : taken[x] \in Nat /\ taken'[x] \in Nat /\ taken[x] <= taken'[x]
  BY <1>1
<1>4. \A x \in Streams : 1..taken[x] \subseteq 1..taken'[x]
  BY <1>3
<1>5. \A y : TakenLine(y, build, taken) => TakenLine(y, build, taken')
  BY <1>4 DEF TakenLine
<1>6. TakenLine(e, build, taken')
  <2>1. taken[s] + 1 \in 1..taken'[s]
    BY <1>1
  <2> QED
    BY <2>1 DEF TakenLine
<1>7. e \in Event
  BY <1>1, EventsTyped
<1>8. chan' = chan \/ chan' = Append(chan, e)
  BY <1>2 DEF ReadLine
<1> HIDE DEF e
<1>9. \A i \in DOMAIN chan' : TakenLine(chan'[i], build', taken')
  <2>1. CASE chan' = chan
    BY <1>1, <1>5, <2>1 DEF PendingInv
  <2>2. CASE chan' = Append(chan, e)
    <3>1. /\ DOMAIN chan' = 1..(Len(chan) + 1) /\ chan'[Len(chan) + 1] = e
          /\ \A i \in DOMAIN chan : chan'[i] = chan[i]
          /\ DOMAIN chan = 1..Len(chan) /\ Len(chan) \in Nat
      BY <1>7, <2>2, Snoc, LenProperties DEF Types
    <3>2. \A i \in 1..(Len(chan) + 1) : i = Len(chan) + 1 \/ i \in DOMAIN chan
      BY <3>1
    <3> QED
      BY <1>1, <1>5, <1>6, <3>1, <3>2 DEF PendingInv
  <2> QED
    BY <1>8, <2>1, <2>2
<1> QED
  BY <1>1, <1>5, <1>9 DEF PendingInv

LEMMA NextPending ==
  Types /\ PipeInv /\ PhaseInv /\ PendingInv /\ [Next]_vars => PendingInv'
<1> SUFFICES ASSUME Types, PipeInv, PhaseInv, PendingInv, [Next]_vars PROVE PendingInv'
  OBVIOUS
<1>1. CASE Peer
  BY <1>1, PendingStays DEF Peer, PeerReads, PeerSends, PeerLeaves, taskVars, cargoVars
<1>2. ASSUME NEW s \in Streams, ReaderStops(s) PROVE PendingInv'
  BY <1>2, PendingStays DEF ReaderStops, cargoVars
<1>3. CASE WaitReaps
  BY <1>3, PendingStays DEF WaitReaps, cargoVars
<1>4. CASE Cargo
  <2>1. pc = "Report" => cargo # "running"
    BY DEF PhaseInv
  <2> QED
    BY <1>4, <2>1, PendingStays DEF Cargo, CargoWants, CargoWrites, BackgroundWrites,
                                   CargoExits, BackgroundEnds, taskVars
<1>5. CASE UNCHANGED vars
  BY <1>5, PendingStays DEF vars
<1> QED
  BY <1>1, <1>2, <1>3, <1>4, <1>5, ServePending, ReadPending DEF Next, Task, Terminated

-----------------------------------------------------------------------------
(* When an Exit is due.                                                    *)

LEMMA ReportStays ==
  ASSUME ReportInv, UNCHANGED <<pc, build, good, wire>>,
         cargo # "none" => cargo' # "none"
  PROVE  ReportInv'
  BY DEF ReportInv, OnWire

(* Where no reader is at work the lines that can be forwarded are settled. *)
LEMMA WriteReport ==
  ASSUME PhaseInv, ReportInv, NEW s \in Streams, NEW utf8 \in BOOLEAN,
         Write(s, utf8), UNCHANGED <<pc, build, wire, cargo>>
  PROVE  ReportInv'
<1>1. CASE reader[s] = "reading"
  <2>1. pc # "Report"
    BY <1>1 DEF PhaseInv
  <2> QED
    BY <2>1 DEF ReportInv
<1>2. CASE reader[s] # "reading"
  BY <1>2, ReportStays DEF Write
<1> QED
  BY <1>1, <1>2

(* At the end of a build all that was taken is on the wire.                *)
LEMMA FinishReport ==
  ASSUME Types, QueueInv, GoodInv, ReportInv, FinishBuild
  PROVE  ReportInv'
<1>1. /\ pc = "Drain" /\ pending = <<>> /\ chan = <<>>
      /\ \A s \in Streams : reader[s] = "stopped"
      /\ UNCHANGED <<wire, build, good, cargo>>
  BY DEF FinishBuild, SendersGone, cargoVars
<1>2. Queue = wire
  BY <1>1, ConcatEmptySeq DEF Queue, Types
<1>3. \A s \in Streams : \A n \in 1..taken[s] : OnWire(Line(s, build, n))
  BY <1>1, <1>2 DEF QueueInv, DrainOk, OnWire
<1>4. \A s \in Streams : good[s] = taken[s]
  BY <1>1 DEF GoodInv
<1> QED
  BY <1>1, <1>3, <1>4 DEF ReportInv, OnWire

LEMMA NextReport ==
  /\ Types /\ QueueInv /\ PhaseInv /\ PendingInv /\ GoodInv /\ ReportInv
  /\ [Next]_vars
  => ReportInv'
<1> SUFFICES ASSUME Types, QueueInv, PhaseInv, PendingInv, GoodInv, ReportInv, [Next]_vars
             PROVE  ReportInv'
  OBVIOUS
<1>0. Encodings \subseteq BOOLEAN
  BY DEF Encodings
<1>1. CASE Peer
  BY <1>1, ReportStays DEF Peer, PeerReads, PeerSends, PeerLeaves, cargoVars
<1>2. CASE \E s \in Streams : Task(s)
  BY <1>2, ReportStays DEF Task, ReadLine, ReaderStops, cargoVars
<1>3. CASE WaitReaps
  BY <1>3, ReportStays DEF WaitReaps, cargoVars
<1>4. CASE BackgroundEnds \/ \E s \in Streams : CargoWants(s)
  BY <1>4, ReportStays DEF CargoWants, BackgroundEnds
<1>5. ASSUME NEW s \in Streams, CargoWrites(s) \/ BackgroundWrites(s) PROVE ReportInv'
  BY <1>0, <1>5, WriteReport DEF CargoWrites, BackgroundWrites
<1>6. ASSUME NEW c \in ExitCodes \cup {Killed}, CargoExits(c) PROVE ReportInv'
  BY <1>6, ReportStays DEF CargoExits
<1>7. ASSUME NEW r \in {"blank", "hello", "garbage"}, Answer(r) PROVE ReportInv'
  BY <1>7, ReportStays DEF Answer, NextLine, cargoVars
<1>8. ASSUME EndSession PROVE ReportInv'
  BY <1>8 DEF EndSession, ReportInv
<1>9. ASSUME NEW c \in {1, 127}, RefuseBuild(c) PROVE ReportInv'
  BY <1>9 DEF RefuseBuild, ReportInv
<1>10. CASE StartBuild
  BY <1>10 DEF StartBuild, ReportInv
<1>11. CASE Recv
  BY <1>11, ReportStays DEF Recv, cargoVars
<1>12. CASE Emit
  <2>1. pc = "Report" => pc' = "Read"
    <3>1. \A e : Tail(<<e>>) = <<>>
      OBVIOUS
    <3>2. pc = "Report" => pending = <<Exit(build, CodeOf(status))>>
      BY DEF PendingInv
    <3>3. pc = "Report" => Tail(pending) = <<>>
      BY <3>1, <3>2
    <3> QED
      BY <1>12, <3>3 DEF Emit
  <2>2. pc' = "Drain" => pc = "Drain"
    BY <1>12 DEF Emit
  <2>3. pc' # "Report" /\ UNCHANGED cargo
    BY <1>12, <2>1 DEF Emit, cargoVars
  <2> QED
    BY <2>2, <2>3 DEF ReportInv
<1>13. CASE UNCHANGED vars
  BY <1>13, ReportStays DEF vars
<1> QED
  BY <1>1, <1>2, <1>3, <1>4, <1>5, <1>6, <1>7, <1>8, <1>9, <1>10, <1>11, <1>12, <1>13,
     FinishReport
     DEF Next, Serve, Cargo, Hangup, EndOfInput, EmitFails, Terminated

LEMMA PromiseInit == Init => PromiseInv
<1> SUFFICES ASSUME Init PROVE PromiseInv
  OBVIOUS
<1>1. pc = "Read" /\ pending = <<>> /\ chan = <<>> /\ DOMAIN chan = {}
  BY DEF Init
<1>2. \A s \in Streams : taken[s] = 0 /\ good[s] = 0 /\ written[s] = 0 /\ reader[s] = "idle"
  BY DEF Init, Each
<1> QED
  BY <1>1, <1>2 DEF PromiseInv, PendingInv, GoodInv, ReportInv

LEMMA PromiseAlways == Spec => [](Inv /\ PromiseInv)
<1>1. Init => Inv /\ PromiseInv
  BY InvInit, PromiseInit
<1>2. Inv /\ PromiseInv /\ [Next]_vars => (Inv /\ PromiseInv)'
  BY InvNext, NextPending, NextGood, NextReport DEF Inv, PromiseInv
<1> QED
  BY <1>1, <1>2, PTL DEF Spec

-----------------------------------------------------------------------------
(* Step by step: what BuildStream sees of a session.                       *)

LEMMA PhaseCases ==
  /\ pc = "Read" => Phase = "idle"
  /\ pc = "Refuse" => Phase = IF Len(pending) = 2 THEN "refusing" ELSE "refused"
  /\ pc \in {"Drain", "Report"} => Phase = "building"
  /\ pc = "Done" => Phase = "over"
  BY DEF Phase

LEMMA PhaseCasesNext ==
  /\ pc' = "Read" => Phase' = "idle"
  /\ pc' = "Refuse" => Phase' = IF Len(pending') = 2 THEN "refusing" ELSE "refused"
  /\ pc' \in {"Drain", "Report"} => Phase' = "building"
  /\ pc' = "Done" => Phase' = "over"
  BY DEF Phase

(* A step that writes nothing, takes up nothing, and does not end it.      *)
LEMMA Unseen ==
  ASSUME UNCHANGED <<wire, build, cargo, status, good, pc>>,
         pc = "Refuse" => pending' = pending
  PROVE  UNCHANGED Promise!vars
<1>1. Phase' = Phase
  BY DEF Phase
<1> QED
  BY <1>1 DEF Promise!vars

LEMMA PromiseOver ==
  ASSUME EndSession
  PROVE  Promise!Over
<1>1. pc' = "Done" /\ UNCHANGED <<wire, build, cargo, status, good>>
  BY DEF EndSession, cargoVars
<1> QED
  BY <1>1, PhaseCasesNext DEF Promise!Over

(* The line that is written next is new on the wire, and its predecessor   *)
(* is there: both follow from the order of the queue.                      *)
LEMMA NextOnWire ==
  ASSUME Inv, pending # <<>>, NEW s \in Streams, NEW n \in Nat,
         Head(pending) = Line(s, build, n)
  PROVE  /\ ~OnWire(Line(s, build, n))
         /\ n > 1 => OnWire(Line(s, build, n - 1))
<1> DEFINE e == Line(s, build, n)
           k == Len(wire) + 1
<1>1. /\ wire \in Seq(Event) /\ pending \in Seq(Event) /\ chan \in Seq(Event)
      /\ Queue \in Seq(Event) /\ StreamInOrder(Queue)
  BY QueueTyped DEF Inv, Types, QueueInv, QueueOk
<1>2. /\ Queue = wire \o (pending \o chan) /\ pending \o chan \in Seq(Event)
      /\ Len(pending \o chan) = Len(pending) + Len(chan)
      /\ (pending \o chan)[1] = pending[1]
  <2>1. Len(pending) \in Nat /\ Len(pending) # 0
    BY <1>1, LenProperties, EmptySeq
  <2> QED
    BY <1>1, <2>1, ConcatAssociative, ConcatProperties, LenProperties DEF Queue
<1>3. /\ k \in DOMAIN Queue /\ Queue[k] = e
      /\ \A i \in DOMAIN wire : i \in 1..(k - 1) /\ Queue[i] = wire[i]
      /\ \A i \in 1..(k - 1) : i \in DOMAIN wire
  <2>1. /\ Len(wire) \in Nat /\ DOMAIN wire = 1..Len(wire)
        /\ Len(pending) \in Nat /\ Len(pending) # 0 /\ Len(chan) \in Nat
    BY <1>1, LenProperties, EmptySeq
  <2>2. pending[1] = e
    BY <1>1, Uncons
  <2>3. /\ Len(Queue) = Len(wire) + Len(pending) + Len(chan)
        /\ DOMAIN Queue = 1..Len(Queue)
        /\ \A i \in 1..Len(wire) : Queue[i] = wire[i]
        /\ Queue[Len(wire) + 1] = (pending \o chan)[1]
    BY <1>1, <1>2, <2>1, ConcatProperties, LenProperties
  <2> QED
    BY <1>2, <2>1, <2>2, <2>3
<1>4. e.kind = s /\ e.build = build /\ e.val = n
  BY DEF Line
<1> HIDE DEF e, k
<1>5. /\ \A j \in 1..(k - 1) : Queue[j].kind = s /\ Queue[j].build = build => Queue[j].val < n
      /\ n > 1 => \E j \in 1..(k - 1) : Queue[j] = Line(s, build, n - 1)
  BY <1>1, <1>3, <1>4 DEF StreamInOrder
<1>6. ~OnWire(e)
  <2> SUFFICES ASSUME NEW i \in DOMAIN wire, wire[i] = e PROVE FALSE
    BY DEF OnWire
  <2>1. i \in 1..(k - 1) /\ Queue[i] = e
    BY <1>3
  <2>2. n < n
    BY <1>4, <1>5, <2>1
  <2> QED
    BY <2>2
<1>7. n > 1 => OnWire(Line(s, build, n - 1))
  BY <1>3, <1>5 DEF OnWire
<1> QED
  BY <1>6, <1>7 DEF e

(* What emit writes is what the promise allows next, in every place where  *)
(* serve_one may be writing.                                               *)
LEMMA EmitKeeps ==
  ASSUME Inv, PromiseInv, Emit
  PROVE  [Promise!Next]_(Promise!vars)
<1>1. /\ pending # <<>> /\ wire' = Append(wire, Head(pending)) /\ pending' = Tail(pending)
      /\ pc' = IF pc \in {"Refuse", "Report"} /\ Tail(pending) = <<>> THEN "Read" ELSE pc
      /\ UNCHANGED <<build, cargo, status, good>>
  BY DEF Emit, cargoVars
<1>2. \A e : Head(<<e>>) = e /\ Tail(<<e>>) = <<>> /\ Len(<<e>>) = 1
  OBVIOUS
<1>3. \A e, f : /\ Head(<<e, f>>) = e /\ Tail(<<e, f>>) = <<f>> /\ Len(<<e, f>>) = 2
                /\ <<f>> # <<>>
  OBVIOUS
<1>4. CASE pc = "Read"
  <2>1. pending \in {<<HelloAck>>, <<Error(0)>>}
    BY <1>1, <1>4 DEF PromiseInv, PendingInv
  <2>2. Head(pending) \in {HelloAck, Error(0)}
    BY <1>2, <2>1
  <2>3. Phase = "idle" /\ Phase' = "idle"
    BY <1>1, <1>4, PhaseCases, PhaseCasesNext
  <2>4. Promise!Reply
    BY <1>1, <2>2, <2>3 DEF Promise!Reply, Promise!Send, Promise!HelloAck, Promise!Error, HelloAck, Error
  <2> QED
    BY <2>4 DEF Promise!Next
<1>5. CASE pc = "Refuse"
  <2>1. PICK c \in {1, 127} :
          pending = <<Error(build), Exit(build, c)>> \/ pending = <<Exit(build, c)>>
    BY <1>5 DEF PromiseInv, PendingInv
  <2>2. CASE pending = <<Error(build), Exit(build, c)>>
    <3>1. Len(pending) = 2 /\ Head(pending) = Error(build) /\ pending' = <<Exit(build, c)>>
      BY <1>1, <1>3, <2>2
    <3>2. pc' = "Refuse" /\ Len(pending') = 1
      BY <1>1, <1>2, <1>3, <1>5, <3>1
    <3>3. Phase = "refusing" /\ Phase' = "refused"
      BY <1>5, <3>1, <3>2, PhaseCases, PhaseCasesNext
    <3>4. Promise!RefuseError
      BY <1>1, <3>1, <3>3 DEF Promise!RefuseError, Promise!Send, Promise!Error, Error
    <3> QED
      BY <3>4 DEF Promise!Next
  <2>3. CASE pending = <<Exit(build, c)>>
    <3>1. Len(pending) = 1 /\ Head(pending) = Exit(build, c) /\ pc' = "Read"
      BY <1>1, <1>2, <1>5, <2>3
    <3>2. Phase = "refused" /\ Phase' = "idle"
      BY <1>5, <3>1, PhaseCases, PhaseCasesNext
    <3>3. Promise!RefuseExit
      BY <1>1, <3>1, <3>2 DEF Promise!RefuseExit, Promise!Send, Promise!Exit, Exit
    <3> QED
      BY <3>3 DEF Promise!Next
  <2> QED
    BY <2>1, <2>2, <2>3
<1>6. CASE pc = "Drain"
  <2>1. TakenLine(Head(pending), build, taken)
    BY <1>1, <1>6 DEF PromiseInv, PendingInv
  <2>2. PICK s \in Streams : \E n \in 1..taken[s] : Head(pending) = Line(s, build, n)
    BY <2>1 DEF TakenLine
  <2>3. PICK n \in 1..taken[s] : Head(pending) = Line(s, build, n)
    BY <2>2
  <2>4. n \in Nat /\ n \in 1..good[s] /\ (n = 1 \/ n > 1)
    <3>1. taken[s] \in Nat /\ good[s] \in Nat /\ taken[s] <= good[s]
      BY DEF PromiseInv, GoodInv, Inv, Types
    <3> QED
      BY <3>1
  <2>5. /\ ~OnWire(Line(s, build, n))
        /\ n = 1 \/ OnWire(Line(s, build, n - 1))
    BY <1>1, <2>3, <2>4, NextOnWire
  <2>6. Phase = "building" /\ Phase' = "building"
    BY <1>1, <1>6, PhaseCases, PhaseCasesNext
  <2>7. Promise!Forward(s)
    BY <1>1, <2>3, <2>4, <2>5, <2>6
    DEF Promise!Forward, Promise!Send, Promise!OnWire, OnWire, Promise!Line, Line
  <2> QED
    BY <2>7 DEF Promise!Next, Promise!Streams, Streams
<1>7. CASE pc = "Report"
  <2>1. pending = <<Exit(build, CodeOf(status))>>
    BY <1>7 DEF PromiseInv, PendingInv
  <2>2. Head(pending) = Exit(build, CodeOf(status)) /\ pc' = "Read"
    BY <1>1, <1>2, <1>7, <2>1
  <2>3. Phase = "building" /\ Phase' = "idle"
    BY <1>7, <2>2, PhaseCases, PhaseCasesNext
  <2>4. cargo = "exited"
    BY <1>7 DEF PromiseInv, ReportInv, Inv, PhaseInv, Types
  <2>5. \A s \in Streams : \A n \in 1..good[s] : OnWire(Line(s, build, n))
    BY <1>7 DEF PromiseInv, ReportInv
  <2>6. Promise!Finish
    BY <1>1, <2>2, <2>3, <2>4, <2>5
    DEF Promise!Finish, Promise!Send, Promise!OnWire, OnWire, Promise!Line, Line,
        Promise!Exit, Exit, Promise!CodeOf, CodeOf, Promise!Killed, Killed,
        Promise!Streams, Streams
  <2> QED
    BY <2>6 DEF Promise!Next
<1>8. pc # "Done"
  BY <1>1 DEF PromiseInv, PendingInv
<1> QED
  BY <1>4, <1>5, <1>6, <1>7, <1>8 DEF Inv, Types

(* serve_one, one step at a time.                                          *)
LEMMA ServeKeeps ==
  ASSUME Inv, PromiseInv, Serve
  PROVE  [Promise!Next]_(Promise!vars)
<1>1. ASSUME NEW r \in {"blank", "hello", "garbage"}, Answer(r)
      PROVE  UNCHANGED Promise!vars
  BY <1>1, Unseen DEF Answer, NextLine, cargoVars
<1>2. ASSUME EndSession PROVE Promise!Next
  BY <1>2, PromiseOver DEF Promise!Next
<1>3. ASSUME NEW c \in {1, 127}, RefuseBuild(c) PROVE Promise!Next
  <2>1. /\ pc = "Read" /\ pc' = "Refuse" /\ build' = build + 1
        /\ pending' = <<Error(build'), Exit(build', c)>>
        /\ UNCHANGED <<wire, cargo, status, good>>
    BY <1>3 DEF RefuseBuild, NextLine, cargoVars
  <2>2. Len(pending') = 2
    BY <2>1
  <2>3. Phase = "idle" /\ Phase' = "refusing"
    BY <2>1, <2>2, PhaseCases, PhaseCasesNext
  <2> QED
    BY <2>1, <2>3 DEF Promise!Refuse, Promise!Next
<1>4. CASE StartBuild
  <2>1. /\ pc = "Read" /\ pc' = "Drain" /\ build' = build + 1 /\ cargo' = "running"
        /\ good' = [s \in Streams |-> 0] /\ UNCHANGED <<wire, status>>
    BY <1>4 DEF StartBuild, NextLine, Each
  <2>2. cargo # "running"
    BY <2>1 DEF Inv, PhaseInv
  <2>3. Phase = "idle" /\ Phase' = "building"
    BY <2>1, PhaseCases, PhaseCasesNext
  <2> QED
    BY <2>1, <2>2, <2>3 DEF Promise!Start, Promise!Next, Promise!Streams, Streams
<1>5. CASE Recv
  BY <1>5, Unseen DEF Recv, cargoVars
<1>6. CASE FinishBuild
  <2>1. pc = "Drain" /\ pc' = "Report" /\ UNCHANGED <<wire, build, cargo, status, good>>
    BY <1>6 DEF FinishBuild, cargoVars
  <2>2. Phase' = Phase
    BY <2>1, PhaseCases, PhaseCasesNext
  <2> QED
    BY <2>1, <2>2 DEF Promise!vars
<1> QED
  BY <1>1, <1>2, <1>3, <1>4, <1>5, <1>6, EmitKeeps
  DEF Serve, Hangup, EndOfInput, EmitFails

(* A line that its reader will be able to take.                            *)
LEMMA WriteKeeps ==
  ASSUME Inv, NEW s \in Streams, NEW utf8 \in BOOLEAN, Write(s, utf8),
         UNCHANGED <<wire, pc, pending, build, cargo, status>>
  PROVE  [Promise!Next]_(Promise!vars)
<1>1. Phase' = Phase
  BY DEF Phase
<1>2. CASE good' = good
  BY <1>1, <1>2 DEF Promise!vars
<1>3. CASE good' # good
  <2>1. reader[s] = "reading" /\ good' = [good EXCEPT ![s] = @ + 1]
    BY <1>3 DEF Write
  <2>2. Phase \in {"building", "over"}
    BY <2>1, PhaseCases DEF Inv, PhaseInv
  <2>3. Promise!CargoWrites(s)
    BY <1>1, <2>1, <2>2 DEF Promise!CargoWrites
  <2> QED
    BY <2>3 DEF Promise!Next, Promise!Streams, Streams
<1> QED
  BY <1>2, <1>3

LEMMA StepKeeps ==
  Inv /\ PromiseInv /\ [Next]_vars => [Promise!Next]_(Promise!vars)
<1> SUFFICES ASSUME Inv, PromiseInv, [Next]_vars PROVE [Promise!Next]_(Promise!vars)
  OBVIOUS
<1>0. Encodings \subseteq BOOLEAN
  BY DEF Encodings
<1>1. CASE Peer
  BY <1>1, Unseen DEF Peer, PeerReads, PeerSends, PeerLeaves, cargoVars
<1>2. CASE \E s \in Streams : Task(s)
  BY <1>2, Unseen DEF Task, ReadLine, ReaderStops, cargoVars
<1>3. CASE WaitReaps
  BY <1>3, Unseen DEF WaitReaps, cargoVars
<1>4. CASE BackgroundEnds \/ \E s \in Streams : CargoWants(s)
  BY <1>4, Unseen DEF BackgroundEnds, CargoWants
<1>5. ASSUME NEW s \in Streams, CargoWrites(s) \/ BackgroundWrites(s)
      PROVE  [Promise!Next]_(Promise!vars)
  BY <1>0, <1>5, WriteKeeps DEF CargoWrites, BackgroundWrites
<1>6. ASSUME NEW c \in ExitCodes \cup {Killed}, CargoExits(c) PROVE Promise!Next
  <2>1. /\ cargo = "running" /\ cargo' = "exited" /\ status' = c
        /\ UNCHANGED <<wire, pc, pending, build, good>>
    BY <1>6 DEF CargoExits
  <2>2. c \in Int
    BY ConstantsAssumption DEF ConstantsAssumption, Killed
  <2>3. Phase' = Phase
    BY <2>1 DEF Phase
  <2> QED
    BY <2>1, <2>2, <2>3 DEF Promise!CargoExits, Promise!Next
<1>7. CASE UNCHANGED vars
  BY <1>7, Unseen DEF vars
<1> QED
  BY <1>1, <1>2, <1>3, <1>4, <1>5, <1>6, <1>7, ServeKeeps
  DEF Next, Cargo, Terminated

LEMMA InitKeeps == Init => Promise!Init
<1> SUFFICES ASSUME Init PROVE Promise!Init
  OBVIOUS
<1>1. Phase = "idle"
  BY PhaseCases DEF Init
<1> QED
  BY <1>1 DEF Init, Each, Promise!Init, Promise!Killed, Killed, Promise!Streams, Streams

(* Whatever the two readers, the waiter, the channel and the peer do, the  *)
(* session as its client sees it is a behaviour of BuildStream: serve_one  *)
(* and run_cargo put every line of a stream that can be forwarded on the   *)
(* wire once and in order, and after the last of them the one Exit, which  *)
(* tells how this cargo ended.  For any number of builds, lines and        *)
(* requests, and any capacity of pipes and transport.                      *)
THEOREM Refines == Spec => KeepsPromise
<1>1. Init => Promise!Init
  BY InitKeeps
<1>2. Inv /\ PromiseInv /\ [Next]_vars => [Promise!Next]_(Promise!vars)
  BY StepKeeps
<1> QED
  BY <1>1, <1>2, PromiseAlways, PTL DEF Spec, KeepsPromise, Promise!Spec

(* The same for what serve_one is about to write, for what the readers     *)
(* took, and for the moment when the Exit is due.                          *)
THEOREM PromiseInductive == Spec => []PromiseInv
  BY PromiseAlways, PTL
=============================================================================
