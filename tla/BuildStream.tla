---------------------------- MODULE BuildStream ----------------------------
(***************************************************************************)
(* What one rcargod session promises its client, without tasks, pipes or   *)
(* channels: replies are appended to the wire one at a time, and every     *)
(* build answers with its output lines, each stream in order, and then     *)
(* with exactly one Exit that tells how cargo really ended.                *)
(*                                                                         *)
(* cargo writes its lines at its own speed (out[s] of them so far that can *)
(* be forwarded); the daemon may lag behind but may not overtake, skip,    *)
(* repeat, or close the build before the last one is on the wire.          *)
(***************************************************************************)
EXTENDS RcargoProto, Sequences

VARIABLES
  wire,    \* every event sent, in order
  phase,   \* "idle" between builds, "refused" between Error and Exit, ...
  build,   \* number of the latest Build request taken up
  cargo,   \* "none", "running" or "exited"
  status,  \* how cargo ended: an exit code, or Killed
  out      \* lines of the current build that cargo wrote, per stream

vars == <<wire, phase, build, cargo, status, out>>

Phases == {"idle", "refusing", "refused", "building", "over"}

OnWire(e) == \E i \in DOMAIN wire : wire[i] = e

Init ==
  /\ wire = <<>>
  /\ phase = "idle"
  /\ build = 0
  /\ cargo = "none"
  /\ status = Killed
  /\ out = [s \in Streams |-> 0]

Send(e) == wire' = Append(wire, e)

(* A request that is no build gets one event, and the session goes on.     *)
Reply ==
  /\ phase = "idle"
  /\ \E e \in {HelloAck, Error(0)} : Send(e)
  /\ UNCHANGED <<phase, build, cargo, status, out>>

(* A build that cannot even be started is an Error followed by an Exit.    *)
Refuse ==
  /\ phase = "idle"
  /\ phase' = "refusing"
  /\ build' = build + 1
  /\ UNCHANGED <<wire, cargo, status, out>>

RefuseError ==
  /\ phase = "refusing"
  /\ phase' = "refused"
  /\ Send(Error(build))
  /\ UNCHANGED <<build, cargo, status, out>>

RefuseExit ==
  /\ phase = "refused"
  /\ phase' = "idle"
  /\ \E c \in {1, 127} : Send(Exit(build, c))
  /\ UNCHANGED <<build, cargo, status, out>>

Start ==
  /\ phase = "idle"
  /\ cargo # "running"
  /\ phase' = "building"
  /\ build' = build + 1
  /\ cargo' = "running"
  /\ out' = [s \in Streams |-> 0]
  /\ UNCHANGED <<wire, status>>

CargoWrites(s) ==
  /\ phase \in {"building", "over"}
  /\ out' = [out EXCEPT ![s] = @ + 1]
  /\ UNCHANGED <<wire, phase, build, cargo, status>>

CargoExits ==
  /\ cargo = "running"
  /\ cargo' = "exited"
  /\ status' \in Int
  /\ UNCHANGED <<wire, phase, build, out>>

(* The next line of one stream, and never before its predecessor.          *)
Forward(s) ==
  /\ phase = "building"
  /\ \E n \in 1..out[s] :
       /\ ~OnWire(Line(s, build, n))
       /\ n = 1 \/ OnWire(Line(s, build, n - 1))
       /\ Send(Line(s, build, n))
  /\ UNCHANGED <<phase, build, cargo, status, out>>

Finish ==
  /\ phase = "building"
  /\ cargo = "exited"
  /\ \A s \in Streams : \A n \in 1..out[s] : OnWire(Line(s, build, n))
  /\ phase' = "idle"
  /\ Send(Exit(build, CodeOf(status)))
  /\ UNCHANGED <<build, cargo, status, out>>

(* The peer said Bye, closed its end, or was lost: nothing more is sent.   *)
Over ==
  /\ phase' = "over"
  /\ UNCHANGED <<wire, build, cargo, status, out>>

Next ==
  \/ Reply \/ Refuse \/ RefuseError \/ RefuseExit
  \/ Start \/ CargoExits \/ Finish \/ Over
  \/ \E s \in Streams : CargoWrites(s) \/ Forward(s)

Spec == Init /\ [][Next]_vars
=============================================================================
