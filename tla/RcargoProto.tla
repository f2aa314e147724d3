---------------------------- MODULE RcargoProto ----------------------------
(***************************************************************************)
(* The vocabulary of the daemon protocol (crates/rcargo-proto): what a     *)
(* client may put on a line and what the daemon answers.  The text of a    *)
(* line, an argument list or a message is abstracted to what the daemon    *)
(* does about it; an Event carries the number of the Build request that it *)
(* belongs to (0: none), which the JSON leaves implicit in the order of    *)
(* the stream, and one integer: the number of an output line within its    *)
(* stream, or an exit code.                                                *)
(***************************************************************************)
EXTENDS Integers

(* The two pipes of a build; also the names of the events that carry them. *)
Streams == {"stdout", "stderr"}

(* A line as serve_one sees it: one of the three requests, a line that is  *)
(* valid text but no request, an empty line, or one that is not UTF-8.     *)
Requests == {"hello", "build", "bye", "garbage", "blank", "binary"}

EventKinds == Streams \cup {"hello_ack", "exit", "error"}

Event == [kind : EventKinds, build : Nat, val : Int]

Line(s, b, n) == [kind |-> s, build |-> b, val |-> n]
HelloAck      == [kind |-> "hello_ack", build |-> 0, val |-> 0]
Error(b)      == [kind |-> "error", build |-> b, val |-> 0]
Exit(b, c)    == [kind |-> "exit", build |-> b, val |-> c]

(* What Rust reports for a child that a signal ended: no code at all.      *)
Killed == -1

(* Seeded fault: the missing code of a killed child goes out as it is.     *)
CodeOfRaw(status) == status

(* status.code().unwrap_or(255), on both ends of every transport.          *)
CodeOf(status) == IF status = Killed THEN 255 ELSE status
=============================================================================
