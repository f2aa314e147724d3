--------------------------- MODULE MCRcargodDaemon ---------------------------
(* Values for the constants of RcargodDaemon that a .cfg cannot write.     *)
EXTENDS RcargodDaemon

(* Both listeners, in the order in which main pushes them.                 *)
HandlesBoth == <<"tcp", "wt">>

(* Two clients compete for the WebTransport listener, one has TCP.         *)
ViaBoth == [c \in {1, 2, 3} |-> IF c = 1 THEN "tcp" ELSE "wt"]

ViaOne == [c \in {1} |-> "tcp"]
=============================================================================
