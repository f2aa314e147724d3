----------------------------- MODULE MCFrontend -----------------------------
(* Inputs for Frontend: each set varies one part, the others as usual.     *)
EXTENDS Frontend

SeqsUpTo(S, n) == UNION {[1..k -> S] : k \in 0..n}

Usual == [argv |-> << <<"build">> >>, user |-> <<>>, project |-> <<>>, env |-> <<>>,
          env_key |-> <<>>, broken |-> {}, basename |-> <<"K", "p">>, cargo |-> "cargo",
          webtransport |-> FALSE, daemon_root |-> Default.remote_root, lines |-> 0]

(* Command lines of up to three arguments: flags of every kind, values good *)
(* and bad, cargo's own, the separator, the empty argument.                *)
Args == {<<"--rcargo-host">>, <<"--rcargo-transport">>, <<"--rcargo-wt-port">>,
         <<"--rcargo-local">>, <<"--rcargo-explain-config">>, <<"-V">>,
         <<"--rcargo-x">>, <<"--">>, <<"wt">>, <<"7475">>, <<"build">>, <<>>}
CommandLines ==
  {[Usual EXCEPT !.argv = a, !.cargo = c, !.webtransport = TRUE] :
     a \in SeqsUpTo(Args, 3), c \in {"cargo", "rcargo"}}
    \cup {[Usual EXCEPT !.argv = a, !.cargo = "none"] : a \in SeqsUpTo(Args, 2)}

(* Arguments that a shell could misread.                                   *)
QuotedArgs ==
  {[Usual EXCEPT !.argv = << <<"build">>, w, <<"p">> >>] :
     w \in SeqsUpTo({"a", "'", " ", "~", "&&", "\\", "*"}, 3)}

(* Roots and keys.                                                         *)
Roots == {<<"~">>, <<"~", "/">>, <<"~", "/", "b">>, <<"~", "/", "b", " ", "'">>, <<"b">>,
          <<"/", "srv">>, <<"/", "srv", " ", "~">>, <<"~", "bob">>, <<"/">>, <<" ">>}
Keys == {<<>>, <<" ">>, <<"K", ".">>, <<"'", "a", "/", "b">>, <<"*">>, <<"..">>}
RootsAndKeys ==
  {[Usual EXCEPT !.argv = a \o << <<"build">> >>, !.env = [remote_root |-> r], !.env_key = k,
                 !.webtransport = TRUE, !.daemon_root = d] :
     a \in {<<>>, << <<"--rcargo-transport">>, <<"wt">>, <<"--rcargo-pull-artifacts">> >>}, r \in Roots, k \in Keys,
     d \in {<<"~">>, <<"b">>, <<"/", "srv">>, <<"~", "/", "b">>}}

(* Every field in every subset of the layers, two at a time; broken files. *)
Text(f, layer) == IF f = "pull_artifacts" THEN IF layer = "project" THEN <<"false">> ELSE True
                  ELSE <<layer, " ", "x">>
Layer(S, layer) == [f \in S |-> Text(f, layer)]
Pairs == {{"host", "remote_root"}, {"ssh_args", "rsync_args"}, {"host", "pull_artifacts"}}
Layers ==
  UNION {{[Usual EXCEPT !.user = Layer(u, "user"), !.project = Layer(p, "project"),
                        !.env = Layer(e \ {"pull_artifacts"}, "env"),
                        !.argv = a \o << <<"build">> >>] :
            u \in SUBSET S, p \in SUBSET S, e \in SUBSET S,
            a \in {<<>>, << <<"--rcargo-pull-artifacts">> >>,
                   << <<"--rcargo-host">>, <<"cli">> >>,
                   << <<"--rcargo-remote-root">>, <<"cli">> >>}} : S \in Pairs}
    \cup {[Usual EXCEPT !.broken = b, !.argv = a, !.env = e] :
            b \in SUBSET {"user", "project"}, e \in {<<>>, [host |-> <<>>]},
            a \in {<< <<"build">> >>, << <<"--rcargo-local">>, <<"build">> >>}}

(* Words in rsync_args.                                                    *)
MCUserRules == (<<"--exclude=docs/">> :> DirRule("exclude", Plain("docs")))
            @@ (<<"--exclude=*.swp">> :> Rule("exclude", Name("*", "swp")))
            @@ (<<"--include=docs/">> :> DirRule("include", Plain("docs")))
            @@ (<<"--include=target/">> :> DirRule("include", Plain("target")))
            @@ (<<"--include=.env">> :> Rule("include", Plain(".env")))
RsyncWords ==
  {[Usual EXCEPT !.env = [rsync_args |-> FlattenSeq([i \in DOMAIN ws |-> ws[i] \o <<" ">>])]] :
     ws \in SeqsUpTo(DOMAIN MCUserRules \cup {<<"--delete-excluded">>}, 2)}

(* Output on both streams, more than the pipes hold.                       *)
Chatty == {[Usual EXCEPT !.lines = 2]}

(* The shim of README.md:97-107 is installed.                              *)
Shimmed == {[Usual EXCEPT !.argv = << <<"--rcargo-local">> >> \o a, !.cargo = "rcargo"] :
              a \in SeqsUpTo({<<"build">>, <<"--">>}, 2)}

MCInputs == CommandLines \cup QuotedArgs \cup RootsAndKeys \cup Layers \cup RsyncWords \cup Chatty
MCPorts  == {<<"7475">>}
MCStatuses == {0, 101, Killed}

MCLocalTree == {<<Plain("src"), Name("main", "rs")>>, <<Plain("src"), Name("main", "swp")>>,
                <<Plain("docs"), Name("a", "md")>>, <<Plain("target"), Plain("debug"), Plain("app")>>,
                <<Plain("x"), Plain("target"), Plain("app")>>, <<Plain("x"), Plain(".env")>>,
                <<Name(".env", "local")>>, <<Plain("src"), Plain("target")>>}
MCRemoteTree == {<<Plain("src"), Name("old", "rs")>>, <<Plain("src"), Name("main", "rs")>>, <<Plain("docs"), Name("b", "md")>>,
                 <<Plain("target"), Plain("debug"), Plain("app")>>, <<Plain("y"), Plain("target"), Plain("lib")>>,
                 <<Plain(".env")>>}
MCProfileTree == {<<Plain("app")>>, <<Name("app", "d")>>, <<Name("lib", "so")>>, <<Name("app", "wasm")>>,
                  <<Plain("deps"), Name("dep", "rlib")>>, <<Plain("build"), Plain("x"), Plain("out")>>}
=============================================================================
