---------------------------- MODULE CommandLine ----------------------------
(***************************************************************************)
(* parse_args of rcargo-cli: one pass over the arguments, in which a flag  *)
(* with a value takes the next argument, whatever that is, and the first   *)
(* argument that is not rcargo's ends the parsing.                         *)
(***************************************************************************)
EXTENDS Texts

CONSTANT PortTexts  \* texts that parse as a u16

ValueFlags == {"--rcargo-host", "--rcargo-remote-root", "--rcargo-transport",
               "--rcargo-wt-host", "--rcargo-wt-port"}
Switches == {"--rcargo-pull-artifacts", "--rcargo-local", "--rcargo-explain-config",
             "--rcargo-version", "-V", "--rcargo-help"}

Is(arg, flags) == \E f \in flags : arg = <<f>>

(* starts_with("--rcargo-"); --rcargo-x stands for the flags not known.    *)
OwnPrefix(arg) ==
  arg # <<>> /\ Head(arg) \in (ValueFlags \cup Switches \cup {"--rcargo-x"}) \ {"-V"}

True == <<"true">>

(* ParsedArgs: options are the flags seen so far with their values, as a   *)
(* function on the flags that are set; a later one replaces an earlier.    *)
(* wants is the flag that takes the next argument.                         *)
NoArgs == [options |-> <<>>, cargo_args |-> <<>>, passthrough |-> FALSE,
           wants |-> "", error |-> FALSE]

TakeValue(p, value) ==
  [p EXCEPT !.options = (p.wants :> value) @@ @, !.wants = "",
            !.error = \/ /\ p.wants = "--rcargo-transport"
                         /\ ~Is(value, {"ssh", "webtransport", "wt"})
                      \/ p.wants = "--rcargo-wt-port" /\ value \notin PortTexts]

TakeArg(p, arg) ==
  CASE Is(arg, ValueFlags) -> [p EXCEPT !.wants = arg[1]]
    [] Is(arg, Switches)   -> [p EXCEPT !.options = (arg[1] :> True) @@ @]
    [] OwnPrefix(arg) /\ ~Is(arg, ValueFlags \cup Switches) -> [p EXCEPT !.error = TRUE]
    [] OTHER -> [p EXCEPT !.cargo_args = Append(@, arg), !.passthrough = TRUE]

(* Seeded fault: rcargo's flags are looked for behind a cargo argument too. *)
ParseStepAnywhere(p, arg) ==
  CASE p.error      -> p
    [] p.wants # "" -> TakeValue(p, arg)
    [] OTHER        -> TakeArg(p, arg)

ParseStep(p, arg) ==
  CASE p.error       -> p
    [] p.wants # ""  -> TakeValue(p, arg)
    [] p.passthrough -> [p EXCEPT !.cargo_args = Append(@, arg)]
    [] OTHER         -> TakeArg(p, arg)

parse_args(argv) ==
  LET p == FoldLeft(ParseStep, NoArgs, argv)
  IN  [p EXCEPT !.error = @ \/ p.wants # ""]

Set(p, flag) == flag \in DOMAIN p.options
print_help(p)     == Set(p, "--rcargo-help")
print_version(p)  == Set(p, "--rcargo-version") \/ Set(p, "-V")
local(p)          == Set(p, "--rcargo-local")
explain_config(p) == Set(p, "--rcargo-explain-config")

transport_choice(p) ==
  IF Set(p, "--rcargo-transport") /\ p.options["--rcargo-transport"] # <<"ssh">>
  THEN "WebTransport" ELSE "Ssh"

(* The layer of settings that the flags make.                              *)
FlagOf == [host |-> "--rcargo-host", remote_root |-> "--rcargo-remote-root",
           pull_artifacts |-> "--rcargo-pull-artifacts"]
cli_overrides(p) ==
  [f \in {f \in DOMAIN FlagOf : Set(p, FlagOf[f])} |-> p.options[FlagOf[f]]]
=============================================================================
