----------------------------- MODULE RsyncRules -----------------------------
(***************************************************************************)
(* The filter rules that the ssh transport gives rsync, and what rsync     *)
(* does with a list of rules: for every component of a path the first rule *)
(* that fits decides.  A file is the path of its names; a name has a stem  *)
(* and an extension, and a pattern is a name in which "*" fits all.        *)
(***************************************************************************)
EXTENDS Texts

CONSTANT UserRules  \* words of rsync_args that are rules: word -> rule

Name(stem, ext) == [stem |-> stem, ext |-> ext]
Plain(stem) == Name(stem, "none")
Names == [stem : STRING, ext : STRING]

Rule(kind, glob) == [kind |-> kind, glob |-> glob, dir |-> FALSE]
DirRule(kind, glob) == [kind |-> kind, glob |-> glob, dir |-> TRUE]

RSYNC_EXCLUDES ==
  <<DirRule("exclude", Plain("target")), DirRule("exclude", Plain("node_modules")),
    Rule("exclude", Plain(".DS_Store")), Rule("exclude", Name("*", "swp")),
    Rule("exclude", Plain(".env")), Rule("exclude", Name(".env", "local"))>>

(* A word that is no rule stands in the list as one of no kind.            *)
NoRule == Rule("none", Name("*", "*"))

Extra(rsync_args) ==
  [i \in DOMAIN rsync_args |->
     IF rsync_args[i] \in DOMAIN UserRules THEN UserRules[rsync_args[i]] ELSE NoRule]

(* Seeded fault: the words of the configuration come before the excludes.  *)
SyncRulesExtraFirst(rsync_args) ==
  <<DirRule("protect", Plain("target"))>> \o Extra(rsync_args) \o RSYNC_EXCLUDES

(* Seeded fault: nothing protects target/ but its exclude.                 *)
SyncRulesNoProtect(rsync_args) == RSYNC_EXCLUDES \o Extra(rsync_args)

SyncRules(rsync_args) ==
  <<DirRule("protect", Plain("target"))>> \o RSYNC_EXCLUDES \o Extra(rsync_args)

(* Seeded fault: only what has one of the extensions is fetched.           *)
PullRulesByExtension ==
  <<DirRule("include", Name("*", "*")), Rule("include", Name("*", "wasm")),
    Rule("include", Name("*", "so")), Rule("include", Name("*", "a")),
    Rule("exclude", Name("*", "*"))>>

PullRules ==
  <<DirRule("include", Name("*", "*")), Rule("include", Name("*", "wasm")),
    Rule("include", Name("*", "so")), Rule("include", Name("*", "a")),
    Rule("include", Name("*", "*")),
    DirRule("exclude", Plain("build")), DirRule("exclude", Plain("deps")),
    DirRule("exclude", Plain("incremental")), DirRule("exclude", Plain(".fingerprint"))>>

-----------------------------------------------------------------------------
(* rsync *)

Fits(glob, name) == glob.stem \in {"*", name.stem} /\ glob.ext \in {"*", name.ext}

(* The rules of these kinds that fit component i of p; the first decides.  *)
Fitting(rules, kinds, p, i) ==
  {r \in DOMAIN rules : /\ rules[r].kind \in kinds /\ Fits(rules[r].glob, p[i])
                        /\ rules[r].dir => i < Len(p)}

Verdict(rules, kinds, p, i) ==
  LET fitting == Fitting(rules, kinds, p, i)
  IN  IF fitting = {} THEN "none" ELSE rules[Min(fitting)].kind

Sent(rules, p) ==
  \A i \in DOMAIN p : Verdict(rules, {"include", "exclude"}, p, i) # "exclude"

(* What --delete leaves alone.  With --delete-excluded an exclude speaks   *)
(* of the sending side only.                                               *)
Spared(rules, deleteExcluded, p) ==
  LET kinds == {"protect"} \cup IF deleteExcluded THEN {} ELSE {"include", "exclude"}
  IN  \E i \in DOMAIN p : Verdict(rules, kinds, p, i) \in {"protect", "exclude"}

(* The remote tree after a transfer with --delete: the file names, and for *)
(* each whether it came with this transfer.                                *)
Mirror(tree, files, rsync_args) ==
  LET rules == SyncRules(rsync_args)
      sent  == {p \in files : Sent(rules, p)}
      kept  == {p \in DOMAIN tree \ sent :
                  Spared(rules, Contains(rsync_args, <<"--delete-excluded">>), p)}
  IN  [p \in sent \cup kept |-> IF p \in sent THEN "local" ELSE tree[p]]
=============================================================================
