---------------------------- MODULE RemoteShell ----------------------------
(***************************************************************************)
(* The names of the remote tree: the text of the key, the command lines    *)
(* that the ssh transport makes of root, key and arguments, and what a     *)
(* POSIX shell and rsync on the other side make of those.                  *)
(***************************************************************************)
EXTENDS Texts

-----------------------------------------------------------------------------
(* project_key.rs: the text of a key *)

(* Alphanumerics, '-', '_' and '.' stay; upper case, of which K is the     *)
(* example, becomes lower case.                                            *)
SafeChar(c) == CASE c \in Special \cup {"/"} -> "-" [] c = "K" -> "k" [] OTHER -> c

sanitize_basename(s) ==
  LET out  == [i \in DOMAIN s |-> SafeChar(s[i])]
      kept == {i \in DOMAIN s : out[i] # "-"}
  IN  IF kept = {} THEN <<"rcargo-project">> ELSE SubSeq(out, Min(kept), Max(kept))

(* A blank RCARGO_PROJECT_KEY is none.  The hash is a name of its own.     *)
project_key_for(basename, override) ==
  IF Blank(override) THEN sanitize_basename(basename) \o <<"-", "hash">>
                     ELSE sanitize_basename(override)

-----------------------------------------------------------------------------
(* transport/ssh.rs: command lines *)

shell_quote(s) ==
  IF s = <<>> THEN <<"'", "'">>
  ELSE IF \A i \in DOMAIN s : s[i] \notin Special THEN s
  ELSE <<"'">> \o FlattenSeq([i \in DOMAIN s |->
           IF s[i] = "'" THEN <<"'", "\\", "'", "'">> ELSE <<s[i]>>]) \o <<"'">>

(* Seeded fault: an embedded quote is not escaped.                         *)
shell_quoteNaive(s) ==
  IF s # <<>> /\ \A i \in DOMAIN s : s[i] \notin Special THEN s
  ELSE <<"'">> \o s \o <<"'">>

(* Seeded fault, and the code before 2026-05-15: the tilde is quoted too.  *)
shell_quote_pathWhole(s) == shell_quote(s)

(* A leading ~ or ~/ stays bare.                                           *)
shell_quote_path(s) ==
  CASE s \in {<<"~">>, <<"~", "/">>} -> s
    [] Len(s) > 2 /\ s[1] = "~" /\ s[2] = "/" ->
         <<"~", "/">> \o shell_quote(SubSeq(s, 3, Len(s)))
    [] OTHER -> shell_quote(s)

QuotedDir(root, key) == shell_quote_path(root) \o <<"/">> \o shell_quote(key)

mkdir_cmd(root, key) == <<"mkdir", " ", "-p", " ">> \o QuotedDir(root, key)

build_remote_cargo_cmd(root, key, args) ==
  <<"cd", " ">> \o QuotedDir(root, key) \o <<" ", "&&", " ", "cargo">>
    \o FlattenSeq([i \in DOMAIN args |-> <<" ">> \o shell_quote(args[i])])

(* dest of sync_up and src of pull_artifacts, behind host:                 *)
RsyncPath(root, key) == root \o <<"/">> \o key

(* rcargod's: only ~/ is its home.                                         *)
expand_tilde(p) ==
  IF Len(p) > 1 /\ p[1] = "~" /\ p[2] = "/" THEN <<"$HOME">> \o Tail(p) ELSE p

-----------------------------------------------------------------------------
(* The remote side: a POSIX shell, and rsync from 3.2.4 on, which escapes  *)
(* what it sends to that shell except for a leading tilde.                 *)

HomeOf(word) ==
  IF word = <<>> \/ Head(word) # "~" THEN word
  ELSE <<IF Len(word) = 1 \/ word[2] = "/" THEN "$HOME" ELSE "$HOME of">> \o Tail(word)

And == <<"and">>

(* What the shell has read so far: its words, the one it is in, whether    *)
(* that one began with a bare tilde, and how it takes the next character.  *)
NothingRead == [words |-> <<>>, word |-> <<>>, within |-> FALSE, tilde |-> FALSE,
                mode |-> "bare"]

EndWord(sh) ==
  IF ~sh.within THEN sh
  ELSE [NothingRead EXCEPT !.words =
          Append(sh.words, IF sh.tilde THEN HomeOf(sh.word) ELSE sh.word)]

Take(sh, c, mode) ==
  [sh EXCEPT !.word = @ \o c, !.within = TRUE, !.mode = mode]

ShellReads(sh, c) ==
  CASE sh.mode = "quoted"  -> IF c = "'" THEN Take(sh, <<>>, "bare") ELSE Take(sh, <<c>>, "quoted")
    [] sh.mode = "escaped" -> Take(sh, <<c>>, "bare")
    [] c = "'"  -> Take(sh, <<>>, "quoted")
    [] c = "\\" -> Take(sh, <<>>, "escaped")
    [] c = " "  -> EndWord(sh)
    [] c = "&&" -> [EndWord(sh) EXCEPT !.words = Append(@, And)]
    [] c = "*"  -> Take(sh, <<"matching files">>, "bare")
    [] OTHER    -> Take([sh EXCEPT !.tilde = @ \/ (c = "~" /\ ~sh.within)], <<c>>, "bare")

ShellWords(cmd) == EndWord(FoldLeft(ShellReads, NothingRead, cmd)).words

(* mkdir -p DIR: the directory that is made.                               *)
MkdirReads(cmd) == ShellWords(cmd)[3]

(* cd DIR && cargo ARGS: where cargo is started, and with which arguments. *)
CargoCalled(cmd) ==
  LET words == ShellWords(cmd)
  IN  [dir |-> words[2], args |-> SubSeq(words, 5, Len(words))]
=============================================================================
