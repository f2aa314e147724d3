------------------------------- MODULE Texts -------------------------------
(***************************************************************************)
(* Texts: arguments, paths, settings.  A text is a sequence of characters. *)
(* Only a character that some code looks at stands for itself; a run of    *)
(* plain ones is one character with a name, so that <<"--rcargo-host">> is *)
(* that flag and <<"~", "/", "builds">> a path.                            *)
(***************************************************************************)
EXTENDS Naturals, SequencesExt

(* Neither alphanumeric nor one of -_./=:@,+ : what a shell may act upon.  *)
Special == {" ", "'", "~", "&&", "\\", "*"}

(* trim().is_empty()                                                       *)
Blank(text) == \A i \in DOMAIN text : text[i] = " "

(* split_whitespace                                                        *)
SplitArgs(text) ==
  LET begins   == {i \in DOMAIN text : text[i] # " " /\ (i > 1 => text[i - 1] = " ")}
      Begin(n) == CHOOSE i \in begins : Cardinality({j \in begins : j <= i}) = n
      End(i)   == Min({j \in i..Len(text) : j < Len(text) => text[j + 1] = " "})
  IN  [n \in 1..Cardinality(begins) |-> SubSeq(text, Begin(n), End(Begin(n)))]
=============================================================================
