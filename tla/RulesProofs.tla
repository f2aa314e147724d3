---------------------------- MODULE RulesProofs ----------------------------
(***************************************************************************)
(* Lemmas about the operators of an invocation: the least of a set, the    *)
(* words of a text, the filter rules of a transfer and rsync's reading of  *)
(* them, for every text and every set of rules of the user.                *)
(***************************************************************************)
EXTENDS RsyncRules, ConfigLayers, FiniteSetTheorems, SequenceTheorems,
        WellFoundedInduction, TLAPS

(* A set of numbers that is not empty has a least member.                  *)
LEMMA LeastIn ==
  ASSUME NEW S \in SUBSET Nat, S # {}
  PROVE  Min(S) \in S /\ \A y \in S : Min(S) <= y
<1> DEFINE less == {ss \in Nat \X Nat : ss[1] < ss[2]}
<1>1. less = OpToRel(<, Nat)
  BY Zenon DEF OpToRel
<1>2. PICK x \in S : \A y \in S : ~(<<y, x>> \in less)
  <2> HIDE DEF less
  <2> QED
    BY <1>1, NatLessThanWellFounded, WFMin
<1>3. ASSUME NEW y \in S PROVE x <= y
  <2>1. <<y, x>> \in Nat \X Nat /\ <<y, x>>[1] = y /\ <<y, x>>[2] = x
    OBVIOUS
  <2>2. ~(y < x)
    BY <1>2, <2>1
  <2> QED
    BY <2>1, <2>2
<1> QED
  BY <1>3 DEF Min

-----------------------------------------------------------------------------
(* Words of a text                                                         *)

(* The members of a finite set of numbers can be counted off.              *)
LEMMA Counted ==
  ASSUME NEW S \in SUBSET Nat, IsFiniteSet(S), NEW n \in 1..Cardinality(S)
  PROVE  \E i \in S : Cardinality({j \in S : j <= i}) = n
<1> DEFINE upto(i) == {j \in S : j <= i}
           missed  == {k \in 1..Cardinality(S) : \A i \in S : Cardinality(upto(i)) # k}
<1>0. Cardinality(S) \in Nat
  BY FS_CardinalityType
<1> SUFFICES ASSUME missed # {} PROVE FALSE
  OBVIOUS
<1>1. missed \in SUBSET Nat
  BY <1>0
<1> DEFINE k == Min(missed)
<1>2. k \in missed /\ \A m \in missed : k <= m
  BY <1>1, LeastIn
<1> HIDE DEF k
<1>3. k \in 1..Cardinality(S)
  BY <1>2
(* Those that have fewer than k up to them.                                *)
<1>4. PICK T \in SUBSET S : /\ IsFiniteSet(T) /\ Cardinality(T) = k - 1
                            /\ \A i \in T, j \in S \ T : i < j
  <2>1. CASE k = 1
    <3>1. IsFiniteSet({}) /\ Cardinality({}) = 0
      BY FS_EmptySet
    <3> QED
      BY <2>1, <3>1
  <2>2. CASE k # 1
    <3>1. k - 1 \in 1..Cardinality(S) /\ k - 1 \notin missed
      BY <1>0, <1>2, <1>3, <2>2
    <3>2. PICK i \in S : Cardinality(upto(i)) = k - 1
      BY <3>1
    <3>3. IsFiniteSet(upto(i)) /\ \A a \in upto(i), b \in S \ upto(i) : a < b
      BY FS_Subset
    <3> QED
      BY <3>2, <3>3
  <2> QED
    BY <2>1, <2>2
<1>5. S \ T # {}
  <2>1. Cardinality(T) # Cardinality(S)
    BY <1>0, <1>3, <1>4
  <2>2. T # S
    BY <2>1
  <2> QED
    BY <2>2
<1> DEFINE i == Min(S \ T)
<1>6. i \in S \ T /\ \A j \in S \ T : i <= j
  BY <1>5, LeastIn
<1> HIDE DEF i
<1>7. upto(i) = T \cup {i}
  <2>1. ASSUME NEW j \in S PROVE j <= i <=> j \in T \cup {i}
    BY <1>4, <1>6
  <2> QED
    BY <1>6, <2>1
<1>8. Cardinality(upto(i)) = k
  <2> HIDE DEF upto
  <2>1. Cardinality(T \cup {i}) = (k - 1) + 1
    BY <1>4, <1>6, FS_AddElement
  <2> QED
    BY <1>0, <1>3, <1>7, <2>1
<1> QED
  BY <1>2, <1>6, <1>8

(* A word from its first character on.                                     *)
LEMMA WordType ==
  ASSUME NEW S, NEW text \in Seq(S), NEW b \in 1..Len(text)
  PROVE  SubSeq(text, b, Min({j \in b..Len(text) : j < Len(text) => text[j + 1] = " "}))
           \in Seq(S)
<1> DEFINE ends == {j \in b..Len(text) : j < Len(text) => text[j + 1] = " "}
<1>0. Len(text) \in Nat /\ b \in Nat /\ 1 <= b /\ b <= Len(text)
  BY LenProperties
<1>1. ends \subseteq b..Len(text)
  OBVIOUS
<1>2. Len(text) \in ends
  <2>1. Len(text) \in b..Len(text) /\ ~(Len(text) < Len(text))
    BY <1>0
  <2> QED
    BY <2>1
<1> HIDE DEF ends
<1>3. ends \in SUBSET Nat /\ Min(ends) \in ends
  <2>1. ends \in SUBSET Nat
    BY <1>0, <1>1
  <2> QED
    BY <2>1, <1>2, LeastIn
<1>4. Min(ends) \in 1..Len(text)
  <2>1. Min(ends) \in b..Len(text)
    BY <1>1, <1>3
  <2> QED
    BY <1>0, <2>1
<1>5. SubSeq(text, b, Min(ends)) \in Seq(S)
  BY <1>0, <1>4, SubSeqProperties
<1> QED
  BY <1>5 DEF ends

(* The words of a text are texts.                                          *)
LEMMA SplitArgsType ==
  ASSUME NEW S, NEW text \in Seq(S)
  PROVE  SplitArgs(text) \in Seq(Seq(S))
<1> DEFINE begins   == {i \in DOMAIN text : text[i] # " " /\ (i > 1 => text[i - 1] = " ")}
           Begin(n) == CHOOSE i \in begins : Cardinality({j \in begins : j <= i}) = n
           Word(b)  == SubSeq(text, b, Min({j \in b..Len(text) :
                                              j < Len(text) => text[j + 1] = " "}))
           N        == Cardinality(begins)
<1>0. Len(text) \in Nat /\ DOMAIN text = 1..Len(text)
  BY LenProperties
<1>1. begins \subseteq 1..Len(text)
  BY <1>0
<1>2. begins \in SUBSET Nat /\ IsFiniteSet(begins) /\ N \in Nat
  <2> HIDE DEF begins
  <2>1. IsFiniteSet(1..Len(text))
    BY <1>0, FS_Interval
  <2>2. IsFiniteSet(begins)
    BY <1>1, <2>1, FS_Subset
  <2> QED
    BY <1>0, <1>1, <2>2, FS_CardinalityType
<1>3. ASSUME NEW n \in 1..N PROVE Word(Begin(n)) \in Seq(S)
  <2>1. Begin(n) \in begins
    BY <1>2, Counted
  <2>2. Begin(n) \in 1..Len(text)
    <3> HIDE DEF begins, Begin
    <3> QED
      BY <1>1, <2>1
  <2> HIDE DEF Begin
  <2> QED
    BY <2>2, WordType
<1>4. SplitArgs(text) = [n \in 1..N |-> Word(Begin(n))]
  BY DEF SplitArgs
<1>5. N \in Nat
  BY <1>2
<1> HIDE DEF N, Begin, Word
<1> QED
  BY <1>3, <1>4, <1>5
-----------------------------------------------------------------------------
(* Lists of filter rules                                                   *)

(* The first of the rules that fit decides.                                *)
LEMMA FirstDecides ==
  ASSUME NEW rules, DOMAIN rules \subseteq Nat, NEW kinds, NEW p, NEW i,
         NEW r \in Fitting(rules, kinds, p, i),
         \A q \in Fitting(rules, kinds, p, i) : r <= q
  PROVE  Verdict(rules, kinds, p, i) = rules[r].kind
<1> DEFINE F == Fitting(rules, kinds, p, i)
<1>1. F \in SUBSET Nat /\ F # {}
  BY DEF Fitting
<1> HIDE DEF F
<1>2. Min(F) \in F /\ \A y \in F : Min(F) <= y
  BY <1>1, LeastIn
<1>3. Min(F) = r
  <2>1. Min(F) \in Nat /\ r \in Nat /\ Min(F) <= r /\ r <= Min(F)
    BY <1>1, <1>2 DEF F
  <2> QED
    BY <2>1
<1> QED
  BY <1>1, <1>3 DEF Verdict, F

(* Where some rule fits there is a first.                                  *)
LEMMA SomeDecides ==
  ASSUME NEW rules, DOMAIN rules \subseteq Nat, NEW kinds, NEW p, NEW i,
         Fitting(rules, kinds, p, i) # {}
  PROVE  \E r \in Fitting(rules, kinds, p, i) :
           /\ \A q \in Fitting(rules, kinds, p, i) : r <= q
           /\ Verdict(rules, kinds, p, i) = rules[r].kind
<1>1. Fitting(rules, kinds, p, i) \in SUBSET Nat
  BY DEF Fitting
<1> QED
  BY <1>1, LeastIn DEF Verdict

(* What stands where in a list made of two.                                *)
LEMMA Joined ==
  ASSUME NEW U, NEW a \in Seq(U), NEW b \in Seq(U), NEW s, s = a \o b
  PROVE  /\ s \in Seq(U) /\ Len(s) = Len(a) + Len(b)
         /\ \A n \in 1..Len(a) : s[n] = a[n]
         /\ \A n \in 1..Len(b) : s[n + Len(a)] = b[n]
<1>1. Len(a) \in Nat /\ Len(b) \in Nat
  BY LenProperties
<1>2. /\ s \in Seq(U) /\ Len(s) = Len(a) + Len(b)
      /\ \A i \in 1..(Len(a) + Len(b)) :
           s[i] = IF i <= Len(a) THEN a[i] ELSE b[i - Len(a)]
  BY ConcatProperties
<1>3. ASSUME NEW n \in 1..Len(a) PROVE s[n] = a[n]
  BY <1>1, <1>2
<1>4. ASSUME NEW n \in 1..Len(b) PROVE s[n + Len(a)] = b[n]
  <2>1. n + Len(a) \in 1..(Len(a) + Len(b)) /\ ~(n + Len(a) <= Len(a))
        /\ (n + Len(a)) - Len(a) = n
    BY <1>1
  <2> QED
    BY <1>2, <2>1
<1> QED
  BY <1>2, <1>3, <1>4

(* The list of sync_up: target/ protected, six excludes, the user's words. *)
LEMMA SyncRulesAre ==
  ASSUME NEW S, NEW args \in Seq(S)
  PROVE  LET rules == SyncRules(args)
         IN  /\ DOMAIN rules = 1..(7 + Len(args))
             /\ rules[1] = DirRule("protect", Plain("target"))
             /\ \A n \in 1..6 : rules[n + 1] = RSYNC_EXCLUDES[n]
             /\ \A n \in DOMAIN args : rules[n + 7] = Extra(args)[n]
<1> DEFINE T == UNION {{Extra(args)[n]} : n \in DOMAIN args}
           U == {DirRule("protect", Plain("target"))} \cup {RSYNC_EXCLUDES[n] : n \in 1..6} \cup T
           one == <<DirRule("protect", Plain("target"))>>
           two == RSYNC_EXCLUDES
           three == Extra(args)
<1>1. Len(args) \in Nat /\ DOMAIN args = 1..Len(args)
  BY LenProperties
<1>2. three = [n \in 1..Len(args) |-> three[n]]
  BY <1>1 DEF Extra
<1>3. \A n \in 1..Len(args) : three[n] \in U
  BY <1>1
<1>4. two = [n \in 1..6 |-> two[n]]
  BY DEF RSYNC_EXCLUDES
<1>5. \A n \in 1..6 : two[n] \in U
  OBVIOUS
<1>6. one \in Seq(U)
  OBVIOUS
<1>7. Len(one) = 1 /\ one[1] = DirRule("protect", Plain("target"))
  OBVIOUS
<1> HIDE DEF U, one, two, three
<1>8. two \in Seq(U) /\ Len(two) = 6
  BY <1>4, <1>5
<1>9. three \in Seq(U) /\ Len(three) = Len(args)
  BY <1>1, <1>2, <1>3
<1> DEFINE front == one \o two
           all   == front \o three
<1> HIDE DEF front, all
<1>10. /\ front \in Seq(U)
       /\ Len(front) = 7 /\ front[1] = one[1] /\ \A n \in 1..6 : front[n + 1] = two[n]
  <2>1. one \in Seq(U) /\ two \in Seq(U) /\ front = one \o two
    BY <1>6, <1>8 DEF front
  <2>2. front \in Seq(U)
    BY <2>1, Joined
  <2>3. /\ Len(front) = Len(one) + Len(two)
        /\ \A n \in 1..Len(one) : front[n] = one[n]
        /\ \A n \in 1..Len(two) : front[n + Len(one)] = two[n]
    BY <2>1, Joined
  <2>4. Len(one) = 1 /\ Len(two) = 6
    BY <1>7, <1>8
  <2>5. Len(front) = 7 /\ front[1] = one[1] /\ \A n \in 1..6 : front[n + 1] = two[n]
    BY <2>3, <2>4
  <2> QED
    BY <2>2, <2>5
<1>11. /\ all \in Seq(U) /\ Len(all) = 7 + Len(args)
       /\ \A n \in 1..7 : all[n] = front[n]
       /\ \A n \in 1..Len(args) : all[n + 7] = three[n]
  <2>1. front \in Seq(U) /\ three \in Seq(U) /\ all = front \o three
    BY <1>9, <1>10 DEF all
  <2>2. all \in Seq(U)
    BY <2>1, Joined
  <2>3. /\ Len(all) = Len(front) + Len(three)
        /\ \A n \in 1..Len(front) : all[n] = front[n]
        /\ \A n \in 1..Len(three) : all[n + Len(front)] = three[n]
    BY <2>1, Joined
  <2>4. Len(front) = 7 /\ Len(three) = Len(args)
    BY <1>9, <1>10
  <2>5. /\ Len(all) = 7 + Len(args)
        /\ \A n \in 1..7 : all[n] = front[n]
        /\ \A n \in 1..Len(args) : all[n + 7] = three[n]
    BY <2>3, <2>4
  <2> QED
    BY <2>2, <2>5
<1>12. SyncRules(args) = all
  BY DEF SyncRules, one, two, three, front, all
<1>13. DOMAIN all = 1..(7 + Len(args))
  BY <1>11, LenProperties
<1>14. all[1] = DirRule("protect", Plain("target"))
  <2>1. all[1] = front[1] /\ front[1] = one[1]
    BY <1>10, <1>11
  <2> QED
    BY <1>7, <2>1
<1>15. \A n \in 1..6 : all[n + 1] = two[n]
  <2>1. \A n \in 1..6 : n + 1 \in 1..7
    OBVIOUS
  <2> QED
    BY <1>10, <1>11, <2>1
<1>16. \A n \in DOMAIN args : all[n + 7] = three[n]
  BY <1>1, <1>11
<1> QED
  BY <1>12, <1>13, <1>14, <1>15, <1>16 DEF two, three
-----------------------------------------------------------------------------
(* What rsync makes of them                                                *)

Paths == Seq(Names)

(* A file below target/ is not sent, and is spared on the remote side,     *)
(* whatever the words of the user say.                                     *)
LEMMA TargetApart ==
  ASSUME NEW S, NEW args \in Seq(S), NEW p \in Paths,
         NEW i \in 1..(Len(p) - 1), p[i] = Plain("target")
  PROVE  /\ ~Sent(SyncRules(args), p)
         /\ \A deleteExcluded \in BOOLEAN : Spared(SyncRules(args), deleteExcluded, p)
<1> DEFINE rules == SyncRules(args)
<1>1. /\ DOMAIN rules = 1..(7 + Len(args)) /\ Len(args) \in Nat
      /\ rules[1] = DirRule("protect", Plain("target"))
      /\ rules[2] = DirRule("exclude", Plain("target"))
  <2>1. 1 \in 1..6 /\ RSYNC_EXCLUDES[1] = DirRule("exclude", Plain("target")) /\ 1 + 1 = 2
    BY DEF RSYNC_EXCLUDES
  <2> QED
    BY <2>1, SyncRulesAre, LenProperties
<1> HIDE DEF rules
<1>2. DOMAIN rules \subseteq Nat /\ 1 \in DOMAIN rules /\ 2 \in DOMAIN rules
  BY <1>1
<1>3. i \in DOMAIN p /\ i < Len(p)
  <2>1. Len(p) \in Nat /\ DOMAIN p = 1..Len(p)
    BY LenProperties DEF Paths
  <2> QED
    BY <2>1
<1>4. Fits(Plain("target"), p[i])
  BY DEF Fits
<1>5. ASSUME NEW kinds, "exclude" \in kinds, "protect" \notin kinds
      PROVE  Verdict(rules, kinds, p, i) = "exclude"
  <2>1. 2 \in Fitting(rules, kinds, p, i)
    BY <1>1, <1>2, <1>3, <1>4, <1>5 DEF Fitting, DirRule
  <2>2. \A q \in Fitting(rules, kinds, p, i) : 2 <= q
    <3>1. 1 \notin Fitting(rules, kinds, p, i)
      BY <1>1, <1>5 DEF Fitting, DirRule
    <3> QED
      BY <1>1, <3>1 DEF Fitting
  <2>3. Verdict(rules, kinds, p, i) = rules[2].kind
    BY <1>2, <2>1, <2>2, FirstDecides
  <2> QED
    BY <1>1, <2>3 DEF DirRule
<1>6. ASSUME NEW kinds, "protect" \in kinds
      PROVE  Verdict(rules, kinds, p, i) = "protect"
  <2>1. 1 \in Fitting(rules, kinds, p, i)
    BY <1>1, <1>2, <1>3, <1>4, <1>6 DEF Fitting, DirRule
  <2>2. \A q \in Fitting(rules, kinds, p, i) : 1 <= q
    BY <1>1 DEF Fitting
  <2>3. Verdict(rules, kinds, p, i) = rules[1].kind
    BY <1>2, <2>1, <2>2, FirstDecides
  <2> QED
    BY <1>1, <2>3 DEF DirRule
<1>7. ~Sent(rules, p)
  BY <1>3, <1>5 DEF Sent
<1>8. \A deleteExcluded \in BOOLEAN : Spared(rules, deleteExcluded, p)
  BY <1>3, <1>6 DEF Spared
<1> QED
  BY <1>7, <1>8 DEF rules

(* Every rule of a pull that excludes is one for directories: a file that  *)
(* lies directly in the directory of the profile is fetched.               *)
LEMMA TopFetched ==
  ASSUME NEW p \in Paths, Len(p) = 1
  PROVE  Sent(PullRules, p)
<1>1. DOMAIN PullRules = 1..9
  BY DEF PullRules
<1>2. \A r \in 1..9 : PullRules[r].kind = "exclude" => PullRules[r].dir
  BY DEF PullRules, Rule, DirRule
<1>3. DOMAIN p = {1}
  BY LenProperties DEF Paths
<1> DEFINE kinds == {"include", "exclude"}
           F     == Fitting(PullRules, kinds, p, 1)
<1>4. \A r \in F : PullRules[r].kind # "exclude"
  BY <1>1, <1>2 DEF Fitting
<1>5. CASE F = {}
  <2>1. Verdict(PullRules, kinds, p, 1) = "none"
    BY <1>5 DEF Verdict
  <2> QED
    BY <1>3, <2>1 DEF Sent
<1>6. CASE F # {}
  <2>1. DOMAIN PullRules \subseteq Nat
    BY <1>1
  <2>2. \E r \in F : Verdict(PullRules, kinds, p, 1) = PullRules[r].kind
    BY <1>6, <2>1, SomeDecides
  <2> QED
    BY <1>3, <1>4, <2>2 DEF Sent
<1> QED
  BY <1>5, <1>6
=============================================================================
