----------------------- MODULE SyntheticLadder_proofs -----------------------
(***************************************************************************)
(* Theorems about SyntheticLadder: for every program, instance table and   *)
(* table of default instances, the pending list keeps its order and no     *)
(* metavariable is lost.  What the theorems rest on is what each call in   *)
(* progress knows about the calls below it, so the inductive invariant is  *)
(* stated frame by frame along the stack.                                  *)
(***************************************************************************)
EXTENDS SyntheticLadder, SequenceTheorems, TLAPS

-----------------------------------------------------------------------------
(* The inductive invariant. *)

IsSeq(s) == s \in Seq({s[i] : i \in DOMAIN s})

\* A Term.State, whatever its declarations and types.
IsState(t) ==
    /\ t = [pending |-> t.pending, decls |-> t.decls, types |-> t.types, solved |-> t.solved]
    /\ t.pending \in Seq(Nat)

StepFields == {"f", "walk", "kept", "size", "on_error", "tactics", "prev"}

IsFrame(fr) ==
    /\ fr.f \in {"elab", "resume", "step", "ladder", "loop", "with"}
    /\ fr.f = "elab" =>
           fr = [f |-> "elab", name |-> fr.name, code |-> fr.code, term |-> fr.term,
                 saved |-> fr.saved]
    /\ fr.f = "resume" =>
           fr = [f |-> "resume", name |-> fr.name, code |-> fr.code, saved |-> fr.saved,
                 id |-> fr.id, on_error |-> fr.on_error]
    /\ fr.f = "step" =>
           /\ fr = [field \in StepFields |-> fr[field]]
           /\ fr.walk \in Seq(Nat) /\ fr.kept \in Seq(Nat)
    /\ fr.f = "ladder" => fr = [f |-> "ladder", postpone |-> fr.postpone, rung |-> fr.rung]
    /\ fr.f = "with" => fr.saved \in Seq(Nat)

Increasing(s) == \A i, j \in DOMAIN s : i < j => s[i] < s[j]

\* The mvars a frame holds back, and those the frames of a stack hold back.
Ids(fr) == CASE fr.f = "step" -> ToSet(fr.kept) \cup ToSet(fr.walk)
             [] fr.f = "with" -> ToSet(fr.saved)
             [] OTHER -> {}

Below(s) == UNION {Ids(s[i]) : i \in DOMAIN s}

\* The state's list is in order, newer than what the stack s holds back, and speaks of
\* the first n mvars.
Ordered(t, s, n) ==
    /\ IsState(t)
    /\ Decreasing(t.pending)
    /\ ToSet(t.pending) \subseteq 1..n
    /\ Newer(ToSet(t.pending), Below(s))

\* What is declared is solved or in a list.
Covered(t, s) == DOMAIN t.decls \subseteq t.solved \cup ToSet(t.pending) \cup Below(s)

\* What a call knows of the calls s below it.  A snapshot could be restored at any time.
Sits(fr, s, n) ==
    /\ IsFrame(fr)
    /\ Ids(fr) \subseteq 1..n
    /\ Newer(Ids(fr), Below(s))
    /\ fr.f \in {"elab", "resume"} => Ordered(fr.saved, s, n) /\ Covered(fr.saved, s)
    /\ fr.f = "resume" => Len(s) > 0 /\ s[1].f = "step" /\ s[1].walk # <<>>
    /\ fr.f = "step" =>
           /\ Increasing(fr.kept) /\ Increasing(fr.walk)
           /\ Newer(ToSet(fr.walk), ToSet(fr.kept))
           /\ Len(s) > 0 /\ s[1].f = "ladder"
    /\ fr.f = "with" => Decreasing(fr.saved)
    /\ Len(s) = 0 => fr.f = "with" /\ fr.saved = <<>>
    /\ Len(s) = 1 => fr.f = "ladder" /\ fr.postpone = "No"

Stacked(s, n) ==
    /\ IsSeq(s)
    /\ \A i \in 1..Len(s) : Sits(s[i], SubSeq(s, i + 1, Len(s)), n)

\* A call has returned to a step that visits an mvar, or to a ladder.
ReturnInv(s, c) ==
    c \in {"true", "false"} =>
        /\ Len(s) > 0
        /\ s[1].f = "ladder" \/ (s[1].f = "step" /\ s[1].walk # <<>>)

\* Unless something is thrown nothing is forgotten, and the outermost ladder leaves
\* nothing behind.
KeptInv(t, s, c) ==
    c \notin Thrown => Covered(t, s) /\ (Len(s) <= 1 => t.pending = <<>>)

Sound(t, s, c, n) ==
    /\ c \in {"run", "true", "false"} \cup Thrown
    /\ Stacked(s, n)
    /\ Ordered(t, s, n)
    /\ ReturnInv(s, c)
    /\ KeptInv(t, s, c)

IndInv == IsSeq(origin) /\ Sound(ts, stack, ctl, Len(origin))

-----------------------------------------------------------------------------
(* Sequences and stacks. *)

LEMMA SeqIsSeq == ASSUME NEW S, NEW s \in Seq(S) PROVE IsSeq(s)
  BY DEF IsSeq

LEMMA ConsSeq ==
    ASSUME NEW s, IsSeq(s), NEW f
    PROVE  /\ IsSeq(<<f>> \o s)
           /\ Len(<<f>> \o s) = Len(s) + 1
           /\ (<<f>> \o s)[1] = f
           /\ \A i \in 1..Len(s) : (<<f>> \o s)[i + 1] = s[i]
           /\ Head(<<f>> \o s) = f
           /\ Tail(<<f>> \o s) = s
           /\ <<f>> \o s # <<>>
<1> DEFINE S == {s[i] : i \in DOMAIN s} \cup {f}
<1>1. s \in Seq(S) /\ <<f>> \in Seq(S)
  BY DEF IsSeq
<1>2. <<f>> \o s \in Seq(S)
  BY <1>1
<1> HIDE DEF S
<1>3. /\ Len(<<f>> \o s) = Len(s) + 1
      /\ (<<f>> \o s)[1] = f
      /\ \A i \in 1..Len(s) : (<<f>> \o s)[i + 1] = s[i]
  BY <1>1
<1>4. IsSeq(<<f>> \o s)
  BY <1>2, SeqIsSeq
<1>5. <<f>> \o s # <<>>
  BY <1>1, <1>3
<1>6. Head(<<f>> \o s) = f
  BY <1>2, <1>3, <1>5
<1>7. Tail(<<f>> \o s) \in Seq(S) /\ Len(Tail(<<f>> \o s)) = Len(s)
  BY <1>1, <1>2, <1>3, <1>5
<1>8. \A i \in 1..Len(s) : Tail(<<f>> \o s)[i] = s[i]
  BY <1>1, <1>2, <1>3, <1>5
<1>9. Tail(<<f>> \o s) = s
  BY <1>1, <1>7, <1>8, SeqEqual
<1> QED BY <1>3, <1>4, <1>5, <1>6, <1>9

LEMMA UnconsSeq ==
    ASSUME NEW s, IsSeq(s), Len(s) > 0 \/ s # <<>>
    PROVE  /\ s # <<>> /\ Len(s) \in Nat \ {0}
           /\ Head(s) = s[1]
           /\ IsSeq(Tail(s))
           /\ Len(Tail(s)) = Len(s) - 1
           /\ \A i \in 1..Len(Tail(s)) : Tail(s)[i] = s[i + 1]
           /\ s = <<Head(s)>> \o Tail(s)
<1> DEFINE S == {s[i] : i \in DOMAIN s}
<1>1. s \in Seq(S)
  BY DEF IsSeq
<1> HIDE DEF S
<1>2. s # <<>> /\ Len(s) \in Nat \ {0}
  BY <1>1
<1>3. /\ Head(s) = s[1] /\ Head(s) \in S
      /\ Tail(s) \in Seq(S)
      /\ Len(Tail(s)) = Len(s) - 1
      /\ \A i \in 1..Len(Tail(s)) : Tail(s)[i] = s[i + 1]
  BY <1>1, <1>2
<1>4. IsSeq(Tail(s))
  BY <1>3, SeqIsSeq
<1>5. /\ <<Head(s)>> \o Tail(s) \in Seq(S)
      /\ Len(<<Head(s)>> \o Tail(s)) = Len(s)
  BY <1>2, <1>3
<1>6. \A i \in 1..Len(s) : (<<Head(s)>> \o Tail(s))[i] = s[i]
  <2> TAKE i \in 1..Len(s)
  <2>1. CASE i = 1
    BY <1>3, <2>1
  <2>2. CASE i # 1
    <3>1. i - 1 \in 1..Len(Tail(s)) /\ Tail(s)[i - 1] = s[i]
      BY <1>1, <1>2, <1>3, <2>2
    <3> QED BY <1>3, <3>1
  <2> QED BY <2>1, <2>2
<1>7. s = <<Head(s)>> \o Tail(s)
  BY <1>1, <1>5, <1>6, SeqEqual
<1> QED BY <1>2, <1>3, <1>4, <1>7

LEMMA BelowCons ==
    ASSUME NEW s, IsSeq(s), NEW f
    PROVE  Below(<<f>> \o s) = Ids(f) \cup Below(s)
<1> DEFINE r == <<f>> \o s
<1>1. /\ IsSeq(r) /\ Len(r) = Len(s) + 1 /\ r[1] = f /\ \A i \in 1..Len(s) : r[i + 1] = s[i]
  BY ConsSeq
<1>2. DOMAIN s = 1..Len(s) /\ DOMAIN r = 1..(Len(s) + 1) /\ Len(s) \in Nat
  BY <1>1 DEF IsSeq
<1> HIDE DEF r
<1>3. \A i \in DOMAIN r : i = 1 \/ (i - 1 \in DOMAIN s /\ r[i] = s[i - 1])
  BY <1>1, <1>2
<1>4. 1 \in DOMAIN r /\ \A i \in DOMAIN s : i + 1 \in DOMAIN r /\ r[i + 1] = s[i]
  BY <1>1, <1>2
<1>5. Below(r) \subseteq Ids(f) \cup Below(s)
  BY <1>1, <1>3 DEF Below
<1>6. Ids(f) \cup Below(s) \subseteq Below(r)
  BY <1>1, <1>4 DEF Below
<1> QED BY <1>5, <1>6 DEF r

LEMMA SuffixCons ==
    ASSUME NEW s, IsSeq(s), NEW f, NEW i \in 1..Len(s)
    PROVE  SubSeq(<<f>> \o s, i + 2, Len(s) + 1) = SubSeq(s, i + 1, Len(s))
<1> DEFINE r == <<f>> \o s
<1> DEFINE a == SubSeq(r, i + 2, Len(s) + 1)
<1> DEFINE b == SubSeq(s, i + 1, Len(s))
<1> DEFINE S == {s[j] : j \in DOMAIN s} \cup {f}
<1>1. s \in Seq(S) /\ r \in Seq(S) /\ Len(r) = Len(s) + 1
      /\ \A j \in 1..Len(s) : r[j + 1] = s[j]
  <2>1. <<f>> \in Seq(S) /\ s \in Seq(S)
    BY DEF IsSeq
  <2> QED BY <2>1, ConsSeq
<1> HIDE DEF S, r
<1>2. /\ a \in Seq(S) /\ b \in Seq(S) /\ Len(a) = Len(s) - i /\ Len(b) = Len(s) - i
  BY <1>1
<1>3. ASSUME NEW j \in 1..Len(a) PROVE a[j] = b[j]
  <2>1. a[j] = r[i + 1 + j] /\ b[j] = s[i + j] /\ i + j \in 1..Len(s)
    BY <1>1, <1>2, <1>3
  <2> QED BY <1>1, <2>1
<1> HIDE DEF a, b
<1>4. a = b
  BY <1>2, <1>3, SeqEqual
<1> QED BY <1>4 DEF a, b, r

LEMMA WholeSuffix ==
    ASSUME NEW s, IsSeq(s), NEW f
    PROVE  SubSeq(<<f>> \o s, 2, Len(s) + 1) = s
<1> DEFINE r == <<f>> \o s
<1> DEFINE a == SubSeq(r, 2, Len(s) + 1)
<1> DEFINE S == {s[j] : j \in DOMAIN s} \cup {f}
<1>1. s \in Seq(S) /\ r \in Seq(S) /\ Len(r) = Len(s) + 1
      /\ \A j \in 1..Len(s) : r[j + 1] = s[j]
  <2>1. <<f>> \in Seq(S) /\ s \in Seq(S)
    BY DEF IsSeq
  <2> QED BY <2>1, ConsSeq
<1> HIDE DEF S, r
<1>2. a \in Seq(S) /\ Len(a) = Len(s)
  BY <1>1
<1>3. ASSUME NEW j \in 1..Len(a) PROVE a[j] = s[j]
  <2>1. a[j] = r[j + 1] /\ j \in 1..Len(s)
    BY <1>1, <1>2, <1>3
  <2> QED BY <1>1, <2>1
<1> HIDE DEF a
<1>4. a = s
  BY <1>1, <1>2, <1>3, SeqEqual
<1> QED BY <1>4 DEF a, r

\* A call is made, or its frame replaced.
LEMMA Pushed ==
    ASSUME NEW s, NEW n, Stacked(s, n), NEW f, Sits(f, s, n)
    PROVE  /\ Stacked(<<f>> \o s, n)
           /\ Below(<<f>> \o s) = Ids(f) \cup Below(s)
           /\ Len(<<f>> \o s) = Len(s) + 1
           /\ (<<f>> \o s)[1] = f
           /\ Len(s) \in Nat
<1> DEFINE r == <<f>> \o s
<1>1. IsSeq(s) /\ Len(s) \in Nat
  BY DEF Stacked, IsSeq
<1>2. /\ IsSeq(r) /\ Len(r) = Len(s) + 1 /\ r[1] = f
      /\ \A i \in 1..Len(s) : r[i + 1] = s[i]
  BY <1>1, ConsSeq
<1>3. /\ SubSeq(r, 2, Len(s) + 1) = s
      /\ \A i \in 1..Len(s) : SubSeq(r, i + 2, Len(s) + 1) = SubSeq(s, i + 1, Len(s))
  BY <1>1, WholeSuffix, SuffixCons
<1>4. Below(r) = Ids(f) \cup Below(s)
  BY <1>1, BelowCons
<1> HIDE DEF r
<1>5. ASSUME NEW i \in 1..Len(r) PROVE Sits(r[i], SubSeq(r, i + 1, Len(r)), n)
  <2>1. CASE i = 1
    <3>1. i + 1 = 2 /\ r[i] = f
      BY <1>2, <2>1
    <3>2. SubSeq(r, i + 1, Len(r)) = s
      BY <1>2, <1>3, <3>1
    <3> QED BY <3>1, <3>2
  <2>2. CASE i # 1
    <3>1. i - 1 \in 1..Len(s) /\ r[i] = s[i - 1]
      BY <1>1, <1>2, <2>2
    <3>2. SubSeq(r, i + 1, Len(r)) = SubSeq(s, (i - 1) + 1, Len(s))
      <4>1. SubSeq(r, (i - 1) + 2, Len(s) + 1) = SubSeq(s, (i - 1) + 1, Len(s))
        BY <1>3, <3>1
      <4>2. (i - 1) + 2 = i + 1
        BY <1>1, <1>2
      <4> QED BY <1>2, <4>1, <4>2
    <3> QED BY <3>1, <3>2 DEF Stacked
  <2> QED BY <2>1, <2>2
<1> QED BY <1>1, <1>2, <1>4, <1>5 DEF Stacked, r

\* A call ends.
LEMMA Popped ==
    ASSUME NEW s, NEW n, Stacked(s, n), s # <<>> \/ Len(s) > 0
    PROVE  /\ Stacked(Tail(s), n)
           /\ Sits(Head(s), Tail(s), n)
           /\ Below(s) = Ids(Head(s)) \cup Below(Tail(s))
           /\ Len(Tail(s)) = Len(s) - 1
           /\ Len(s) \in Nat \ {0} /\ s # <<>>
           /\ Head(s) = s[1]
<1> DEFINE f == Head(s)
<1> DEFINE r == Tail(s)
<1>1. /\ IsSeq(r) /\ Len(r) = Len(s) - 1 /\ s = <<f>> \o r /\ f = s[1]
      /\ Len(s) \in Nat \ {0} /\ s # <<>>
      /\ \A i \in 1..Len(r) : r[i] = s[i + 1]
  BY UnconsSeq DEF Stacked
<1> HIDE DEF f, r
<1>2. Below(s) = Ids(f) \cup Below(r)
  BY <1>1, BelowCons
<1>3. /\ SubSeq(s, 2, Len(s)) = r
      /\ \A i \in 1..Len(r) : SubSeq(s, i + 2, Len(s)) = SubSeq(r, i + 1, Len(r))
  <2>1. Len(r) + 1 = Len(s)
    BY <1>1
  <2> QED BY <1>1, <2>1, WholeSuffix, SuffixCons
<1>4. Sits(f, r, n)
  <2>1. 1 \in 1..Len(s)
    BY <1>1
  <2>2. Sits(s[1], SubSeq(s, 1 + 1, Len(s)), n)
    BY <2>1 DEF Stacked
  <2>3. 1 + 1 = 2
    OBVIOUS
  <2>4. SubSeq(s, 1 + 1, Len(s)) = r
    BY <1>3, <2>3
  <2> QED BY <1>1, <2>2, <2>4
<1>5. ASSUME NEW i \in 1..Len(r) PROVE Sits(r[i], SubSeq(r, i + 1, Len(r)), n)
  <2>1. i + 1 \in 1..Len(s) /\ (i + 1) + 1 = i + 2
    BY <1>1
  <2>2. Sits(s[i + 1], SubSeq(s, (i + 1) + 1, Len(s)), n)
    BY <2>1 DEF Stacked
  <2> QED BY <1>1, <1>3, <2>1, <2>2
<1> QED BY <1>1, <1>2, <1>4, <1>5 DEF Stacked, f, r

-----------------------------------------------------------------------------
(* Lists of mvars. *)

LEMMA NoMVars == <<>> \in Seq(Nat) /\ ToSet(<<>>) = {} /\ Decreasing(<<>>) /\ Increasing(<<>>)
  BY DEF ToSet, Decreasing, Increasing

LEMMA Concatenated ==
    ASSUME NEW a \in Seq(Nat), NEW b \in Seq(Nat)
    PROVE  /\ a \o b \in Seq(Nat)
           /\ ToSet(a \o b) = ToSet(a) \cup ToSet(b)
           /\ Decreasing(a) /\ Decreasing(b) /\ Newer(ToSet(a), ToSet(b)) => Decreasing(a \o b)
           /\ Increasing(a) /\ Increasing(b) /\ Newer(ToSet(b), ToSet(a)) => Increasing(a \o b)
<1> DEFINE c == a \o b
<1>1. /\ c \in Seq(Nat) /\ Len(c) = Len(a) + Len(b)
      /\ \A i \in 1..Len(a) : c[i] = a[i]
      /\ \A i \in 1..Len(b) : c[Len(a) + i] = b[i]
  OBVIOUS
<1>2. DOMAIN a = 1..Len(a) /\ DOMAIN b = 1..Len(b) /\ DOMAIN c = 1..(Len(a) + Len(b))
      /\ Len(a) \in Nat /\ Len(b) \in Nat
  BY <1>1
<1> HIDE DEF c
<1>3. \A i \in DOMAIN c : \/ i \in DOMAIN a /\ c[i] = a[i]
                          \/ i - Len(a) \in DOMAIN b /\ c[i] = b[i - Len(a)]
  <2> TAKE i \in DOMAIN c
  <2>1. CASE i <= Len(a)
    BY <1>1, <1>2, <2>1
  <2>2. CASE i > Len(a)
    <3>1. i - Len(a) \in 1..Len(b) /\ Len(a) + (i - Len(a)) = i
      BY <1>2, <2>2
    <3> QED BY <1>1, <1>2, <3>1
  <2> QED BY <1>2, <2>1, <2>2
<1>4. ToSet(c) = ToSet(a) \cup ToSet(b)
  <2>1. \A i \in DOMAIN a : i \in DOMAIN c /\ c[i] = a[i]
    BY <1>1, <1>2
  <2>2. \A i \in DOMAIN b : Len(a) + i \in DOMAIN c /\ c[Len(a) + i] = b[i]
    BY <1>1, <1>2
  <2> QED BY <1>3, <2>1, <2>2 DEF ToSet
<1>5. ASSUME Decreasing(a), Decreasing(b), Newer(ToSet(a), ToSet(b)),
             NEW i \in DOMAIN c, NEW j \in DOMAIN c, i < j
      PROVE  c[i] > c[j]
  <2>1. CASE i <= Len(a) /\ j <= Len(a)
    BY <1>1, <1>2, <1>5, <2>1 DEF Decreasing
  <2>2. CASE i <= Len(a) /\ j > Len(a)
    <3>1. j - Len(a) \in DOMAIN b /\ c[j] = b[j - Len(a)]
      <4>1. j - Len(a) \in 1..Len(b) /\ Len(a) + (j - Len(a)) = j
        BY <1>2, <2>2
      <4> QED BY <1>1, <1>2, <4>1
    <3>2. i \in DOMAIN a /\ c[i] = a[i]
      BY <1>1, <1>2, <2>2
    <3>3. c[i] \in ToSet(a) /\ c[j] \in ToSet(b)
      BY <3>1, <3>2 DEF ToSet
    <3> QED BY <1>5, <3>3 DEF Newer
  <2>3. CASE i > Len(a) /\ j > Len(a)
    <3>1. /\ i - Len(a) \in 1..Len(b) /\ Len(a) + (i - Len(a)) = i
          /\ j - Len(a) \in 1..Len(b) /\ Len(a) + (j - Len(a)) = j
          /\ i - Len(a) < j - Len(a)
      BY <1>2, <1>5, <2>3
    <3>2. c[i] = b[i - Len(a)] /\ c[j] = b[j - Len(a)]
      BY <1>1, <3>1
    <3> QED BY <1>2, <1>5, <3>1, <3>2 DEF Decreasing
  <2> QED BY <1>2, <1>5, <2>1, <2>2, <2>3
<1>6. ASSUME Increasing(a), Increasing(b), Newer(ToSet(b), ToSet(a)),
             NEW i \in DOMAIN c, NEW j \in DOMAIN c, i < j
      PROVE  c[i] < c[j]
  <2>1. CASE i <= Len(a) /\ j <= Len(a)
    BY <1>1, <1>2, <1>6, <2>1 DEF Increasing
  <2>2. CASE i <= Len(a) /\ j > Len(a)
    <3>1. j - Len(a) \in DOMAIN b /\ c[j] = b[j - Len(a)]
      <4>1. j - Len(a) \in 1..Len(b) /\ Len(a) + (j - Len(a)) = j
        BY <1>2, <2>2
      <4> QED BY <1>1, <1>2, <4>1
    <3>2. i \in DOMAIN a /\ c[i] = a[i]
      BY <1>1, <1>2, <2>2
    <3>3. c[i] \in ToSet(a) /\ c[j] \in ToSet(b)
      BY <3>1, <3>2 DEF ToSet
    <3>4. c[i] \in Nat /\ c[j] \in Nat
      BY <3>1, <3>2
    <3> QED BY <1>6, <3>3, <3>4 DEF Newer
  <2>3. CASE i > Len(a) /\ j > Len(a)
    <3>1. /\ i - Len(a) \in 1..Len(b) /\ Len(a) + (i - Len(a)) = i
          /\ j - Len(a) \in 1..Len(b) /\ Len(a) + (j - Len(a)) = j
          /\ i - Len(a) < j - Len(a)
      BY <1>2, <1>6, <2>3
    <3>2. c[i] = b[i - Len(a)] /\ c[j] = b[j - Len(a)]
      BY <1>1, <3>1
    <3> QED BY <1>2, <1>6, <3>1, <3>2 DEF Increasing
  <2> QED BY <1>2, <1>6, <2>1, <2>2, <2>3
<1>7. Decreasing(a) /\ Decreasing(b) /\ Newer(ToSet(a), ToSet(b)) => Decreasing(c)
  BY <1>5 DEF Decreasing
<1>8. Increasing(a) /\ Increasing(b) /\ Newer(ToSet(b), ToSet(a)) => Increasing(c)
  BY <1>6 DEF Increasing
<1> QED BY <1>1, <1>4, <1>7, <1>8 DEF c

LEMMA Singleton ==
    ASSUME NEW id \in Nat
    PROVE  /\ <<id>> \in Seq(Nat) /\ ToSet(<<id>>) = {id}
           /\ Decreasing(<<id>>) /\ Increasing(<<id>>)
  BY DEF ToSet, Decreasing, Increasing

\* register_synthetic_mvar: the new mvar is the newest.
LEMMA Prepended ==
    ASSUME NEW s \in Seq(Nat), NEW n \in Nat, ToSet(s) \subseteq 1..n, Decreasing(s)
    PROVE  /\ <<n + 1>> \o s \in Seq(Nat)
           /\ ToSet(<<n + 1>> \o s) = {n + 1} \cup ToSet(s)
           /\ Decreasing(<<n + 1>> \o s)
<1>1. <<n + 1>> \in Seq(Nat) /\ ToSet(<<n + 1>>) = {n + 1} /\ Decreasing(<<n + 1>>)
  BY Singleton
<1>2. Newer({n + 1}, ToSet(s))
  BY DEF Newer
<1> QED BY <1>1, <1>2, Concatenated

LEMMA Reversed ==
    ASSUME NEW s \in Seq(Nat)
    PROVE  /\ Reverse(s) \in Seq(Nat)
           /\ ToSet(Reverse(s)) = ToSet(s)
           /\ Increasing(s) => Decreasing(Reverse(s))
           /\ Decreasing(s) => Increasing(Reverse(s))
<1> DEFINE r == Reverse(s)
<1>1. /\ Len(s) \in Nat /\ DOMAIN s = 1..Len(s)
      /\ \A i \in 1..Len(s) : (Len(s) - i) + 1 \in 1..Len(s) /\ s[i] \in Nat
  OBVIOUS
<1>2. r = [i \in 1..Len(s) |-> s[(Len(s) - i) + 1]]
  BY DEF Reverse
<1>3. r \in [1..Len(s) -> Nat]
  BY <1>1, <1>2
<1>4. r \in Seq(Nat) /\ DOMAIN r = 1..Len(s)
  BY <1>1, <1>3
<1>5. \A i \in 1..Len(s) : r[i] = s[(Len(s) - i) + 1]
  BY <1>2
<1> HIDE DEF r
<1>6. \A i \in 1..Len(s) : s[i] = r[(Len(s) - i) + 1]
  <2> TAKE i \in 1..Len(s)
  <2>1. (Len(s) - ((Len(s) - i) + 1)) + 1 = i /\ (Len(s) - i) + 1 \in 1..Len(s)
    BY <1>1
  <2> QED BY <1>5, <2>1
<1>7. ToSet(r) = ToSet(s)
  <2>1. ASSUME NEW i \in 1..Len(s) PROVE r[i] \in ToSet(s)
    BY <1>1, <1>5 DEF ToSet
  <2>2. ASSUME NEW i \in 1..Len(s) PROVE s[i] \in ToSet(r)
    BY <1>1, <1>4, <1>6 DEF ToSet
  <2> QED BY <1>1, <1>4, <2>1, <2>2 DEF ToSet
<1>8. ASSUME NEW i \in 1..Len(s), NEW j \in 1..Len(s), i < j
      PROVE  (Len(s) - j) + 1 < (Len(s) - i) + 1
  BY <1>1, <1>8
<1>9. Increasing(s) => Decreasing(r)
  <2> SUFFICES ASSUME Increasing(s), NEW i \in 1..Len(s), NEW j \in 1..Len(s), i < j
               PROVE  r[i] > r[j]
    BY <1>4 DEF Decreasing
  <2>1. s[(Len(s) - j) + 1] < s[(Len(s) - i) + 1]
    BY <1>1, <1>8 DEF Increasing
  <2> QED BY <1>1, <1>5, <2>1
<1>10. Decreasing(s) => Increasing(r)
  <2> SUFFICES ASSUME Decreasing(s), NEW i \in 1..Len(s), NEW j \in 1..Len(s), i < j
               PROVE  r[i] < r[j]
    BY <1>4 DEF Increasing
  <2>1. s[(Len(s) - j) + 1] > s[(Len(s) - i) + 1]
    BY <1>1, <1>8 DEF Decreasing
  <2> QED BY <1>1, <1>5, <2>1
<1> QED BY <1>4, <1>7, <1>9, <1>10 DEF r

LEMMA Walked ==
    ASSUME NEW s \in Seq(Nat), s # <<>>
    PROVE  /\ Head(s) \in Nat
           /\ Tail(s) \in Seq(Nat)
           /\ ToSet(s) = {Head(s)} \cup ToSet(Tail(s))
           /\ Increasing(s) => Increasing(Tail(s)) /\ Newer(ToSet(Tail(s)), {Head(s)})
<1> DEFINE r == Tail(s)
<1>1. /\ Len(s) \in Nat \ {0} /\ DOMAIN s = 1..Len(s) /\ Head(s) = s[1]
      /\ r \in Seq(Nat) /\ Len(r) = Len(s) - 1 /\ DOMAIN r = 1..(Len(s) - 1)
      /\ \A i \in 1..(Len(s) - 1) : r[i] = s[i + 1]
  OBVIOUS
<1> HIDE DEF r
<1>2. Head(s) \in Nat
  BY <1>1
<1>3. \A i \in DOMAIN s : i = 1 \/ (i - 1 \in DOMAIN r /\ s[i] = r[i - 1])
  BY <1>1
<1>7. DOMAIN s = 1..Len(s) /\ DOMAIN r = 1..(Len(s) - 1) /\ Len(s) \in Nat \ {0}
  BY <1>1
<1>4. \A i \in DOMAIN r : i + 1 \in DOMAIN s /\ r[i] = s[i + 1]
  BY <1>1
<1>5. ToSet(s) = {Head(s)} \cup ToSet(r)
  <2>1. 1 \in DOMAIN s
    BY <1>1
  <2>2. ToSet(s) \subseteq {Head(s)} \cup ToSet(r)
    <3> SUFFICES ASSUME NEW i \in DOMAIN s PROVE s[i] \in {Head(s)} \cup ToSet(r)
      BY DEF ToSet
    <3>1. CASE i = 1
      BY <1>1, <3>1
    <3>2. CASE i # 1
      BY <1>3, <3>2 DEF ToSet
    <3> QED BY <3>1, <3>2
  <2>3. {Head(s)} \cup ToSet(r) \subseteq ToSet(s)
    BY <1>1, <1>4, <2>1 DEF ToSet
  <2> QED BY <2>2, <2>3
<1>6. ASSUME Increasing(s) PROVE Increasing(r) /\ Newer(ToSet(r), {Head(s)})
  <2>1. ASSUME NEW i \in DOMAIN r, NEW j \in DOMAIN r, i < j PROVE r[i] < r[j]
    <3>1. i + 1 \in DOMAIN s /\ j + 1 \in DOMAIN s /\ i + 1 < j + 1
      BY <1>7, <2>1
    <3> QED BY <1>4, <1>6, <3>1 DEF Increasing
  <2>2. ASSUME NEW i \in DOMAIN r PROVE r[i] > s[1]
    <3>1. i + 1 \in DOMAIN s /\ 1 \in DOMAIN s /\ 1 < i + 1
      BY <1>7
    <3>2. s[1] < s[i + 1]
      BY <1>6, <3>1 DEF Increasing
    <3> QED BY <1>1, <1>4, <3>1, <3>2
  <2> QED BY <1>1, <2>1, <2>2 DEF Increasing, Newer, ToSet
<1> QED BY <1>1, <1>2, <1>5, <1>6 DEF r

\* An mvar that leaves the list.
LEMMA Removed ==
    ASSUME NEW s \in Seq(Nat), NEW i \in DOMAIN s
    PROVE  /\ RemoveAt(s, i) \in Seq(Nat)
           /\ ToSet(s) = {s[i]} \cup ToSet(RemoveAt(s, i))
           /\ Decreasing(s) => Decreasing(RemoveAt(s, i))
<1> DEFINE a == SubSeq(s, 1, i - 1)
<1> DEFINE b == SubSeq(s, i + 1, Len(s))
<1>1. Len(s) \in Nat /\ DOMAIN s = 1..Len(s) /\ i \in 1..Len(s)
  OBVIOUS
<1>2. /\ a \in Seq(Nat) /\ Len(a) = i - 1 /\ DOMAIN a = 1..(i - 1)
      /\ \A j \in 1..(i - 1) : a[j] = s[j]
  BY <1>1
<1>3. /\ b \in Seq(Nat) /\ Len(b) = Len(s) - i /\ DOMAIN b = 1..(Len(s) - i)
      /\ \A j \in 1..(Len(s) - i) : b[j] = s[i + j]
  <2>1. \A j \in (i + 1)..Len(s) : s[j] \in Nat
    BY <1>1
  <2>2. /\ b \in Seq(Nat)
        /\ Len(b) = IF i + 1 <= Len(s) THEN Len(s) - (i + 1) + 1 ELSE 0
        /\ \A j \in 1..(Len(s) - (i + 1) + 1) : b[j] = s[(i + 1) + j - 1]
    <3>1. i + 1 \in Int /\ Len(s) \in Int
      BY <1>1
    <3> QED BY <2>1, <3>1, SubSeqProperties
  <2>3. Len(s) - (i + 1) + 1 = Len(s) - i /\ Len(b) = Len(s) - i
    BY <1>1, <2>2
  <2>4. ASSUME NEW j \in 1..(Len(s) - i) PROVE b[j] = s[i + j]
    <3>1. (i + 1) + j - 1 = i + j
      BY <1>1
    <3> QED BY <2>2, <2>3, <3>1
  <2> HIDE DEF b
  <2> QED BY <2>2, <2>3, <2>4
<1>4. RemoveAt(s, i) = a \o b
  BY DEF RemoveAt
<1> HIDE DEF a, b
<1>7. /\ DOMAIN a = 1..(i - 1) /\ DOMAIN b = 1..(Len(s) - i) /\ DOMAIN s = 1..Len(s)
      /\ i \in 1..Len(s) /\ Len(s) \in Nat
  BY <1>1, <1>2, <1>3
<1>5. ToSet(s) = {s[i]} \cup (ToSet(a) \cup ToSet(b))
  <2>1. ASSUME NEW j \in DOMAIN s PROVE s[j] \in {s[i]} \cup (ToSet(a) \cup ToSet(b))
    <3>1. CASE j < i
      <4>1. j \in DOMAIN a /\ s[j] = a[j]
        BY <1>1, <1>2, <3>1
      <4> QED BY <4>1 DEF ToSet
    <3>2. CASE j > i
      <4>1. j - i \in 1..(Len(s) - i) /\ i + (j - i) = j
        BY <1>1, <3>2
      <4>2. j - i \in DOMAIN b /\ s[j] = b[j - i]
        BY <1>3, <4>1
      <4> QED BY <4>2 DEF ToSet
    <3> QED BY <1>1, <3>1, <3>2
  <2>2. ASSUME NEW j \in DOMAIN a PROVE a[j] \in ToSet(s)
    BY <1>1, <1>2 DEF ToSet
  <2>3. ASSUME NEW j \in DOMAIN b PROVE b[j] \in ToSet(s)
    <3>1. i + j \in DOMAIN s /\ j \in 1..(Len(s) - i)
      BY <1>7
    <3>2. b[j] = s[i + j]
      BY <1>3, <3>1
    <3> QED BY <3>1, <3>2 DEF ToSet
  <2> QED BY <2>1, <2>2, <2>3 DEF ToSet
<1>6. ASSUME Decreasing(s) PROVE Decreasing(a) /\ Decreasing(b) /\ Newer(ToSet(a), ToSet(b))
  <2>1. Decreasing(a)
    BY <1>1, <1>2, <1>6 DEF Decreasing
  <2>2. ASSUME NEW j \in DOMAIN b, NEW k \in DOMAIN b, j < k PROVE b[j] > b[k]
    <3>1. i + j \in DOMAIN s /\ i + k \in DOMAIN s /\ i + j < i + k
      BY <1>7, <2>2
    <3> QED BY <1>3, <1>6, <3>1 DEF Decreasing
  <2>3. ASSUME NEW j \in DOMAIN a, NEW k \in DOMAIN b PROVE a[j] > b[k]
    <3>1. j \in DOMAIN s /\ i + k \in DOMAIN s /\ j < i + k
      BY <1>7
    <3> QED BY <1>2, <1>3, <1>6, <3>1 DEF Decreasing
  <2> QED BY <2>1, <2>2, <2>3 DEF Decreasing, Newer, ToSet
<1> QED BY <1>2, <1>3, <1>4, <1>5, <1>6, Concatenated

-----------------------------------------------------------------------------
(* States and frames after an assignment. *)

LEMMA PendingSet ==
    ASSUME NEW t, IsState(t), NEW l \in Seq(Nat)
    PROVE  /\ IsState([t EXCEPT !.pending = l])
           /\ [t EXCEPT !.pending = l].pending = l
           /\ [t EXCEPT !.pending = l].decls = t.decls
           /\ [t EXCEPT !.pending = l].solved = t.solved
  BY DEF IsState

LEMMA SolvedSet ==
    ASSUME NEW t, IsState(t), NEW S
    PROVE  /\ IsState([t EXCEPT !.solved = S])
           /\ [t EXCEPT !.solved = S].pending = t.pending
           /\ [t EXCEPT !.solved = S].decls = t.decls
           /\ [t EXCEPT !.solved = S].solved = S
  BY DEF IsState

LEMMA DeclsSet ==
    ASSUME NEW t, IsState(t), NEW d
    PROVE  /\ IsState([t EXCEPT !.decls = d])
           /\ [t EXCEPT !.decls = d].pending = t.pending
           /\ [t EXCEPT !.decls = d].decls = d
           /\ [t EXCEPT !.decls = d].solved = t.solved
  BY DEF IsState

LEMMA Assigned ==
    ASSUME NEW t, IsState(t), NEW mv, NEW val
    PROVE  /\ IsState(Assign(t, mv, val))
           /\ Assign(t, mv, val).pending = t.pending
           /\ Assign(t, mv, val).decls = t.decls
           /\ Assign(t, mv, val).solved = t.solved
<1> DEFINE types == [t.types EXCEPT ![mv] = val]
<1>1. Assign(t, mv, val) = IF mv = None THEN t ELSE [t EXCEPT !.types = types]
  BY DEF Assign, IsState
<1> HIDE DEF types
<1> QED BY <1>1 DEF IsState

LEMMA Registered ==
    ASSUME NEW t, IsState(t), NEW id \in Nat, NEW decl
    PROVE  /\ IsState(Register(t, id, decl))
           /\ Register(t, id, decl).pending = <<id>> \o t.pending
           /\ DOMAIN Register(t, id, decl).decls = DOMAIN t.decls \cup {id}
           /\ Register(t, id, decl).solved = t.solved
<1> DEFINE l == <<id>> \o t.pending
<1> DEFINE d == [i \in DOMAIN t.decls \cup {id} |-> IF i = id THEN decl ELSE t.decls[i]]
<1>1. Register(t, id, decl) = [t EXCEPT !.pending = l, !.decls = d]
  BY DEF Register, IsState
<1>2. l \in Seq(Nat) /\ DOMAIN d = DOMAIN t.decls \cup {id}
  BY DEF IsState
<1> HIDE DEF l, d
<1> DEFINE u == [t EXCEPT !.pending = l]
<1>3. [t EXCEPT !.pending = l, !.decls = d] = [u EXCEPT !.decls = d]
  OBVIOUS
<1>4. IsState(u) /\ u.pending = l /\ u.solved = t.solved
  BY <1>2, PendingSet
<1> HIDE DEF u
<1>5. /\ IsState([u EXCEPT !.decls = d]) /\ [u EXCEPT !.decls = d].pending = l
      /\ [u EXCEPT !.decls = d].decls = d /\ [u EXCEPT !.decls = d].solved = t.solved
  BY <1>4, DeclsSet
<1> QED BY <1>1, <1>2, <1>3, <1>5 DEF l

LEMMA Resolved ==
    ASSUME NEW t, IsState(t), NEW id
    PROVE  /\ IsState(MarkAsResolved(t, id))
           /\ MarkAsResolved(t, id).pending = t.pending
           /\ DOMAIN MarkAsResolved(t, id).decls = DOMAIN t.decls \ {id}
           /\ MarkAsResolved(t, id).solved = t.solved
<1> DEFINE d == [i \in DOMAIN t.decls \ {id} |-> t.decls[i]]
<1>1. MarkAsResolved(t, id) = [t EXCEPT !.decls = d] /\ DOMAIN d = DOMAIN t.decls \ {id}
  BY DEF MarkAsResolved, IsState
<1> HIDE DEF d
<1> QED BY <1>1, DeclsSet

LEMMA UsedDefault ==
    ASSUME NEW t, IsState(t), NEW prio, NEW i \in DOMAIN t.pending
    PROVE  /\ IsState(UsingDefault(t, prio, i))
           /\ UsingDefault(t, prio, i).pending = RemoveAt(t.pending, i)
           /\ UsingDefault(t, prio, i).decls = t.decls
           /\ UsingDefault(t, prio, i).solved = t.solved \cup {t.pending[i]}
<1> DEFINE u == Assign(t, t.decls[t.pending[i]].goal.mv,
                       Head(AcceptedAt(t, t.pending[i], prio)).val)
<1>1. IsState(u) /\ u.pending = t.pending /\ u.decls = t.decls /\ u.solved = t.solved
  BY Assigned
<1>2. UsingDefault(t, prio, i) = [u EXCEPT !.pending = RemoveAt(u.pending, i),
                                           !.solved = u.solved \cup {t.pending[i]}]
  BY DEF UsingDefault
<1> HIDE DEF u
<1> DEFINE l == RemoveAt(u.pending, i)
<1> DEFINE S == u.solved \cup {t.pending[i]}
<1>3. l \in Seq(Nat) /\ l = RemoveAt(t.pending, i) /\ S = t.solved \cup {t.pending[i]}
  BY <1>1, Removed DEF IsState
<1>4. UsingDefault(t, prio, i) = [u EXCEPT !.pending = l, !.solved = S]
  BY <1>2
<1> HIDE DEF l, S
<1> DEFINE v == [u EXCEPT !.pending = l]
<1>5. UsingDefault(t, prio, i) = [v EXCEPT !.solved = S]
  BY <1>4
<1>6. IsState(v) /\ v.pending = l /\ v.decls = t.decls
  BY <1>1, <1>3, PendingSet
<1> HIDE DEF v
<1>7. /\ IsState([v EXCEPT !.solved = S]) /\ [v EXCEPT !.solved = S].pending = l
      /\ [v EXCEPT !.solved = S].decls = t.decls /\ [v EXCEPT !.solved = S].solved = S
  BY <1>6, SolvedSet
<1> QED BY <1>3, <1>5, <1>7

LEMMA CodeRun ==
    ASSUME NEW fr, IsFrame(fr), fr.f \in {"elab", "resume"}, NEW code
    PROVE  /\ IsFrame([fr EXCEPT !.code = code])
           /\ [fr EXCEPT !.code = code].f = fr.f
           /\ [fr EXCEPT !.code = code].saved = fr.saved
<1>1. CASE fr.f = "elab"
  BY <1>1 DEF IsFrame
<1>2. CASE fr.f = "resume"
  BY <1>2 DEF IsFrame
<1> QED BY <1>1, <1>2

LEMMA RungTried ==
    ASSUME NEW fr, IsFrame(fr), fr.f = "ladder", NEW rung
    PROVE  /\ IsFrame([fr EXCEPT !.rung = rung])
           /\ [fr EXCEPT !.rung = rung].f = "ladder"
           /\ [fr EXCEPT !.rung = rung].postpone = fr.postpone
  BY DEF IsFrame

-----------------------------------------------------------------------------
(* What an action needs to keep. *)

LEMMA BelowBounded ==
    ASSUME NEW s, NEW n, Stacked(s, n)
    PROVE  Below(s) \subseteq 1..n
<1> SUFFICES ASSUME NEW i \in DOMAIN s PROVE Ids(s[i]) \subseteq 1..n
  BY DEF Below
<1>1. DOMAIN s = 1..Len(s)
  BY DEF Stacked, IsSeq
<1> QED BY <1>1 DEF Stacked, Sits

\* An mvar is minted.
LEMMA Grown ==
    ASSUME NEW s, NEW t, NEW n \in Nat, Stacked(s, n), Ordered(t, s, n)
    PROVE  Stacked(s, n + 1) /\ Ordered(t, s, n + 1)
<1>1. \A S : S \subseteq 1..n => S \subseteq 1..(n + 1)
  OBVIOUS
<1>2. \A u, r : Ordered(u, r, n) => Ordered(u, r, n + 1)
  BY <1>1 DEF Ordered
<1>3. \A fr, r : Sits(fr, r, n) => Sits(fr, r, n + 1)
  BY <1>1, <1>2 DEF Sits
<1> QED BY <1>2, <1>3 DEF Stacked

LEMMA NewestIsRegistered ==
    ASSUME NEW s, NEW t, NEW n \in Nat, Stacked(s, n), Ordered(t, s, n), NEW decl
    PROVE  /\ Stacked(s, n + 1)
           /\ Ordered(Register(t, n + 1, decl), s, n + 1)
           /\ Covered(t, s) => Covered(Register(t, n + 1, decl), s)
<1> DEFINE u == Register(t, n + 1, decl)
<1>1. /\ IsState(u) /\ u.pending = <<n + 1>> \o t.pending
      /\ DOMAIN u.decls = DOMAIN t.decls \cup {n + 1} /\ u.solved = t.solved
  BY Registered DEF Ordered
<1> HIDE DEF u
<1>2. /\ ToSet(u.pending) = {n + 1} \cup ToSet(t.pending)
      /\ Decreasing(u.pending)
  BY <1>1, Prepended DEF Ordered, IsState
<1>3. \A id \in Below(s) : id \in 1..n
  BY BelowBounded
<1>4. Newer(ToSet(u.pending), Below(s))
  BY <1>2, <1>3 DEF Newer, Ordered
<1>5. ToSet(u.pending) \subseteq 1..(n + 1)
  BY <1>2 DEF Ordered
<1>6. Ordered(u, s, n + 1)
  BY <1>1, <1>2, <1>4, <1>5 DEF Ordered
<1>7. Covered(t, s) => Covered(u, s)
  BY <1>1, <1>2 DEF Covered
<1> QED BY <1>6, <1>7, Grown DEF u

LEMMA SoundRun ==
    ASSUME NEW t, NEW s, NEW n, Stacked(s, n), Ordered(t, s, n), Covered(t, s), Len(s) > 1
    PROVE  Sound(t, s, "run", n)
  BY DEF Sound, ReturnInv, KeptInv, Stacked, IsSeq

LEMMA SoundThrow ==
    ASSUME NEW t, NEW s, NEW n, Stacked(s, n), Ordered(t, s, n), NEW c \in Thrown
    PROVE  Sound(t, s, c, n)
  BY DEF Sound, ReturnInv, KeptInv, Thrown

LEMMA SoundReturn ==
    ASSUME NEW t, NEW s, NEW n, Stacked(s, n), Ordered(t, s, n), Covered(t, s), Len(s) > 1,
           s[1].f = "ladder" \/ (s[1].f = "step" /\ s[1].walk # <<>>), NEW c \in {"true", "false"}
    PROVE  Sound(t, s, c, n)
  BY DEF Sound, ReturnInv, KeptInv, Stacked, IsSeq

\* The call on top, and the calls below.
LEMMA OnTop ==
    ASSUME IndInv, stack # <<>>
    PROVE  /\ Stacked(Tail(stack), Len(origin))
           /\ Sits(Top, Tail(stack), Len(origin))
           /\ Below(stack) = Ids(Top) \cup Below(Tail(stack))
           /\ Len(stack) \in Nat \ {0}
           /\ Len(Tail(stack)) = Len(stack) - 1
           /\ Top = stack[1]
           /\ Top.f \in {"elab", "resume", "step", "loop"} => Len(stack) > 2
           /\ Top.f = "ladder" => Len(stack) > 1
           /\ Len(origin) \in Nat
<1>1. Stacked(stack, Len(origin)) /\ Len(origin) \in Nat
  BY DEF IndInv, Sound, IsSeq
<1>2. /\ Stacked(Tail(stack), Len(origin))
      /\ Sits(Top, Tail(stack), Len(origin))
      /\ Below(stack) = Ids(Top) \cup Below(Tail(stack))
      /\ Len(stack) \in Nat \ {0}
      /\ Len(Tail(stack)) = Len(stack) - 1
      /\ Top = stack[1]
  BY <1>1, Popped DEF Top
<1>3. Len(Tail(stack)) = 0 => Top.f = "with"
  BY <1>2 DEF Sits
<1>4. Len(Tail(stack)) = 1 => Top.f = "ladder"
  BY <1>2 DEF Sits
<1> QED BY <1>1, <1>2, <1>3, <1>4

\* The call on top runs an instruction, which leaves the calls below as they are.
LEMMA CodeStacked ==
    ASSUME NEW fr, NEW s, NEW n, Stacked(s, n), Sits(fr, s, n),
           fr.f \in {"elab", "resume"},
           NEW f, IsFrame(f), f.f = fr.f, f.saved = fr.saved
    PROVE  /\ Stacked(<<f>> \o s, n)
           /\ Below(<<f>> \o s) = Below(s)
           /\ Len(<<f>> \o s) = Len(s) + 1
           /\ (<<f>> \o s)[1] = f
           /\ Len(s) \in Nat /\ Len(s) > 1
<1>2. Ids(f) = {} /\ Ids(fr) = {}
  BY DEF Ids
<1>3. Sits(f, s, n)
  BY <1>2 DEF Sits
<1>4. /\ Stacked(<<f>> \o s, n) /\ Below(<<f>> \o s) = Ids(f) \cup Below(s)
      /\ Len(<<f>> \o s) = Len(s) + 1 /\ (<<f>> \o s)[1] = f /\ Len(s) \in Nat
  BY <1>3, Pushed
<1>5. Len(s) # 0 /\ Len(s) # 1
  BY DEF Sits
<1>6. Len(s) > 1
  BY <1>4, <1>5
<1>7. Below(<<f>> \o s) = Below(s)
  BY <1>2, <1>4
<1> QED BY <1>4, <1>6, <1>7

LEMMA Continues ==
    ASSUME IndInv, stack # <<>>, Top.f \in {"elab", "resume"}, ctl = "run"
    PROVE  /\ Stacked(Continuation, Len(origin))
           /\ Below(Continuation) = Below(stack)
           /\ Len(Continuation) \in Nat /\ Len(Continuation) > 2
           /\ Ordered(ts, Continuation, Len(origin)) /\ Covered(ts, Continuation)
<1> DEFINE rest == Tail(stack)
<1> DEFINE n == Len(origin)
<1> DEFINE top == Top
<1>1. Stacked(rest, n) /\ Sits(top, rest, n) /\ Below(stack) = Ids(top) \cup Below(rest)
  BY OnTop
<1>2. PICK f : IsFrame(f) /\ f.f = top.f /\ f.saved = top.saved /\ Continuation = <<f>> \o rest
  BY <1>1, CodeRun DEF Continuation, Replace, Sits
<1>3. Ordered(ts, stack, n) /\ Covered(ts, stack)
  BY DEF IndInv, Sound, KeptInv, Thrown
<1>4. top.f \in {"elab", "resume"}
  OBVIOUS
<1> HIDE DEF rest, n, top
<1>5. /\ Stacked(<<f>> \o rest, n) /\ Below(<<f>> \o rest) = Below(rest)
      /\ Len(<<f>> \o rest) = Len(rest) + 1 /\ Len(rest) \in Nat /\ Len(rest) > 1
  BY <1>1, <1>2, <1>4, CodeStacked
<1>6. Below(Continuation) = Below(stack)
  BY <1>1, <1>2, <1>4, <1>5 DEF Ids
<1>7. Stacked(Continuation, n) /\ Len(Continuation) \in Nat /\ Len(Continuation) > 2
  BY <1>2, <1>5
<1>8. Ordered(ts, Continuation, n) /\ Covered(ts, Continuation)
  BY <1>3, <1>6 DEF Ordered, Covered
<1> QED BY <1>6, <1>7, <1>8 DEF n

LEMMA Ran ==
    ASSUME IndInv, stack # <<>>, Top.f \in {"elab", "resume"}, ctl = "run", Proceed
    PROVE  /\ Stacked(stack', Len(origin))
           /\ Len(stack') > 1
           /\ Ordered(ts, stack', Len(origin)) /\ Covered(ts, stack')
  BY Continues DEF Proceed

LEMMA Minted ==
    ASSUME NEW s, IsSeq(s), NEW x
    PROVE  IsSeq(Append(s, x)) /\ Len(Append(s, x)) = Len(s) + 1 /\ Len(s) \in Nat
<1> DEFINE S == {s[i] : i \in DOMAIN s} \cup {x}
<1>1. s \in Seq(S) /\ x \in S
  BY DEF IsSeq
<1> HIDE DEF S
<1>2. Append(s, x) \in Seq(S) /\ Len(Append(s, x)) = Len(s) + 1 /\ Len(s) \in Nat
  BY <1>1
<1> QED BY <1>2, SeqIsSeq

-----------------------------------------------------------------------------
(* The instructions. *)

LEMMA ExecutingRun ==
    ASSUME IndInv, NEW op, Executing(op)
    PROVE  /\ stack # <<>> /\ Top.f \in {"elab", "resume"} /\ ctl = "run"
           /\ IsSeq(origin) /\ Len(origin) \in Nat
           /\ Stacked(stack, Len(origin)) /\ Ordered(ts, stack, Len(origin))
           /\ Covered(ts, stack)
<1>1. stack # <<>> /\ Top.f \in {"elab", "resume"} /\ ctl = "run"
  BY DEF Executing
<1> QED BY <1>1, OnTop DEF IndInv, Sound, KeptInv, Thrown

LEMMA OnlyTypesChange ==
    ASSUME NEW t, NEW u, NEW s, NEW n, IsState(u), u.pending = t.pending, u.decls = t.decls,
           t.solved \subseteq u.solved
    PROVE  /\ Ordered(t, s, n) => Ordered(u, s, n)
           /\ Covered(t, s) => Covered(u, s)
  BY DEF Ordered, Covered

LEMMA RunsOn ==
    ASSUME IndInv, NEW op, Executing(op), Proceed, ctl' = ctl, origin' = origin,
           IsState(ts'), ts'.pending = ts.pending, ts'.decls = ts.decls,
           ts.solved \subseteq ts'.solved
    PROVE  IndInv'
<1>1. /\ stack # <<>> /\ Top.f \in {"elab", "resume"} /\ ctl = "run"
      /\ IsSeq(origin) /\ Len(origin) \in Nat
  BY ExecutingRun
<1>2. /\ Stacked(stack', Len(origin)) /\ Len(stack') > 1
      /\ Ordered(ts, stack', Len(origin)) /\ Covered(ts, stack')
  BY <1>1, Ran
<1>3. Ordered(ts', stack', Len(origin)) /\ Covered(ts', stack')
  BY <1>2, OnlyTypesChange
<1>4. Sound(ts', stack', "run", Len(origin))
  BY <1>2, <1>3, SoundRun
<1> QED BY <1>1, <1>4 DEF IndInv

LEMMA Throws ==
    ASSUME IndInv, NEW op, Executing(op), NEW e \in Thrown, Throw(e), ts' = ts,
           IsSeq(origin'), Len(origin') \in {Len(origin), Len(origin) + 1}
    PROVE  IndInv'
<1>1. /\ Len(origin) \in Nat
      /\ Stacked(stack, Len(origin)) /\ Ordered(ts, stack, Len(origin))
  BY ExecutingRun
<1>2. Stacked(stack, Len(origin')) /\ Ordered(ts, stack, Len(origin'))
  BY <1>1, Grown
<1>3. Sound(ts, stack, e, Len(origin'))
  BY <1>2, SoundThrow
<1> QED BY <1>3 DEF IndInv, Throw

LEMMA Registers ==
    ASSUME IndInv, NEW op, Executing(op), Proceed, ctl' = ctl, NEW decl,
           ts' = Register(ts, Len(origin) + 1, decl), origin' = Append(origin, Place)
    PROVE  IndInv'
<1>1. /\ stack # <<>> /\ Top.f \in {"elab", "resume"} /\ ctl = "run"
      /\ IsSeq(origin) /\ Len(origin) \in Nat
  BY ExecutingRun
<1>2. /\ Stacked(stack', Len(origin)) /\ Len(stack') > 1
      /\ Ordered(ts, stack', Len(origin)) /\ Covered(ts, stack')
  BY <1>1, Ran
<1>3. IsSeq(origin') /\ Len(origin') = Len(origin) + 1
  BY <1>1, Minted
<1>4. /\ Stacked(stack', Len(origin) + 1)
      /\ Ordered(ts', stack', Len(origin) + 1) /\ Covered(ts', stack')
  BY <1>1, <1>2, NewestIsRegistered
<1>5. Sound(ts', stack', "run", Len(origin) + 1)
  BY <1>2, <1>4, SoundRun
<1> QED BY <1>1, <1>3, <1>5 DEF IndInv

LEMMA StateNow == ASSUME IndInv PROVE IsState(ts)
  BY DEF IndInv, Sound, Ordered

LEMMA ExpectStep == ASSUME IndInv, Expect PROVE IndInv'
<1>1. Executing("expect") /\ UNCHANGED <<ts, origin>> /\ IsSeq(origin)
  BY DEF Expect, IndInv
<1>2. CASE Throw("postpone")
  BY <1>1, <1>2, Throws DEF Thrown
<1>3. CASE Proceed /\ UNCHANGED ctl
  BY <1>1, <1>3, RunsOn, StateNow
<1> QED BY <1>2, <1>3 DEF Expect

LEMMA DemandStep == ASSUME IndInv, Demand PROVE IndInv'
<1>1. Executing("demand") /\ UNCHANGED <<ts, origin>> /\ IsSeq(origin)
  BY DEF Demand, IndInv
<1>2. CASE Throw("error")
  BY <1>1, <1>2, Throws DEF Thrown
<1>3. CASE Proceed /\ UNCHANGED ctl
  BY <1>1, <1>3, RunsOn, StateNow
<1> QED BY <1>2, <1>3 DEF Demand

LEMMA UnifyStep == ASSUME IndInv, Unify PROVE IndInv'
<1>1. Executing("unify") /\ UNCHANGED origin /\ IsSeq(origin)
  BY DEF Unify, IndInv
<1>2. CASE Throw("error") /\ UNCHANGED ts
  BY <1>1, <1>2, Throws DEF Thrown
<1>3. CASE /\ ts' = Assign(ts, Head(Top.code).mv, Head(Top.code).val)
           /\ Proceed /\ UNCHANGED ctl
  <2>1. /\ IsState(ts') /\ ts'.pending = ts.pending /\ ts'.decls = ts.decls
        /\ ts'.solved = ts.solved
    BY <1>3, Assigned, StateNow
  <2> QED BY <1>1, <1>3, <2>1, RunsOn
<1> QED BY <1>2, <1>3 DEF Unify

\* synthesize_inst_mvar_core keeps the lists, and solves the mvar where it says so.
LEMMA InstancesTried ==
    ASSUME NEW t, IsState(t), NEW id, NEW g
    PROVE  /\ SynthesizeInstMVarCore(t, id, g).ctl \in {"true", "false"} \cup Thrown
           /\ SynthesizeInstMVarCore(t, id, g).ctl # "true" =>
                  SynthesizeInstMVarCore(t, id, g).ts = t
           /\ IsState(SynthesizeInstMVarCore(t, id, g).ts)
           /\ SynthesizeInstMVarCore(t, id, g).ts.pending = t.pending
           /\ SynthesizeInstMVarCore(t, id, g).ts.decls = t.decls
           /\ t.solved \subseteq SynthesizeInstMVarCore(t, id, g).ts.solved
           /\ SynthesizeInstMVarCore(t, id, g).ctl = "true" =>
                  id \in SynthesizeInstMVarCore(t, id, g).ts.solved
<1> DEFINE r == SynthesizeInstMVarCore(t, id, g)
<1> DEFINE u == Assign(t, g.out, Instances[<<g.cls, t.types[g.mv]>>])
<1> DEFINE v == [u EXCEPT !.solved = u.solved \cup {id}]
<1>1. \/ r.ts = t /\ r.ctl \in {"false", "error", "mismatch"}
      \/ r.ts = v /\ r.ctl = "true"
  <2>1. CASE TrySynthInstance(t, g) = "undef"
    BY <2>1 DEF SynthesizeInstMVarCore
  <2>2. CASE TrySynthInstance(t, g) = "none"
    BY <2>2 DEF SynthesizeInstMVarCore
  <2>3. CASE TrySynthInstance(t, g) \notin {"undef", "none"}
    BY <2>3 DEF SynthesizeInstMVarCore
  <2> QED BY <2>1, <2>2, <2>3
<1>2. IsState(u) /\ u.pending = t.pending /\ u.decls = t.decls /\ u.solved = t.solved
  BY Assigned
<1> HIDE DEF u
<1>3. /\ IsState(v) /\ v.pending = t.pending /\ v.decls = t.decls
      /\ v.solved = t.solved \cup {id}
  BY <1>2, SolvedSet
<1> HIDE DEF r, v
<1>4. /\ r.ctl \in {"true", "false"} \cup Thrown
      /\ r.ctl # "true" => r.ts = t
      /\ IsState(r.ts) /\ r.ts.pending = t.pending /\ r.ts.decls = t.decls
      /\ t.solved \subseteq r.ts.solved
      /\ r.ctl = "true" => id \in r.ts.solved
  BY <1>1, <1>3 DEF Thrown
<1> QED BY <1>4 DEF r

LEMMA NewInstStep == ASSUME IndInv, NewInst PROVE IndInv'
<1> DEFINE id == Len(origin) + 1
<1> DEFINE g == Head(Top.code).goal
<1> DEFINE r == SynthesizeInstMVarCore(ts, id, g)
<1>1. Executing("inst") /\ origin' = Append(origin, Place) /\ IsSeq(origin)
  BY DEF NewInst, IndInv
<1>2. /\ r.ctl \in {"true", "false"} \cup Thrown
      /\ IsState(r.ts) /\ r.ts.pending = ts.pending /\ r.ts.decls = ts.decls
      /\ ts.solved \subseteq r.ts.solved
  BY InstancesTried, StateNow
<1>3. \/ r.ctl \in Thrown /\ Throw(r.ctl) /\ UNCHANGED ts
      \/ r.ctl = "true" /\ ts' = r.ts /\ Proceed /\ UNCHANGED ctl
      \/ /\ ts' = Register(ts, id, [kind |-> "typeClass", goal |-> g])
         /\ Proceed /\ UNCHANGED ctl
  BY DEF NewInst
<1>4. IsSeq(origin') /\ Len(origin') = Len(origin) + 1 /\ Len(origin) \in Nat
  BY <1>1, Minted
<1> HIDE DEF r
<1>5. CASE r.ctl \in Thrown /\ Throw(r.ctl) /\ UNCHANGED ts
  BY <1>1, <1>4, <1>5, Throws
<1>6. CASE r.ctl = "true" /\ ts' = r.ts /\ Proceed /\ UNCHANGED ctl
  <2>1. /\ stack # <<>> /\ Top.f \in {"elab", "resume"} /\ ctl = "run"
    BY <1>1, ExecutingRun
  <2>2. /\ Stacked(stack', Len(origin)) /\ Len(stack') > 1
        /\ Ordered(ts, stack', Len(origin)) /\ Covered(ts, stack')
    BY <1>6, <2>1, Ran
  <2>3. Ordered(ts', stack', Len(origin)) /\ Covered(ts', stack')
    BY <1>2, <1>6, <2>2, OnlyTypesChange
  <2>4. Stacked(stack', Len(origin')) /\ Ordered(ts', stack', Len(origin'))
    BY <1>4, <2>2, <2>3, Grown
  <2>5. Sound(ts', stack', "run", Len(origin'))
    BY <2>2, <2>3, <2>4, SoundRun
  <2> QED BY <1>4, <1>6, <2>1, <2>5 DEF IndInv
<1>7. CASE /\ ts' = Register(ts, id, [kind |-> "typeClass", goal |-> g])
           /\ Proceed /\ UNCHANGED ctl
  BY <1>1, <1>7, Registers
<1> QED BY <1>3, <1>5, <1>6, <1>7

LEMMA NewCoeStep == ASSUME IndInv, NewCoe PROVE IndInv'
<1> DEFINE c == Head(Top.code)
<1>1. Executing("coe") /\ IsSeq(origin)
  BY DEF NewCoe, IndInv
<1>2. CASE Throw("error") /\ UNCHANGED <<ts, origin>>
  BY <1>1, <1>2, Throws DEF Thrown
<1>3. CASE UNCHANGED <<ts, origin>> /\ Proceed /\ UNCHANGED ctl
  BY <1>1, <1>3, RunsOn, StateNow
<1>4. CASE /\ ts' = Register(ts, Len(origin) + 1, [kind |-> "coe", goal |-> c])
           /\ origin' = Append(origin, Place) /\ Proceed /\ UNCHANGED ctl
  BY <1>1, <1>4, Registers
<1> QED BY <1>2, <1>3, <1>4 DEF NewCoe

LEMMA NewTacticStep == ASSUME IndInv, NewTactic PROVE IndInv'
  BY Registers DEF NewTactic

-----------------------------------------------------------------------------
(* Calls and what they return. *)

LEMMA TermCalled ==
    ASSUME NEW s, NEW n, NEW t, NEW term, Stacked(s, n), Ordered(t, s, n), Covered(t, s),
           Len(s) # 0, Len(s) # 1
    PROVE  /\ Stacked(<<Elab(term, t)>> \o s, n)
           /\ Below(<<Elab(term, t)>> \o s) = Below(s)
           /\ Len(<<Elab(term, t)>> \o s) = Len(s) + 1
<1> DEFINE f == Elab(term, t)
<1>1. IsFrame(f) /\ f.f = "elab" /\ f.saved = t
  BY DEF IsFrame, Elab
<1> HIDE DEF f
<1>2. Ids(f) = {}
  BY <1>1 DEF Ids
<1>3. Sits(f, s, n)
  BY <1>1, <1>2 DEF Sits, Newer
<1>4. /\ Stacked(<<f>> \o s, n) /\ Below(<<f>> \o s) = Ids(f) \cup Below(s)
      /\ Len(<<f>> \o s) = Len(s) + 1
  BY <1>3, Pushed
<1> QED BY <1>2, <1>4 DEF f

LEMMA LadderCalled ==
    ASSUME NEW s, NEW n, NEW postpone, Stacked(s, n),
           Len(s) # 0, Len(s) = 1 => postpone = "No"
    PROVE  /\ Stacked(<<Ladder(postpone)>> \o s, n)
           /\ Below(<<Ladder(postpone)>> \o s) = Below(s)
           /\ Len(<<Ladder(postpone)>> \o s) = Len(s) + 1
<1> DEFINE f == Ladder(postpone)
<1>1. IsFrame(f) /\ f.f = "ladder" /\ f.postpone = postpone
  BY DEF IsFrame, Ladder
<1> HIDE DEF f
<1>2. Ids(f) = {}
  BY <1>1 DEF Ids
<1>3. Sits(f, s, n)
  BY <1>1, <1>2 DEF Sits, Newer
<1>4. /\ Stacked(<<f>> \o s, n) /\ Below(<<f>> \o s) = Ids(f) \cup Below(s)
      /\ Len(<<f>> \o s) = Len(s) + 1
  BY <1>3, Pushed
<1> QED BY <1>2, <1>4 DEF f

LEMMA LoopCalled ==
    ASSUME NEW s, NEW n, Stacked(s, n), Len(s) # 0, Len(s) # 1
    PROVE  /\ Stacked(<<DefaultLoop>> \o s, n)
           /\ Below(<<DefaultLoop>> \o s) = Below(s)
           /\ Len(<<DefaultLoop>> \o s) = Len(s) + 1
<1> DEFINE f == DefaultLoop
<1>1. IsFrame(f) /\ f.f = "loop"
  BY DEF IsFrame, DefaultLoop
<1> HIDE DEF f
<1>2. Ids(f) = {}
  BY <1>1 DEF Ids
<1>3. Sits(f, s, n)
  BY <1>1, <1>2 DEF Sits, Newer
<1>4. /\ Stacked(<<f>> \o s, n) /\ Below(<<f>> \o s) = Ids(f) \cup Below(s)
      /\ Len(<<f>> \o s) = Len(s) + 1
  BY <1>3, Pushed
<1> QED BY <1>2, <1>4 DEF f

\* The frame f, or the frames p, above the stack s.
Push(f, s) == <<f>> \o s
Calls(p, s) == p \o s

LEMMA ConsAppend ==
    ASSUME NEW s, IsSeq(s), NEW p, IsSeq(p), NEW f
    PROVE  /\ Calls(Push(f, p), s) = Push(f, Calls(p, s))
           /\ IsSeq(Push(f, p))
<1> DEFINE S == {s[i] : i \in DOMAIN s} \cup {p[i] : i \in DOMAIN p} \cup {f}
<1>1. s \in Seq(S) /\ p \in Seq(S) /\ <<f>> \in Seq(S)
  BY DEF IsSeq
<1> HIDE DEF S
<1>2. (<<f>> \o p) \o s = <<f>> \o (p \o s)
  BY <1>1, ConcatAssociative
<1>3. <<f>> \o p \in Seq(S)
  BY <1>1
<1> QED BY <1>2, <1>3, SeqIsSeq DEF Calls, Push

LEMMA EnclosingFrames ==
    ASSUME NEW s, IsSeq(s), NEW term, NEW postpone, NEW inner, NEW caller,
           NEW a, a = Push(With(caller), s),
           NEW b, postpone = "Yes" => b = Push(DefaultLoop, a), postpone # "Yes" => b = a,
           NEW c, c = Push(Ladder(postpone), b)
    PROVE  Calls(WithSynthesize(term, postpone, inner, caller), s) = Push(Elab(term, inner), c)
<1> DEFINE e == Elab(term, inner)
<1> DEFINE r == Ladder(postpone)
<1> DEFINE o == DefaultLoop
<1> DEFINE w == With(caller)
<1>1. WithSynthesize(term, postpone, inner, caller) =
          <<e, r>> \o (IF postpone = "Yes" THEN <<o>> ELSE <<>>) \o <<w>>
  BY DEF WithSynthesize
<1> HIDE DEF e, r, o, w
<1>2. /\ <<e, r>> \o <<>> \o <<w>> = <<e>> \o (<<r>> \o <<w>>)
      /\ <<e, r>> \o <<o>> \o <<w>> = <<e>> \o (<<r>> \o (<<o>> \o <<w>>))
  <2> DEFINE S == {e, r, o, w}
  <2>1. /\ <<e>> \in Seq(S) /\ <<r>> \in Seq(S) /\ <<o>> \in Seq(S) /\ <<w>> \in Seq(S)
        /\ <<r>> \o <<w>> \in Seq(S) /\ <<o>> \o <<w>> \in Seq(S)
        /\ <<e, r>> \in Seq(S)
    OBVIOUS
  <2>2. <<e, r>> = <<e>> \o <<r>>
    <3> DEFINE x == <<e>> \o <<r>>
    <3>1. x \in Seq(S) /\ Len(x) = 2 /\ x[1] = e /\ x[2] = r
      BY <2>1
    <3> HIDE DEF x
    <3>2. \A i \in 1..Len(x) : x[i] = <<e, r>>[i]
      BY <3>1
    <3>3. Len(x) = Len(<<e, r>>)
      BY <3>1
    <3>4. x = <<e, r>>
      BY <2>1, <3>1, <3>2, <3>3, SeqEqual
    <3> QED BY <3>4 DEF x
  <2> HIDE DEF S
  <2>3. <<e, r>> \o <<>> = <<e, r>>
    BY <2>1, ConcatEmptySeq
  <2>4. (<<e>> \o <<r>>) \o <<w>> = <<e>> \o (<<r>> \o <<w>>)
    BY <2>1, ConcatAssociative
  <2>5. (<<e, r>> \o <<o>>) \o <<w>> = <<e, r>> \o (<<o>> \o <<w>>)
    BY <2>1, ConcatAssociative
  <2>6. (<<e>> \o <<r>>) \o (<<o>> \o <<w>>) = <<e>> \o (<<r>> \o (<<o>> \o <<w>>))
    BY <2>1, ConcatAssociative
  <2> QED BY <2>2, <2>3, <2>4, <2>5, <2>6, Zenon
<1> DEFINE q == IF postpone = "Yes" THEN Push(o, <<w>>) ELSE <<w>>
<1>3. WithSynthesize(term, postpone, inner, caller) = Push(e, Push(r, q))
  <2>1. CASE postpone = "Yes"
    BY <1>1, <1>2, <2>1, Zenon DEF Push
  <2>2. CASE postpone # "Yes"
    BY <1>1, <1>2, <2>2, Zenon DEF Push
  <2> QED BY <2>1, <2>2
<1>4. IsSeq(<<w>>) /\ Calls(<<w>>, s) = a
  BY DEF IsSeq, Calls, Push, w
<1>5. IsSeq(q) /\ Calls(q, s) = b
  <2>1. CASE postpone = "Yes"
    <3>1. IsSeq(Push(o, <<w>>)) /\ Calls(Push(o, <<w>>), s) = Push(o, Calls(<<w>>, s))
      BY <1>4, ConsAppend
    <3>2. b = Push(o, a) /\ q = Push(o, <<w>>)
      BY <2>1 DEF o
    <3> QED BY <1>4, <3>1, <3>2
  <2>2. CASE postpone # "Yes"
    <3>1. b = a /\ q = <<w>>
      BY <2>2
    <3> QED BY <1>4, <3>1
  <2> QED BY <2>1, <2>2
<1> HIDE DEF q
<1>6. IsSeq(Push(r, q)) /\ Calls(Push(r, q), s) = c
  BY <1>5, ConsAppend DEF r
<1>7. Calls(Push(e, Push(r, q)), s) = Push(e, c)
  BY <1>6, ConsAppend
<1> QED BY <1>3, <1>7 DEF e

\* with_synthesize holds the caller's list back.
LEMMA ScopeOpened ==
    ASSUME NEW s, NEW n, NEW saved \in Seq(Nat), Stacked(s, n), Len(s) \in Nat,
           Decreasing(saved), ToSet(saved) \subseteq 1..n, Newer(ToSet(saved), Below(s)),
           Len(s) = 0 => saved = <<>>, Len(s) # 1
    PROVE  /\ Stacked(<<With(saved)>> \o s, n)
           /\ Below(<<With(saved)>> \o s) = ToSet(saved) \cup Below(s)
           /\ Len(<<With(saved)>> \o s) = Len(s) + 1
<1> DEFINE f == With(saved)
<1>1. IsFrame(f) /\ f.f = "with" /\ f.saved = saved
  BY DEF IsFrame, With
<1> HIDE DEF f
<1>2. Ids(f) = ToSet(saved)
  BY <1>1 DEF Ids
<1>3. Sits(f, s, n)
  BY <1>1, <1>2 DEF Sits
<1>4. /\ Stacked(<<f>> \o s, n) /\ Below(<<f>> \o s) = Ids(f) \cup Below(s)
      /\ Len(<<f>> \o s) = Len(s) + 1
  BY <1>3, Pushed
<1> QED BY <1>2, <1>4 DEF f

LEMMA EmptyStack == \A n : Stacked(<<>>, n) /\ Below(<<>>) = {} /\ Len(<<>>) = 0
  BY DEF Stacked, Below, IsSeq

\* The list is empty inside: all that is declared is solved or held back.
LEMMA ListTaken ==
    ASSUME NEW t, IsState(t), NEW s, NEW n
    PROVE  /\ Ordered([t EXCEPT !.pending = <<>>], s, n)
           /\ DOMAIN t.decls \subseteq t.solved \cup Below(s) =>
                  Covered([t EXCEPT !.pending = <<>>], s)
<1> DEFINE u == [t EXCEPT !.pending = <<>>]
<1>1. IsState(u) /\ u.pending = <<>> /\ u.decls = t.decls /\ u.solved = t.solved
  BY PendingSet, NoMVars
<1> HIDE DEF u
<1>2. Ordered(u, s, n)
  BY <1>1, NoMVars DEF Ordered, Newer
<1>3. DOMAIN t.decls \subseteq t.solved \cup Below(s) => Covered(u, s)
  BY <1>1 DEF Covered
<1> QED BY <1>2, <1>3 DEF u

LEMMA Enclosed ==
    ASSUME NEW s, NEW n, NEW inner, NEW caller \in Seq(Nat), NEW term, NEW postpone,
           Stacked(s, n), NEW l \in Nat, l = Len(s),
           Decreasing(caller), ToSet(caller) \subseteq 1..n, Newer(ToSet(caller), Below(s)),
           l = 0 => caller = <<>> /\ postpone = "No", l # 1,
           Ordered(inner, s, n), inner.pending = <<>>,
           DOMAIN inner.decls \subseteq inner.solved \cup ToSet(caller) \cup Below(s)
    PROVE  LET whole == Calls(WithSynthesize(term, postpone, inner, caller), s)
           IN  /\ Stacked(whole, n) /\ Ordered(inner, whole, n) /\ Covered(inner, whole)
               /\ Len(whole) \in Nat /\ Len(whole) > 2
<1> DEFINE a == Push(With(caller), s)
<1>1. /\ Stacked(a, n) /\ Below(a) = ToSet(caller) \cup Below(s) /\ Len(a) = l + 1
  <2>1. Len(s) = 0 => caller = <<>>
    OBVIOUS
  <2>2. Len(s) # 1 /\ Len(s) \in Nat
    OBVIOUS
  <2>3. /\ Stacked(a, n) /\ Below(a) = ToSet(caller) \cup Below(s) /\ Len(a) = Len(s) + 1
    BY <2>1, <2>2, ScopeOpened DEF Push
  <2> QED BY <2>3
<1>2. Len(a) # 0 /\ (postpone = "Yes" => Len(a) # 1) /\ (Len(a) = 1 => postpone = "No")
  BY <1>1
<1> DEFINE b == IF postpone = "Yes" THEN Push(DefaultLoop, a) ELSE a
<1> HIDE DEF a
<1> DEFINE k == IF postpone = "Yes" THEN l + 2 ELSE l + 1
<1>4. Stacked(b, n) /\ Below(b) = Below(a) /\ Len(b) = k
  <2>1. CASE postpone = "Yes"
    <3>1. /\ Stacked(Push(DefaultLoop, a), n) /\ Below(Push(DefaultLoop, a)) = Below(a)
          /\ Len(Push(DefaultLoop, a)) = Len(a) + 1
      BY <1>1, <1>2, <2>1, LoopCalled DEF Push
    <3> QED BY <1>1, <2>1, <3>1
  <2>2. CASE postpone # "Yes"
    BY <1>1, <2>2
  <2> QED BY <2>1, <2>2
<1>3. k \in Nat /\ k # 0 /\ (k = 1 => postpone = "No")
  OBVIOUS
<1> HIDE DEF b, k
<1> DEFINE c == Push(Ladder(postpone), b)
<1>5. Stacked(c, n) /\ Below(c) = Below(b) /\ Len(c) = k + 1
  <2>1. Len(b) # 0 /\ (Len(b) = 1 => postpone = "No")
    BY <1>4, <1>3
  <2>2. Stacked(c, n) /\ Below(c) = Below(b) /\ Len(c) = Len(b) + 1
    BY <1>4, <2>1, LadderCalled DEF Push
  <2> QED BY <1>4, <2>2
<1> HIDE DEF c
<1>6. Below(c) = ToSet(caller) \cup Below(s)
  BY <1>1, <1>4, <1>5
<1>7. Ordered(inner, c, n) /\ Covered(inner, c)
  BY <1>6, NoMVars DEF Ordered, Covered, Newer
<1>11. k + 1 \in Nat /\ k + 1 > 1
  BY <1>3
<1> DEFINE d == Push(Elab(term, inner), c)
<1>8. Stacked(d, n) /\ Below(d) = Below(c) /\ Len(d) = k + 2
  <2>1. Len(c) # 0 /\ Len(c) # 1
    BY <1>5, <1>11
  <2>2. Stacked(d, n) /\ Below(d) = Below(c) /\ Len(d) = Len(c) + 1
    BY <1>5, <1>7, <2>1, TermCalled DEF Push
  <2>3. Len(c) + 1 = k + 2
    BY <1>5, <1>3
  <2> QED BY <2>2, <2>3
<1>9. Ordered(inner, d, n) /\ Covered(inner, d) /\ Len(d) \in Nat /\ Len(d) > 2
  <2>1. k + 2 \in Nat /\ k + 2 > 2
    BY <1>3
  <2> HIDE DEF d
  <2> QED BY <1>7, <1>8, <2>1 DEF Ordered, Covered
<1>10. Calls(WithSynthesize(term, postpone, inner, caller), s) = d
  <2>1. IsSeq(s)
    BY DEF Stacked
  <2>2. /\ a = Push(With(caller), s)
        /\ postpone = "Yes" => b = Push(DefaultLoop, a)
        /\ postpone # "Yes" => b = a
        /\ c = Push(Ladder(postpone), b)
    BY DEF a, b, c
  <2>3. Calls(WithSynthesize(term, postpone, inner, caller), s) = Push(Elab(term, inner), c)
    BY <2>1, <2>2, EnclosingFrames
  <2> QED BY <2>3 DEF Calls, d
<1> HIDE DEF d
<1> QED BY <1>8, <1>9, <1>10

LEMMA LongStack ==
    /\ \A l \in Nat : l > 1 => l # 0 /\ l # 1 /\ l + 1 \in Nat /\ l + 1 > 1
    /\ \A l \in Nat : l > 2 => l > 1
  OBVIOUS

\* A call takes the step of its instruction to the call it makes.
LEMMA Called ==
    ASSUME IndInv, NEW op, Executing(op),
           Stacked(stack', Len(origin)), Len(stack') > 1,
           Ordered(ts', stack', Len(origin)), Covered(ts', stack'),
           ctl' = ctl, origin' = origin
    PROVE  IndInv'
<1>1. ctl = "run" /\ IsSeq(origin)
  BY ExecutingRun
<1>2. Sound(ts', stack', "run", Len(origin))
  BY SoundRun
<1> QED BY <1>1, <1>2 DEF IndInv

LEMMA EnterStep == ASSUME IndInv, Enter PROVE IndInv'
<1> DEFINE n == Len(origin)
<1> DEFINE c == Continuation
<1> DEFINE term == Head(Top.code).term
<1> DEFINE r == <<Elab(term, ts)>> \o c
<1>1. Executing("elab") /\ ts' = ts /\ ctl' = ctl /\ origin' = origin
  BY DEF Enter
<1>2. stack' = r
  BY DEF Enter, Call
<1>3. stack # <<>> /\ Top.f \in {"elab", "resume"} /\ ctl = "run"
  BY <1>1, ExecutingRun
<1>4. /\ Stacked(c, n) /\ Ordered(ts, c, n) /\ Covered(ts, c)
      /\ Len(c) \in Nat /\ Len(c) > 2
  BY <1>3, Continues
<1>5. Len(c) # 0 /\ Len(c) # 1 /\ Len(c) + 1 > 1
  BY <1>4, LongStack
<1> HIDE DEF n, c, term
<1>6. Stacked(r, n) /\ Below(r) = Below(c) /\ Len(r) = Len(c) + 1
  BY <1>4, <1>5, TermCalled
<1> HIDE DEF r
<1>7. Ordered(ts, r, n) /\ Covered(ts, r) /\ Len(r) > 1
  BY <1>4, <1>5, <1>6 DEF Ordered, Covered
<1> QED BY <1>1, <1>2, <1>6, <1>7, Called DEF n

LEMMA EnterWithStep == ASSUME IndInv, EnterWith PROVE IndInv'
<1> DEFINE n == Len(origin)
<1> DEFINE c == Continuation
<1> DEFINE term == Head(Top.code).term
<1> DEFINE postpone == Head(Top.code).postpone
<1> DEFINE inner == [ts EXCEPT !.pending = <<>>]
<1> DEFINE caller == ts.pending
<1> DEFINE r == Calls(WithSynthesize(term, postpone, inner, caller), c)
<1>1. Executing("with") /\ ts' = inner /\ ctl' = ctl /\ origin' = origin
  BY DEF EnterWith
<1>2. stack' = r
  BY DEF EnterWith, Call, Calls
<1>3. stack # <<>> /\ Top.f \in {"elab", "resume"} /\ ctl = "run"
  BY <1>1, ExecutingRun
<1>4. /\ Stacked(c, n) /\ Ordered(ts, c, n) /\ Covered(ts, c)
      /\ Len(c) \in Nat /\ Len(c) > 2
  BY <1>3, Continues
<1> HIDE DEF n, c, term, postpone
<1>5. /\ caller \in Seq(Nat) /\ Decreasing(caller) /\ ToSet(caller) \subseteq 1..n
      /\ Newer(ToSet(caller), Below(c)) /\ IsState(ts)
      /\ DOMAIN ts.decls \subseteq ts.solved \cup ToSet(caller) \cup Below(c)
  BY <1>4 DEF Ordered, Covered, IsState
<1>6. /\ inner.pending = <<>> /\ inner.decls = ts.decls /\ inner.solved = ts.solved
      /\ Ordered(inner, c, n)
  BY <1>5, NoMVars, PendingSet, ListTaken
<1> HIDE DEF inner, caller
<1>7. PICK l \in Nat : l = Len(c) /\ l # 0 /\ l # 1
  BY <1>4
<1>8. DOMAIN inner.decls \subseteq inner.solved \cup ToSet(caller) \cup Below(c)
  BY <1>5, <1>6
<1>9. /\ Stacked(r, n) /\ Ordered(inner, r, n) /\ Covered(inner, r)
      /\ Len(r) \in Nat /\ Len(r) > 2
  BY <1>4, <1>5, <1>6, <1>7, <1>8, Enclosed
<1> HIDE DEF r
<1>10. Len(r) > 1
  BY <1>9
<1> QED BY <1>1, <1>2, <1>9, <1>10, Called DEF n

LEMMA DrainStep == ASSUME IndInv, Drain PROVE IndInv'
<1> DEFINE n == Len(origin)
<1> DEFINE c == Continuation
<1> DEFINE defaults == Head(Top.code).defaults
<1> DEFINE q == IF defaults THEN <<DefaultLoop>> ELSE <<>>
<1> DEFINE b == Calls(q, c)
<1> DEFINE r == Push(Ladder("Yes"), b)
<1>1. Executing("drain") /\ ts' = ts /\ ctl' = ctl /\ origin' = origin
  BY DEF Drain
<1>2. stack' = Calls(Push(Ladder("Yes"), q), c)
  BY DEF Drain, Call, Calls, Push
<1>3. stack # <<>> /\ Top.f \in {"elab", "resume"} /\ ctl = "run"
  BY <1>1, ExecutingRun
<1>4. /\ Stacked(c, n) /\ Ordered(ts, c, n) /\ Covered(ts, c)
      /\ Len(c) \in Nat /\ Len(c) > 2
  BY <1>3, Continues
<1> HIDE DEF n, c, defaults
<1>5. Len(c) # 0 /\ Len(c) # 1 /\ Len(c) > 1 /\ Len(c) + 1 \in Nat /\ Len(c) + 1 > 1
  BY <1>4, LongStack
<1>6. IsSeq(q) /\ IsSeq(c)
  <2>1. IsSeq(<<DefaultLoop>>) /\ IsSeq(<<>>)
    BY DEF IsSeq
  <2> QED BY <1>4, <2>1 DEF Stacked
<1>7. stack' = r
  BY <1>2, <1>6, ConsAppend
<1>8. Stacked(b, n) /\ Below(b) = Below(c) /\ Len(b) \in Nat /\ Len(b) > 1
  <2>1. CASE defaults
    <3>1. b = <<DefaultLoop>> \o c
      BY <2>1 DEF Calls
    <3>2. /\ Stacked(<<DefaultLoop>> \o c, n)
          /\ Below(<<DefaultLoop>> \o c) = Below(c)
          /\ Len(<<DefaultLoop>> \o c) = Len(c) + 1
      BY <1>4, <1>5, LoopCalled
    <3> QED BY <1>5, <3>1, <3>2
  <2>2. CASE ~defaults
    <3>1. b = c
      BY <1>6, <2>2, ConcatEmptySeq DEF Calls, IsSeq
    <3> QED BY <1>4, <1>5, <3>1
  <2> QED BY <2>1, <2>2
<1> HIDE DEF b
<1>9. Len(b) # 0 /\ Len(b) # 1 /\ Len(b) + 1 > 1
  BY <1>8, LongStack
<1>10. Stacked(r, n) /\ Below(r) = Below(b) /\ Len(r) = Len(b) + 1
  BY <1>8, <1>9, LadderCalled DEF Push
<1> HIDE DEF r
<1>11. Ordered(ts, r, n) /\ Covered(ts, r) /\ Len(r) > 1
  BY <1>4, <1>8, <1>9, <1>10 DEF Ordered, Covered
<1> QED BY <1>1, <1>7, <1>10, <1>11, Called DEF n

\* What is known when the call on top is about to end.
LEMMA Returns ==
    ASSUME IndInv, stack # <<>>
    PROVE  /\ IsSeq(origin) /\ Len(origin) \in Nat
           /\ Stacked(Tail(stack), Len(origin))
           /\ Ordered(ts, stack, Len(origin)) /\ Ordered(ts, Tail(stack), Len(origin))
           /\ Sits(Top, Tail(stack), Len(origin)) /\ IsFrame(Top)
           /\ ctl \notin Thrown => Covered(ts, stack)
           /\ ctl \notin Thrown /\ Ids(Top) = {} => Covered(ts, Tail(stack))
           /\ Top.f \in {"elab", "resume", "step", "loop"} => Len(Tail(stack)) > 1
           /\ Top.f \in {"elab", "resume", "ladder", "loop"} => Ids(Top) = {}
           /\ Len(Tail(stack)) \in Nat
<1>1. /\ IsSeq(origin) /\ Len(origin) \in Nat /\ Stacked(Tail(stack), Len(origin))
      /\ Sits(Top, Tail(stack), Len(origin))
      /\ Below(stack) = Ids(Top) \cup Below(Tail(stack))
  BY OnTop DEF IndInv
<1>2. Ordered(ts, stack, Len(origin)) /\ (ctl \notin Thrown => Covered(ts, stack))
  BY DEF IndInv, Sound, KeptInv
<1>3. Ordered(ts, Tail(stack), Len(origin))
  BY <1>1, <1>2 DEF Ordered, Newer
<1>4. ctl \notin Thrown /\ Ids(Top) = {} => Covered(ts, Tail(stack))
  BY <1>1, <1>2 DEF Covered
<1>5. Top.f \in {"elab", "resume", "ladder", "loop"} => Ids(Top) = {}
  BY DEF Ids
<1>6. /\ Top.f \in {"elab", "resume", "step", "loop"} => Len(Tail(stack)) > 1
      /\ Len(Tail(stack)) \in Nat
  BY OnTop
<1>7. IsFrame(Top)
  BY <1>1 DEF Sits
<1> QED BY <1>1, <1>2, <1>3, <1>4, <1>5, <1>6, <1>7

LEMMA ElaboratedStep == ASSUME IndInv, Elaborated PROVE IndInv'
<1>1. /\ stack # <<>> /\ Top.f = "elab" /\ ctl = "run" /\ ctl' = ctl
      /\ stack' = Tail(stack) /\ ts' = ts /\ origin' = origin
  BY DEF Elaborated, Running
<1>2. ctl \notin Thrown
  BY <1>1 DEF Thrown
<1>3. Sound(ts, Tail(stack), "run", Len(origin))
  BY <1>1, <1>2, Returns, SoundRun
<1> QED BY <1>1, <1>3, Returns DEF IndInv

LEMMA ResumedStep == ASSUME IndInv, Resumed PROVE IndInv'
<1> DEFINE rest == Tail(stack)
<1> DEFINE u == [ts EXCEPT !.solved = ts.solved \cup {Top.id}]
<1>1. /\ stack # <<>> /\ Top.f = "resume" /\ ctl = "run" /\ ctl' = "true"
      /\ stack' = rest /\ ts' = u /\ origin' = origin
  BY DEF Resumed, Running
<1>2. ctl \notin Thrown
  BY <1>1 DEF Thrown
<1>3. /\ IsSeq(origin) /\ Stacked(rest, Len(origin)) /\ Len(rest) > 1
      /\ Ordered(ts, rest, Len(origin)) /\ Covered(ts, rest)
      /\ rest[1].f = "step" /\ rest[1].walk # <<>>
  BY <1>1, <1>2, Returns DEF Sits
<1>4. IsState(u) /\ u.pending = ts.pending /\ u.decls = ts.decls /\ ts.solved \subseteq u.solved
  BY StateNow, SolvedSet
<1> HIDE DEF u, rest
<1>5. Ordered(u, rest, Len(origin)) /\ Covered(u, rest)
  BY <1>3, <1>4, OnlyTypesChange
<1>6. Sound(u, rest, "true", Len(origin))
  BY <1>3, <1>5, SoundReturn
<1> QED BY <1>1, <1>3, <1>6 DEF IndInv

LEMMA PostponeStep == ASSUME IndInv, Postpone PROVE IndInv'
<1> DEFINE rest == Tail(stack)
<1> DEFINE n == Len(origin)
<1> DEFINE t == Top.saved
<1> DEFINE decl == [kind |-> "postponed", term |-> Top.term]
<1>1. /\ stack # <<>> /\ Top.f = "elab" /\ ctl' = "run"
      /\ stack' = rest /\ ts' = Register(t, n + 1, decl)
      /\ origin' = Append(origin, <<Top.name, 0>>)
  BY DEF Postpone, RestoreTermState
<1>2. /\ IsSeq(origin) /\ n \in Nat /\ Stacked(rest, n) /\ Len(rest) > 1
      /\ Ordered(t, rest, n) /\ Covered(t, rest)
  BY <1>1, Returns DEF Sits
<1>3. IsSeq(origin') /\ Len(origin') = n + 1
  BY <1>1, <1>2, Minted
<1> HIDE DEF rest, n, t, decl
<1>4. /\ Stacked(rest, n + 1) /\ Ordered(Register(t, n + 1, decl), rest, n + 1)
      /\ Covered(Register(t, n + 1, decl), rest)
  BY <1>2, NewestIsRegistered
<1>5. Sound(Register(t, n + 1, decl), rest, "run", n + 1)
  BY <1>2, <1>4, SoundRun
<1> QED BY <1>1, <1>3, <1>5 DEF IndInv

LEMMA GiveUpResumeStep == ASSUME IndInv, GiveUpResume PROVE IndInv'
<1> DEFINE rest == Tail(stack)
<1> DEFINE t == Top.saved
<1>1. /\ stack # <<>> /\ Top.f = "resume" /\ ctl' = "false"
      /\ stack' = rest /\ ts' = t /\ origin' = origin
  BY DEF GiveUpResume, RestoreTermState
<1>2. /\ IsSeq(origin) /\ Stacked(rest, Len(origin)) /\ Len(rest) > 1
      /\ Ordered(t, rest, Len(origin)) /\ Covered(t, rest)
      /\ rest[1].f = "step" /\ rest[1].walk # <<>>
  BY <1>1, Returns DEF Sits
<1> HIDE DEF rest, t
<1>3. Sound(t, rest, "false", Len(origin))
  BY <1>2, SoundReturn
<1> QED BY <1>1, <1>2, <1>3 DEF IndInv

LEMMA EndLoopStep == ASSUME IndInv, EndLoop PROVE IndInv'
<1>1. /\ stack # <<>> /\ Top.f = "loop" /\ ctl = "run" /\ ctl' = ctl
      /\ stack' = Tail(stack) /\ ts' = ts /\ origin' = origin
  BY DEF EndLoop, Running
<1>2. ctl \notin Thrown
  BY <1>1 DEF Thrown
<1>3. Sound(ts, Tail(stack), "run", Len(origin))
  BY <1>1, <1>2, Returns, SoundRun
<1> QED BY <1>1, <1>3, Returns DEF IndInv

LEMMA RungProgressedStep == ASSUME IndInv, RungProgressed PROVE IndInv'
<1>1. /\ stack # <<>> /\ Top.f = "ladder" /\ ctl = "true" /\ ctl' = "run"
      /\ stack' = stack /\ ts' = ts /\ origin' = origin
  BY DEF RungProgressed, Returned
<1>2. ctl \notin Thrown /\ Stacked(stack, Len(origin))
  BY <1>1 DEF Thrown, IndInv, Sound
<1>3. Len(stack) > 1
  BY <1>1, OnTop
<1>4. Sound(ts, stack, "run", Len(origin))
  BY <1>1, <1>2, <1>3, Returns, SoundRun
<1> QED BY <1>1, <1>4, Returns DEF IndInv

LEMMA LeavePendingStep == ASSUME IndInv, LeavePending PROVE IndInv'
<1>1. /\ stack # <<>> /\ Top.f = "ladder" /\ ctl = "false" /\ ctl' = "run"
      /\ Top.postpone \in {"Yes", "Partial"}
      /\ stack' = Tail(stack) /\ ts' = ts /\ origin' = origin
  BY DEF LeavePending, Stuck, Returned
<1>2. ctl \notin Thrown
  BY <1>1 DEF Thrown
<1>3. Len(Tail(stack)) # 0 /\ Len(Tail(stack)) # 1
  BY <1>1, Returns DEF Sits
<1>4. \A l \in Nat : l # 0 /\ l # 1 => l > 1
  OBVIOUS
<1>5. Len(Tail(stack)) > 1
  BY <1>1, <1>3, <1>4, Returns
<1>6. Sound(ts, Tail(stack), "run", Len(origin))
  BY <1>1, <1>2, <1>5, Returns, SoundRun
<1> QED BY <1>1, <1>6, Returns DEF IndInv

-----------------------------------------------------------------------------
(* Lists that are put back. *)

\* What a frame held back follows what is pending.
LEMMA Merging ==
    ASSUME NEW t, NEW s, NEW n, NEW l \in Seq(Nat), IsState(t),
           Decreasing(t.pending), Decreasing(l),
           ToSet(t.pending) \subseteq 1..n, ToSet(l) \subseteq 1..n,
           Newer(ToSet(t.pending), ToSet(l)),
           Newer(ToSet(t.pending), Below(s)), Newer(ToSet(l), Below(s))
    PROVE  /\ Ordered([t EXCEPT !.pending = t.pending \o l], s, n)
           /\ DOMAIN t.decls \subseteq t.solved \cup ToSet(t.pending) \cup (ToSet(l) \cup Below(s))
                  => Covered([t EXCEPT !.pending = t.pending \o l], s)
           /\ [t EXCEPT !.pending = t.pending \o l].pending = t.pending \o l
<1> DEFINE m == t.pending \o l
<1>1. t.pending \in Seq(Nat)
  BY DEF IsState
<1>2. m \in Seq(Nat) /\ ToSet(m) = ToSet(t.pending) \cup ToSet(l) /\ Decreasing(m)
  BY <1>1, Concatenated
<1> HIDE DEF m
<1> DEFINE u == [t EXCEPT !.pending = m]
<1>3. IsState(u) /\ u.pending = m /\ u.decls = t.decls /\ u.solved = t.solved
  BY <1>2, PendingSet
<1> HIDE DEF u
<1>4. ToSet(m) \subseteq 1..n /\ Newer(ToSet(m), Below(s))
  BY <1>2 DEF Newer
<1>5. Ordered(u, s, n)
  BY <1>2, <1>3, <1>4 DEF Ordered
<1>6. DOMAIN t.decls \subseteq t.solved \cup ToSet(t.pending) \cup (ToSet(l) \cup Below(s))
          => Covered(u, s)
  BY <1>2, <1>3 DEF Covered
<1> QED BY <1>3, <1>5, <1>6 DEF u, m

\* The caller's list is put back behind what is left of the inner one.
LEMMA ScopeClosed ==
    ASSUME IndInv, stack # <<>>, Top.f = "with"
    PROVE  /\ Ordered(PutBack(Top.saved), Tail(stack), Len(origin))
           /\ ctl \notin Thrown => Covered(PutBack(Top.saved), Tail(stack))
           /\ ctl \notin Thrown /\ Len(Tail(stack)) = 0 => PutBack(Top.saved).pending = <<>>
<1> DEFINE rest == Tail(stack)
<1> DEFINE n == Len(origin)
<1> DEFINE l == Top.saved
<1>1. /\ l \in Seq(Nat) /\ Decreasing(l) /\ ToSet(l) \subseteq 1..n
      /\ Newer(ToSet(l), Below(rest)) /\ (Len(rest) = 0 => l = <<>>)
  BY Returns DEF Sits, IsFrame, Ids
<1>2. Below(stack) = ToSet(l) \cup Below(rest)
  BY OnTop DEF Ids
<1>3. Ordered(ts, stack, n) /\ (ctl \notin Thrown => Covered(ts, stack))
  BY Returns
<1>4. Len(rest) = 0 /\ ctl \notin Thrown => ts.pending = <<>>
  <2>1. Len(rest) = 0 => Len(stack) = 1
    <3>1. Len(rest) = Len(stack) - 1 /\ Len(stack) \in Nat
      BY OnTop
    <3>2. \A k \in Nat : k - 1 = 0 => k = 1
      OBVIOUS
    <3> QED BY <3>1, <3>2
  <2> QED BY <2>1 DEF IndInv, Sound, KeptInv
<1> HIDE DEF rest, n, l
<1>6. /\ IsState(ts) /\ Decreasing(ts.pending) /\ ToSet(ts.pending) \subseteq 1..n
      /\ Newer(ToSet(ts.pending), ToSet(l)) /\ Newer(ToSet(ts.pending), Below(rest))
  BY <1>2, <1>3 DEF Ordered, Newer
<1>7. /\ Ordered(PutBack(l), rest, n)
      /\ DOMAIN ts.decls \subseteq ts.solved \cup ToSet(ts.pending) \cup (ToSet(l) \cup Below(rest))
             => Covered(PutBack(l), rest)
      /\ PutBack(l).pending = ts.pending \o l
  BY <1>1, <1>6, Merging DEF PutBack
<1>8. ctl \notin Thrown => Covered(PutBack(l), rest)
  BY <1>2, <1>3, <1>7 DEF Covered
<1>9. ctl \notin Thrown /\ Len(rest) = 0 => PutBack(l).pending = <<>>
  <2> SUFFICES ASSUME ctl \notin Thrown, Len(rest) = 0 PROVE PutBack(l).pending = <<>>
    OBVIOUS
  <2>1. PutBack(l).pending = <<>> \o <<>>
    BY <1>1, <1>4, <1>7
  <2>2. <<>> \o <<>> = <<>>
    OBVIOUS
  <2> QED BY <2>1, <2>2
<1> QED BY <1>7, <1>8, <1>9 DEF rest, n, l

LEMMA EndWithStep == ASSUME IndInv, EndWith PROVE IndInv'
<1> DEFINE rest == Tail(stack)
<1> DEFINE u == PutBack(Top.saved)
<1>1. /\ stack # <<>> /\ Top.f = "with" /\ ctl = "run" /\ ctl' = ctl
      /\ stack' = rest /\ ts' = u /\ origin' = origin
  BY DEF EndWith, Running
<1>2. ctl \notin Thrown
  BY <1>1 DEF Thrown
<1>3. /\ Ordered(u, rest, Len(origin)) /\ Covered(u, rest)
      /\ (Len(rest) = 0 => u.pending = <<>>)
  BY <1>1, <1>2, ScopeClosed
<1>4. IsSeq(origin) /\ Stacked(rest, Len(origin)) /\ Len(rest) \in Nat /\ Len(rest) # 1
  BY <1>1, Returns DEF Sits
<1> HIDE DEF u, rest
<1>5. \A l \in Nat : l <= 1 /\ l # 1 => l = 0
  OBVIOUS
<1>6. Len(rest) <= 1 => u.pending = <<>>
  BY <1>3, <1>4, <1>5
<1>7. Sound(u, rest, "run", Len(origin))
  BY <1>3, <1>4, <1>6 DEF Sound, ReturnInv, KeptInv
<1> QED BY <1>1, <1>4, <1>7 DEF IndInv

LEMMA UnwindStep == ASSUME IndInv, Unwind PROVE IndInv'
<1> DEFINE rest == Tail(stack)
<1>1. /\ stack # <<>> /\ ctl \in Thrown /\ ctl' = ctl
      /\ ts' = IF Top.f = "with" THEN PutBack(Top.saved) ELSE ts
      /\ stack' = rest /\ origin' = origin
  BY DEF Unwind
<1>2. IsSeq(origin) /\ Stacked(rest, Len(origin)) /\ Ordered(ts, rest, Len(origin))
  BY <1>1, Returns
<1>3. Ordered(ts', rest, Len(origin))
  <2>1. CASE Top.f = "with"
    BY <1>1, <2>1, ScopeClosed
  <2>2. CASE Top.f # "with"
    BY <1>1, <1>2, <2>2
  <2> QED BY <2>1, <2>2
<1> HIDE DEF rest
<1>4. Sound(ts', rest, ctl, Len(origin))
  BY <1>1, <1>2, <1>3, SoundThrow
<1> QED BY <1>1, <1>2, <1>4 DEF IndInv

\* A step ends: what it kept is older than what its walk registered.
LEMMA EndStepStep == ASSUME IndInv, EndStep PROVE IndInv'
<1> DEFINE rest == Tail(stack)
<1> DEFINE n == Len(origin)
<1> DEFINE kept == Top.kept
<1> DEFINE l == Reverse(kept)
<1> DEFINE u == [ts EXCEPT !.pending = ts.pending \o l]
<1>1. /\ stack # <<>> /\ Top.f = "step" /\ Top.walk = <<>> /\ ctl = "run"
      /\ ctl' \in {"true", "false"} /\ stack' = rest /\ origin' = origin
  BY DEF EndStep, Running, Bool
<1>2. ts' = u
  BY DEF EndStep, Merged
<1>3. ctl \notin Thrown
  BY <1>1 DEF Thrown
<1>4. /\ IsSeq(origin) /\ Stacked(rest, n) /\ Len(rest) > 1
      /\ Ordered(ts, stack, n) /\ Covered(ts, stack)
      /\ Sits(Top, rest, n) /\ IsFrame(Top)
  BY <1>1, <1>3, Returns
<1>5. kept \in Seq(Nat) /\ Increasing(kept) /\ rest[1].f = "ladder"
  BY <1>1, <1>4 DEF Sits, IsFrame
<1>6. Ids(Top) = ToSet(kept)
  BY <1>1, NoMVars DEF Ids
<1>7. Below(stack) = ToSet(kept) \cup Below(rest)
  BY <1>1, <1>6, OnTop
<1>8. ToSet(kept) \subseteq 1..n /\ Newer(ToSet(kept), Below(rest))
  BY <1>4, <1>6 DEF Sits
<1> HIDE DEF rest, n, kept
<1>9. l \in Seq(Nat) /\ ToSet(l) = ToSet(kept) /\ Decreasing(l)
  BY <1>5, Reversed
<1> HIDE DEF l
<1>10. /\ IsState(ts) /\ Decreasing(ts.pending) /\ ToSet(ts.pending) \subseteq 1..n
       /\ Newer(ToSet(ts.pending), ToSet(l)) /\ Newer(ToSet(ts.pending), Below(rest))
  BY <1>4, <1>7, <1>9 DEF Ordered, Newer
<1>11. DOMAIN ts.decls \subseteq ts.solved \cup ToSet(ts.pending) \cup (ToSet(l) \cup Below(rest))
  BY <1>4, <1>7, <1>9 DEF Covered
<1>12. Ordered(u, rest, n) /\ Covered(u, rest)
  BY <1>8, <1>9, <1>10, <1>11, Merging
<1> HIDE DEF u
<1>13. Sound(u, rest, ctl', n)
  BY <1>1, <1>4, <1>5, <1>12, SoundReturn
<1> QED BY <1>1, <1>2, <1>4, <1>13 DEF IndInv, n

-----------------------------------------------------------------------------
(* A step of the ladder. *)

\* The mvar on top of the walk is tried where the step is, and answers or throws.
LEMMA Answers ==
    ASSUME IndInv, Running("step"), Top.walk # <<>>, stack' = stack, origin' = origin,
           ctl' \in {"true", "false"} \cup Thrown,
           IsState(ts'), ts'.pending = ts.pending, ts'.decls = ts.decls,
           ts.solved \subseteq ts'.solved
    PROVE  IndInv'
<1>1. /\ stack # <<>> /\ Top.f = "step" /\ ctl = "run" /\ ctl \notin Thrown
  BY DEF Running, Thrown
<1>2. /\ Stacked(stack, Len(origin)) /\ Len(stack) > 1
      /\ Ordered(ts, stack, Len(origin)) /\ Covered(ts, stack) /\ IsSeq(origin)
      /\ stack[1].f = "step" /\ stack[1].walk # <<>>
  <2>1. Top = stack[1] /\ Len(stack) \in Nat /\ Len(stack) > 2
    BY <1>1, OnTop
  <2>2. Len(stack) > 1
    BY <2>1, LongStack
  <2>3. Stacked(stack, Len(origin))
    BY DEF IndInv, Sound
  <2> QED BY <1>1, <2>1, <2>2, <2>3, Returns
<1>3. Ordered(ts', stack, Len(origin)) /\ Covered(ts', stack)
  BY <1>2, OnlyTypesChange
<1>4. Sound(ts', stack, ctl', Len(origin))
  BY <1>2, <1>3, SoundReturn, SoundThrow
<1> QED BY <1>2, <1>4 DEF IndInv

LEMMA ResumeCalled ==
    ASSUME NEW s, NEW n, NEW t, NEW id, NEW on_error,
           Stacked(s, n), Ordered(t, s, n), Covered(t, s),
           Len(s) # 0, Len(s) # 1, Len(s) > 0, s[1].f = "step", s[1].walk # <<>>
    PROVE  /\ Stacked(<<Resume(t, id, on_error)>> \o s, n)
           /\ Below(<<Resume(t, id, on_error)>> \o s) = Below(s)
           /\ Len(<<Resume(t, id, on_error)>> \o s) = Len(s) + 1
<1> DEFINE f == Resume(t, id, on_error)
<1>1. IsFrame(f) /\ f.f = "resume" /\ f.saved = t
  BY DEF IsFrame, Resume
<1> HIDE DEF f
<1>2. Ids(f) = {}
  BY <1>1 DEF Ids
<1>3. Sits(f, s, n)
  BY <1>1, <1>2 DEF Sits, Newer
<1>4. /\ Stacked(<<f>> \o s, n) /\ Below(<<f>> \o s) = Ids(f) \cup Below(s)
      /\ Len(<<f>> \o s) = Len(s) + 1
  BY <1>3, Pushed
<1> QED BY <1>2, <1>4 DEF f

LEMMA VisitStep == ASSUME IndInv, Visit PROVE IndInv'
<1> DEFINE id == Head(Top.walk)
<1> DEFINE d == ts.decls[id]
<1> DEFINE r == SynthesizeInstMVarCore(ts, id, d.goal)
<1> DEFINE c == SynthesizeCoe(ts, id, d.goal)
<1> DEFINE u == [ts EXCEPT !.solved = ts.solved \cup {id}]
<1>1. Running("step") /\ Top.walk # <<>> /\ origin' = origin
  BY DEF Visit
<1>2. \/ ctl' = "true" /\ stack' = stack /\ ts' = ts
      \/ ctl' = r.ctl /\ stack' = stack /\ ts' = r.ts
      \/ ctl' = c /\ stack' = stack /\ ts' = IF c = "true" THEN u ELSE ts
      \/ ctl' \in {"seam", "false"} /\ stack' = stack /\ ts' = ts
      \/ stack' = <<Resume(ts, id, Top.on_error)>> \o stack /\ ts' = ts /\ ctl' = ctl
  BY DEF Visit
<1>3. /\ r.ctl \in {"true", "false"} \cup Thrown
      /\ IsState(r.ts) /\ r.ts.pending = ts.pending /\ r.ts.decls = ts.decls
      /\ ts.solved \subseteq r.ts.solved
  BY InstancesTried, StateNow
<1>4. c \in {"true", "false"}
  BY DEF SynthesizeCoe
<1>5. IsState(u) /\ u.pending = ts.pending /\ u.decls = ts.decls /\ ts.solved \subseteq u.solved
  BY StateNow, SolvedSet
<1>6. IsState(ts)
  BY StateNow
<1> HIDE DEF r, c, u
<1>7. CASE ctl' = "true" /\ stack' = stack /\ ts' = ts
  BY <1>1, <1>6, <1>7, Answers
<1>8. CASE ctl' = r.ctl /\ stack' = stack /\ ts' = r.ts
  BY <1>1, <1>3, <1>8, Answers
<1>9. CASE ctl' = c /\ stack' = stack /\ ts' = IF c = "true" THEN u ELSE ts
  <2>1. /\ IsState(ts') /\ ts'.pending = ts.pending /\ ts'.decls = ts.decls
        /\ ts.solved \subseteq ts'.solved
    BY <1>5, <1>6, <1>9
  <2> QED BY <1>1, <1>4, <1>9, <2>1, Answers
<1>10. CASE ctl' \in {"seam", "false"} /\ stack' = stack /\ ts' = ts
  BY <1>1, <1>6, <1>10, Answers DEF Thrown
<1>11. CASE stack' = <<Resume(ts, id, Top.on_error)>> \o stack /\ ts' = ts /\ ctl' = ctl
  <2> DEFINE n == Len(origin)
  <2> DEFINE on_error == Top.on_error
  <2> DEFINE s == <<Resume(ts, id, on_error)>> \o stack
  <2>1. /\ stack # <<>> /\ Top.f = "step" /\ ctl = "run" /\ ctl \notin Thrown
    BY <1>1 DEF Running, Thrown
  <2>2. /\ Stacked(stack, n) /\ Ordered(ts, stack, n) /\ Covered(ts, stack) /\ IsSeq(origin)
    BY <2>1, Returns DEF IndInv, Sound
  <2>3. Top = stack[1] /\ Len(stack) \in Nat /\ Len(stack) > 2
    BY <2>1, OnTop
  <2>4. \A l \in Nat : l > 2 => l # 0 /\ l # 1 /\ l > 0 /\ l + 1 > 1
    OBVIOUS
  <2>5. Len(stack) # 0 /\ Len(stack) # 1 /\ Len(stack) > 0 /\ Len(stack) + 1 > 1
    BY <2>3, <2>4
  <2>6. stack[1].f = "step" /\ stack[1].walk # <<>>
    BY <1>1, <2>1, <2>3
  <2>7. stack' = s
    BY <1>11
  <2> HIDE DEF n, on_error, id
  <2>8. Stacked(s, n) /\ Below(s) = Below(stack) /\ Len(s) = Len(stack) + 1
    BY <2>2, <2>5, <2>6, ResumeCalled
  <2> HIDE DEF s
  <2>9. Ordered(ts, s, n) /\ Covered(ts, s) /\ Len(s) > 1
    BY <2>2, <2>5, <2>8 DEF Ordered, Covered
  <2>10. Sound(ts, s, "run", n)
    BY <2>8, <2>9, SoundRun
  <2> QED BY <1>1, <1>11, <2>1, <2>2, <2>7, <2>10 DEF IndInv, n
<1> QED BY <1>2, <1>7, <1>8, <1>9, <1>10, <1>11

WalkTo(fr, w, k) == [fr EXCEPT !.walk = w, !.kept = k]

LEMMA StepWalked ==
    ASSUME NEW fr, IsFrame(fr), fr.f = "step", NEW w \in Seq(Nat), NEW k \in Seq(Nat)
    PROVE  /\ IsFrame(WalkTo(fr, w, k))
           /\ WalkTo(fr, w, k).f = "step"
           /\ WalkTo(fr, w, k).walk = w
           /\ WalkTo(fr, w, k).kept = k
<1>1. fr = [field \in StepFields |-> fr[field]]
  BY DEF IsFrame
<1>2. "walk" \in StepFields /\ "kept" \in StepFields /\ "f" \in StepFields
  BY DEF StepFields
<1> DEFINE g == WalkTo(fr, w, k)
<1>3. /\ g = [field \in StepFields |-> g[field]]
      /\ g.f = fr.f /\ g.walk = w /\ g.kept = k
  BY <1>1, <1>2 DEF WalkTo
<1> HIDE DEF g
<1>4. IsFrame(g)
  BY <1>3 DEF IsFrame
<1> QED BY <1>3, <1>4 DEF g

\* An mvar that stays is newer than those kept before it and older than those to come.
LEMMA WalkedOn ==
    ASSUME NEW fr, NEW s, NEW n, Sits(fr, s, n), fr.f = "step", fr.walk # <<>>,
           NEW f, IsFrame(f), f.f = "step", f.walk = Tail(fr.walk),
           f.kept = fr.kept \/ f.kept = Append(fr.kept, Head(fr.walk))
    PROVE  /\ Sits(f, s, n)
           /\ Ids(f) \subseteq Ids(fr)
           /\ Ids(fr) \subseteq Ids(f) \cup {Head(fr.walk)}
           /\ f.kept # fr.kept => Ids(fr) \subseteq Ids(f)
<1> DEFINE id == Head(fr.walk)
<1> DEFINE w == fr.walk
<1> DEFINE k == fr.kept
<1> DEFINE x == Append(k, id)
<1>1. /\ w \in Seq(Nat) /\ w # <<>> /\ k \in Seq(Nat) /\ Increasing(k) /\ Increasing(w)
      /\ Newer(ToSet(w), ToSet(k))
  BY DEF Sits, IsFrame
<1>2. /\ id \in Nat /\ Tail(w) \in Seq(Nat) /\ ToSet(w) = {id} \cup ToSet(Tail(w))
      /\ Increasing(Tail(w)) /\ Newer(ToSet(Tail(w)), {id})
  BY <1>1, Walked
<1> HIDE DEF id
<1>3. x \in Seq(Nat) /\ ToSet(x) = ToSet(k) \cup {id} /\ Increasing(x)
  <2>1. /\ <<id>> \in Seq(Nat) /\ ToSet(<<id>>) = {id} /\ Increasing(<<id>>)
    BY <1>2, Singleton
  <2>2. Newer({id}, ToSet(k))
    BY <1>1, <1>2 DEF Newer
  <2>3. x = k \o <<id>>
    BY <1>1, <1>2, AppendIsConcat
  <2>4. /\ k \o <<id>> \in Seq(Nat) /\ ToSet(k \o <<id>>) = ToSet(k) \cup {id}
        /\ Increasing(k \o <<id>>)
    BY <1>1, <2>1, <2>2, Concatenated
  <2> QED BY <2>3, <2>4
<1> HIDE DEF x
<1>4. f.walk = Tail(w) /\ (f.kept = k \/ f.kept = x)
  BY DEF id, x
<1>5. Ids(f) = ToSet(f.kept) \cup ToSet(Tail(w)) /\ Ids(fr) = ToSet(k) \cup ToSet(w)
  BY <1>4 DEF Ids
<1>6. /\ Ids(f) \subseteq Ids(fr) /\ Ids(fr) \subseteq Ids(f) \cup {id}
      /\ f.kept # k => Ids(fr) \subseteq Ids(f)
  BY <1>2, <1>3, <1>4, <1>5
<1>7. Increasing(f.kept) /\ Newer(ToSet(f.walk), ToSet(f.kept))
  BY <1>1, <1>2, <1>3, <1>4 DEF Newer
<1>8. /\ Ids(fr) \subseteq 1..n /\ Newer(Ids(fr), Below(s))
      /\ Len(s) > 0 /\ s[1].f = "ladder" /\ Len(s) # 0 /\ Len(s) # 1
  BY DEF Sits
<1>9. Ids(f) \subseteq 1..n /\ Newer(Ids(f), Below(s))
  BY <1>6, <1>8 DEF Newer
<1>10. Increasing(f.walk)
  BY <1>2, <1>4
<1>11. Sits(f, s, n)
  BY <1>7, <1>8, <1>9, <1>10 DEF Sits
<1> QED BY <1>6, <1>11 DEF id, k

LEMMA SettleStep == ASSUME IndInv, Settle PROVE IndInv'
<1> DEFINE rest == Tail(stack)
<1> DEFINE n == Len(origin)
<1> DEFINE id == Head(Top.walk)
<1> DEFINE w == Tail(Top.walk)
<1> DEFINE k == IF ctl = "true" THEN Top.kept ELSE Append(Top.kept, id)
<1> DEFINE u == IF ctl = "true" THEN MarkAsResolved(ts, id) ELSE ts
<1>1. /\ stack # <<>> /\ Top.f = "step" /\ ctl \in {"true", "false"} /\ ctl' = "run"
      /\ origin' = origin /\ ts' = u
  BY DEF Settle, Returned
<1>2. ctl \notin Thrown
  BY <1>1 DEF Thrown
<1>3. /\ IsSeq(origin) /\ Stacked(rest, n) /\ Len(rest) > 1 /\ Len(rest) \in Nat
      /\ Ordered(ts, stack, n) /\ Covered(ts, stack)
      /\ Sits(Top, rest, n) /\ IsFrame(Top)
  BY <1>1, <1>2, Returns
<1>4. Top.walk # <<>>
  <2>1. stack[1].f = "step" => stack[1].walk # <<>>
    BY <1>1 DEF IndInv, Sound, ReturnInv
  <2> QED BY <1>1, <2>1, OnTop
<1>5. Below(stack) = Ids(Top) \cup Below(rest)
  BY <1>1, OnTop
<1>6. w \in Seq(Nat) /\ k \in Seq(Nat)
  <2>1. Top.walk \in Seq(Nat) /\ Top.kept \in Seq(Nat)
    BY <1>1, <1>3 DEF IsFrame
  <2>2. id \in Nat /\ w \in Seq(Nat)
    BY <1>4, <2>1, Walked
  <2> QED BY <2>1, <2>2
<1>7. stack' = <<WalkTo(Top, w, k)>> \o rest
  BY DEF Settle, SettleVisited, Replace, WalkTo
<1> DEFINE f == WalkTo(Top, w, k)
<1>8. IsFrame(f) /\ f.f = "step" /\ f.walk = w /\ f.kept = k
  <2> HIDE DEF w, k
  <2> QED BY <1>1, <1>3, <1>6, StepWalked
<1>20. stack' = <<f>> \o rest
  BY <1>7
<1> HIDE DEF f
<1>9. /\ ctl = "true" => f.kept = Top.kept
      /\ ctl # "true" => f.kept = Append(Top.kept, Head(Top.walk))
      /\ f.walk = Tail(Top.walk)
  BY <1>8
<1>10. ctl # "true" => f.kept # Top.kept
  <2>1. Top.kept \in Seq(Nat) /\ id \in Nat
    BY <1>1, <1>3, <1>4, Walked DEF IsFrame
  <2>2. Len(Append(Top.kept, id)) = Len(Top.kept) + 1 /\ Len(Top.kept) \in Nat
    BY <2>1
  <2>3. \A l \in Nat : l + 1 # l
    OBVIOUS
  <2> QED BY <1>9, <2>2, <2>3
<1> DEFINE top == Top
<1>11. top = Top /\ id = Head(top.walk)
  OBVIOUS
<1> HIDE DEF rest, n, w, k
<1>12. /\ Sits(f, rest, n) /\ Ids(f) \subseteq Ids(top)
       /\ Ids(top) \subseteq Ids(f) \cup {id}
       /\ ctl # "true" => Ids(top) \subseteq Ids(f)
  BY <1>1, <1>3, <1>4, <1>8, <1>9, <1>10, WalkedOn
<1> DEFINE r == <<f>> \o rest
<1>13. Stacked(r, n) /\ Below(r) = Ids(f) \cup Below(rest) /\ Len(r) = Len(rest) + 1
  BY <1>3, <1>12, Pushed
<1>14. stack' = r
  BY <1>20
<1> HIDE DEF r, top, id
<1>15. Below(r) \subseteq Below(stack) /\ Below(stack) \subseteq Below(r) \cup {id}
       /\ (ctl # "true" => Below(stack) = Below(r))
  BY <1>5, <1>11, <1>12, <1>13
<1>16. Ordered(u, r, n)
  <2>1. IsState(ts) /\ IsState(u) /\ u.pending = ts.pending
    BY Resolved, StateNow
  <2> HIDE DEF u
  <2> QED BY <1>3, <1>15, <2>1 DEF Ordered, Newer
<1>17. Covered(u, r)
  <2>1. CASE ctl = "true"
    <3> DEFINE v == MarkAsResolved(ts, id)
    <3>1. /\ v.pending = ts.pending /\ DOMAIN v.decls = DOMAIN ts.decls \ {id}
          /\ v.solved = ts.solved
      BY Resolved, StateNow
    <3>2. u = v
      BY <2>1
    <3> HIDE DEF u, v
    <3> QED BY <1>3, <1>15, <3>1, <3>2 DEF Covered
  <2>2. CASE ctl # "true"
    BY <1>3, <1>15, <2>2 DEF Covered
  <2> QED BY <2>1, <2>2
<1>18. Len(r) > 1
  BY <1>3, <1>13, LongStack
<1> HIDE DEF u
<1>19. Sound(u, r, "run", n)
  BY <1>13, <1>16, <1>17, <1>18, SoundRun
<1> QED BY <1>1, <1>3, <1>14, <1>19 DEF IndInv, n

-----------------------------------------------------------------------------
(* The ladder and the default loop. *)

\* The ladder goes to another rung, which leaves the calls below as they are.
LEMMA LadderStacked ==
    ASSUME NEW fr, NEW s, NEW n, Stacked(s, n), Sits(fr, s, n), fr.f = "ladder",
           NEW f, IsFrame(f), f.f = "ladder", f.postpone = fr.postpone
    PROVE  /\ Stacked(<<f>> \o s, n)
           /\ Below(<<f>> \o s) = Below(s)
           /\ Len(<<f>> \o s) = Len(s) + 1
           /\ (<<f>> \o s)[1] = f
           /\ Len(s) \in Nat
<1>1. Ids(f) = {} /\ Ids(fr) = {}
  BY DEF Ids
<1>2. Sits(f, s, n)
  BY <1>1 DEF Sits
<1>3. /\ Stacked(<<f>> \o s, n) /\ Below(<<f>> \o s) = Ids(f) \cup Below(s)
      /\ Len(<<f>> \o s) = Len(s) + 1 /\ (<<f>> \o s)[1] = f /\ Len(s) \in Nat
  BY <1>2, Pushed
<1> QED BY <1>1, <1>3

LEMMA RungReplaced ==
    ASSUME IndInv, stack # <<>>, Top.f = "ladder", NEW rung
    PROVE  LET r == Replace([Top EXCEPT !.rung = rung])
           IN  /\ Stacked(r, Len(origin)) /\ Below(r) = Below(stack)
               /\ Len(r) \in Nat /\ Len(r) > 1 /\ r[1].f = "ladder"
<1> DEFINE rest == Tail(stack)
<1> DEFINE n == Len(origin)
<1> DEFINE top == Top
<1>1. Stacked(rest, n) /\ Sits(top, rest, n) /\ Ids(top) = {} /\ top.f = "ladder"
  BY Returns
<1>2. PICK f : /\ IsFrame(f) /\ f.f = "ladder" /\ f.postpone = top.postpone
               /\ Replace([Top EXCEPT !.rung = rung]) = <<f>> \o rest
  BY <1>1, RungTried DEF Replace, Sits
<1>3. Below(stack) = Ids(top) \cup Below(rest)
  BY OnTop
<1>4. Len(rest) # 0
  BY <1>1 DEF Sits
<1> HIDE DEF rest, n, top
<1>5. /\ Stacked(<<f>> \o rest, n) /\ Below(<<f>> \o rest) = Below(rest)
      /\ Len(<<f>> \o rest) = Len(rest) + 1 /\ (<<f>> \o rest)[1] = f /\ Len(rest) \in Nat
  BY <1>1, <1>2, LadderStacked
<1>6. \A l \in Nat : l # 0 => l + 1 \in Nat /\ l + 1 > 1
  OBVIOUS
<1>7. Len(rest) + 1 \in Nat /\ Len(rest) + 1 > 1
  BY <1>4, <1>5, <1>6
<1> DEFINE r == Replace([Top EXCEPT !.rung = rung])
<1> HIDE DEF r
<1>8. /\ Stacked(r, n) /\ Below(r) = Below(rest) /\ Len(r) = Len(rest) + 1 /\ r[1] = f
  BY <1>2, <1>5 DEF r
<1>9. Below(rest) = Below(stack)
  BY <1>1, <1>3
<1> QED BY <1>2, <1>7, <1>8, <1>9 DEF r, n

\* A step takes the list: its walk is all that is left of it.
LEMMA StepBegun ==
    ASSUME NEW s, NEW n, NEW t, Stacked(s, n), Ordered(t, s, n), Covered(t, s),
           Len(s) > 0, Len(s) # 0, Len(s) # 1, s[1].f = "ladder",
           NEW f, IsFrame(f), f.f = "step", f.walk = Reverse(t.pending), f.kept = <<>>
    PROVE  /\ Stacked(<<f>> \o s, n)
           /\ Below(<<f>> \o s) = ToSet(t.pending) \cup Below(s)
           /\ Len(<<f>> \o s) = Len(s) + 1
<1> DEFINE w == Reverse(t.pending)
<1>1. t.pending \in Seq(Nat) /\ Decreasing(t.pending) /\ ToSet(t.pending) \subseteq 1..n
      /\ Newer(ToSet(t.pending), Below(s))
  BY DEF Ordered, IsState
<1>2. w \in Seq(Nat) /\ ToSet(w) = ToSet(t.pending) /\ Increasing(w)
  BY <1>1, Reversed
<1>3. f.walk = w
  OBVIOUS
<1> HIDE DEF w
<1>4. Ids(f) = ToSet(t.pending)
  BY <1>2, <1>3, NoMVars DEF Ids
<1>5. Increasing(f.kept) /\ Increasing(f.walk) /\ Newer(ToSet(f.walk), ToSet(f.kept))
  BY <1>2, <1>3, NoMVars DEF Newer
<1>6. Sits(f, s, n)
  BY <1>1, <1>4, <1>5 DEF Sits
<1>7. /\ Stacked(<<f>> \o s, n) /\ Below(<<f>> \o s) = Ids(f) \cup Below(s)
      /\ Len(<<f>> \o s) = Len(s) + 1
  BY <1>6, Pushed
<1> QED BY <1>4, <1>7

LEMMA StepOfFrame ==
    ASSUME IndInv, NEW on_error, NEW tactics
    PROVE  /\ IsFrame(StepOf(on_error, tactics)) /\ StepOf(on_error, tactics).f = "step"
           /\ StepOf(on_error, tactics).walk = Reverse(ts.pending)
           /\ StepOf(on_error, tactics).kept = <<>>
<1> DEFINE f == StepOf(on_error, tactics)
<1>1. ts.pending \in Seq(Nat)
  BY StateNow DEF IsState
<1>2. Reverse(ts.pending) \in Seq(Nat)
  BY <1>1, Reversed
<1>3. /\ f = [field \in StepFields |-> f[field]]
      /\ f.f = "step" /\ f.walk = Reverse(ts.pending) /\ f.kept = <<>>
  BY DEF StepOf, StepFields
<1> HIDE DEF f
<1>4. IsFrame(f)
  BY <1>2, <1>3, NoMVars DEF IsFrame
<1> QED BY <1>3, <1>4 DEF f

LEMMA BeginStepStep ==
    ASSUME IndInv, stack # <<>>, Top.f = "ladder", ctl \notin Thrown, NEW rung, BeginStep(rung)
    PROVE  IndInv'
<1> DEFINE n == Len(origin)
<1> DEFINE s == Replace([Top EXCEPT !.rung = rung])
<1> DEFINE u == [ts EXCEPT !.pending = <<>>]
<1> DEFINE f == StepOf(rung = 2, rung = 5)
<1> DEFINE r == <<f>> \o s
<1>1. ts' = u /\ stack' = r /\ ctl' = "run" /\ origin' = origin
  BY DEF BeginStep
<1>2. /\ IsSeq(origin) /\ Ordered(ts, stack, n) /\ Covered(ts, stack) /\ IsState(ts)
  BY Returns, StateNow
<1>3. /\ Stacked(s, n) /\ Below(s) = Below(stack) /\ Len(s) \in Nat /\ Len(s) > 1
      /\ s[1].f = "ladder"
  BY RungReplaced
<1>4. IsFrame(f) /\ f.f = "step" /\ f.walk = Reverse(ts.pending) /\ f.kept = <<>>
  BY StepOfFrame
<1> HIDE DEF n, s, f
<1>5. Ordered(ts, s, n) /\ Covered(ts, s)
  BY <1>2, <1>3 DEF Ordered, Covered
<1>6. \A l \in Nat : l > 1 => l > 0 /\ l # 0 /\ l # 1 /\ l + 1 > 1
  OBVIOUS
<1>7. Len(s) > 0 /\ Len(s) # 0 /\ Len(s) # 1 /\ Len(s) + 1 > 1
  BY <1>3, <1>6
<1>8. /\ Stacked(r, n) /\ Below(r) = ToSet(ts.pending) \cup Below(s)
      /\ Len(r) = Len(s) + 1
  BY <1>3, <1>4, <1>5, <1>7, StepBegun
<1> HIDE DEF r
<1>9. DOMAIN ts.decls \subseteq ts.solved \cup Below(r)
  BY <1>5, <1>8 DEF Covered
<1>10. Ordered(u, r, n) /\ Covered(u, r)
  BY <1>2, <1>9, ListTaken
<1>11. Len(r) > 1
  BY <1>7, <1>8
<1> HIDE DEF u
<1>12. Sound(u, r, "run", n)
  BY <1>8, <1>10, <1>11, SoundRun
<1> QED BY <1>1, <1>2, <1>12 DEF IndInv, n

LEMMA BeginLadderStep == ASSUME IndInv, BeginLadder PROVE IndInv'
<1>1. stack # <<>> /\ Top.f = "ladder" /\ ctl = "run" /\ ctl \notin Thrown
  BY DEF BeginLadder, Running, Thrown
<1>2. CASE /\ ts.pending = <<>> /\ stack' = Tail(stack)
           /\ ts' = ts /\ origin' = origin /\ ctl' = ctl
  <2>1. /\ IsSeq(origin) /\ Stacked(Tail(stack), Len(origin))
        /\ Ordered(ts, Tail(stack), Len(origin)) /\ Covered(ts, Tail(stack))
    BY <1>1, Returns
  <2>2. Sound(ts, Tail(stack), "run", Len(origin))
    BY <1>2, <2>1 DEF Sound, ReturnInv, KeptInv
  <2> QED BY <1>1, <1>2, <2>1, <2>2 DEF IndInv
<1>3. CASE BeginStep(1)
  BY <1>1, <1>3, BeginStepStep
<1> QED BY <1>2, <1>3 DEF BeginLadder

LEMMA NextRungStep == ASSUME IndInv, NextRung PROVE IndInv'
<1>1. stack # <<>> /\ Top.f = "ladder" /\ ctl \notin Thrown
  BY DEF NextRung, Stuck, Returned, Thrown
<1> QED BY <1>1, BeginStepStep DEF NextRung

\* A default instance solves one pending mvar.
LEMMA DefaultUsed ==
    ASSUME NEW t, NEW s, NEW n, Ordered(t, s, n), Covered(t, s),
           NEW prio, NEW i \in DOMAIN t.pending
    PROVE  Ordered(UsingDefault(t, prio, i), s, n) /\ Covered(UsingDefault(t, prio, i), s)
<1> DEFINE u == UsingDefault(t, prio, i)
<1> DEFINE l == RemoveAt(t.pending, i)
<1>1. /\ IsState(t) /\ t.pending \in Seq(Nat) /\ Decreasing(t.pending)
      /\ ToSet(t.pending) \subseteq 1..n /\ Newer(ToSet(t.pending), Below(s))
  BY DEF Ordered, IsState
<1>2. /\ IsState(u) /\ u.pending = l /\ u.decls = t.decls
      /\ u.solved = t.solved \cup {t.pending[i]}
  BY <1>1, UsedDefault
<1>3. /\ l \in Seq(Nat) /\ ToSet(t.pending) = {t.pending[i]} \cup ToSet(l) /\ Decreasing(l)
  BY <1>1, Removed
<1> HIDE DEF u, l
<1>4. ToSet(l) \subseteq 1..n /\ Newer(ToSet(l), Below(s))
  BY <1>1, <1>3 DEF Newer
<1>5. Ordered(u, s, n)
  BY <1>2, <1>3, <1>4 DEF Ordered
<1>6. Covered(u, s)
  BY <1>2, <1>3 DEF Covered
<1> QED BY <1>5, <1>6 DEF u

LEMMA FirstIsPending ==
    ASSUME NEW t, NEW u \in FirstDefaults(t) PROVE u[2] \in DOMAIN t.pending
  BY DEF FirstDefaults, UsableDefaults

LEMMA UseDefaultStep == ASSUME IndInv, UseDefault PROVE IndInv'
<1> DEFINE n == Len(origin)
<1> DEFINE r == Replace([Top EXCEPT !.rung = 3])
<1>1. /\ stack # <<>> /\ Top.f = "ladder" /\ ctl = "false" /\ ctl \notin Thrown
      /\ stack' = r /\ origin' = origin
  BY DEF UseDefault, AtDefaults, Stuck, Returned, Thrown
<1>2. \/ SynthesizeUsingDefault /\ ctl' = "true"
      \/ ts' = ts /\ ctl' = ctl
  BY DEF UseDefault
<1>3. IsSeq(origin) /\ Ordered(ts, stack, n) /\ Covered(ts, stack)
  BY <1>1, Returns
<1>4. /\ Stacked(r, n) /\ Below(r) = Below(stack) /\ Len(r) > 1 /\ r[1].f = "ladder"
  BY <1>1, RungReplaced
<1> HIDE DEF n, r
<1>5. Ordered(ts, r, n) /\ Covered(ts, r)
  BY <1>3, <1>4 DEF Ordered, Covered
<1>6. Ordered(ts', r, n) /\ Covered(ts', r) /\ ctl' \in {"true", "false"}
  <2>1. CASE SynthesizeUsingDefault /\ ctl' = "true"
    <3>1. PICK u \in FirstDefaults(ts) : ts' = UsingDefault(ts, u[1], u[2])
      BY <2>1 DEF SynthesizeUsingDefault
    <3>2. u[2] \in DOMAIN ts.pending
      BY FirstIsPending
    <3> QED BY <1>5, <2>1, <3>1, <3>2, DefaultUsed
  <2>2. CASE ts' = ts /\ ctl' = ctl
    BY <1>1, <1>5, <2>2
  <2> QED BY <1>2, <2>1, <2>2
<1>7. Sound(ts', r, ctl', n)
  BY <1>4, <1>6, SoundReturn
<1> QED BY <1>1, <1>3, <1>7 DEF IndInv, n

LEMMA LoopDefaultStep == ASSUME IndInv, LoopDefault PROVE IndInv'
<1> DEFINE n == Len(origin)
<1> DEFINE r == <<Ladder("Yes")>> \o stack
<1>1. /\ stack # <<>> /\ Top.f = "loop" /\ ctl = "run" /\ ctl \notin Thrown /\ ctl' = ctl
      /\ stack' = r /\ origin' = origin
  BY DEF LoopDefault, Running, Thrown
<1>2. PICK u \in FirstDefaults(ts) : ts' = UsingDefault(ts, u[1], u[2])
  BY DEF LoopDefault, SynthesizeUsingDefault
<1>3. /\ IsSeq(origin) /\ Ordered(ts, stack, n) /\ Covered(ts, stack) /\ Stacked(stack, n)
      /\ Len(stack) \in Nat /\ Len(stack) > 2
  BY <1>1, Returns, OnTop DEF IndInv, Sound
<1>4. Len(stack) > 1
  BY <1>3, LongStack
<1>5. Len(stack) # 0 /\ Len(stack) # 1 /\ Len(stack) + 1 > 1
  BY <1>3, <1>4, LongStack
<1> HIDE DEF n
<1>6. Stacked(r, n) /\ Below(r) = Below(stack) /\ Len(r) = Len(stack) + 1
  BY <1>3, <1>5, LadderCalled
<1> HIDE DEF r
<1>7. Ordered(ts, r, n) /\ Covered(ts, r)
  BY <1>3, <1>6 DEF Ordered, Covered
<1>8. Ordered(ts', r, n) /\ Covered(ts', r)
  BY <1>2, <1>7, FirstIsPending, DefaultUsed
<1>9. Len(r) > 1
  BY <1>5, <1>6
<1>10. Sound(ts', r, "run", n)
  BY <1>6, <1>8, <1>9, SoundRun
<1> QED BY <1>1, <1>3, <1>10 DEF IndInv, n

LEMMA ReportStuckStep == ASSUME IndInv, ReportStuck PROVE IndInv'
<1> DEFINE rest == Tail(stack)
<1> DEFINE n == Len(origin)
<1> DEFINE u == [ts EXCEPT !.pending = <<>>]
<1>1. /\ stack # <<>> /\ Top.f = "ladder" /\ ctl = "false" /\ ctl \notin Thrown
      /\ ts' = u /\ origin' = origin
  BY DEF ReportStuck, AtReport, Stuck, Returned, Thrown
<1>2. \/ Problems = {} /\ stack' = rest /\ ctl' = "run"
      \/ ctl' \in Thrown /\ stack' = stack
  BY DEF ReportStuck, Throw, Thrown
<1>3. /\ IsSeq(origin) /\ IsState(ts) /\ Stacked(stack, n) /\ Stacked(rest, n)
      /\ Covered(ts, rest)
  BY <1>1, Returns, StateNow DEF IndInv, Sound
<1>4. u.pending = <<>>
  BY <1>3, PendingSet, NoMVars
<1>5. Ordered(u, rest, n) /\ Ordered(u, stack, n)
  BY <1>3, ListTaken
<1>6. CASE Problems = {} /\ stack' = rest /\ ctl' = "run"
  <2>1. \A id \in ToSet(ts.pending) : id \notin DOMAIN ts.decls
    BY <1>6 DEF Problems, ToSet
  <2>2. DOMAIN ts.decls \subseteq ts.solved \cup Below(rest)
    BY <1>3, <2>1 DEF Covered
  <2>3. Covered(u, rest)
    BY <1>3, <2>2, ListTaken
  <2> HIDE DEF u, rest, n
  <2>4. Sound(u, rest, "run", n)
    BY <1>3, <1>4, <1>5, <2>3 DEF Sound, ReturnInv, KeptInv
  <2> QED BY <1>1, <1>3, <1>6, <2>4 DEF IndInv, n
<1>7. CASE ctl' \in Thrown /\ stack' = stack
  <2> HIDE DEF u
  <2>1. Sound(u, stack, ctl', n)
    BY <1>3, <1>5, <1>7, SoundThrow
  <2> QED BY <1>1, <1>3, <1>7, <2>1 DEF IndInv
<1> QED BY <1>2, <1>6, <1>7

-----------------------------------------------------------------------------
(* The theorems. *)

LEMMA Start == ASSUME Init PROVE IndInv
<1> DEFINE n == Len(origin)
<1>1. /\ ts = [pending |-> <<>>, decls |-> <<>>, types |-> [mv \in TypeMVars |-> Open],
               solved |-> {}]
      /\ origin = <<>> /\ ctl = "run"
  BY DEF Init
<1>2. PICK p \in Programs : stack = WithSynthesize(p, "No", ts, <<>>)
  BY DEF Init
<1>3. IsSeq(origin) /\ n = 0
  BY <1>1 DEF IsSeq
<1>4. /\ IsState(ts) /\ ts.pending = <<>> /\ DOMAIN ts.decls = {}
  <2>1. ts.pending = <<>> /\ ts.decls = <<>> /\ DOMAIN ts.decls = {}
    BY <1>1
  <2>2. ts = [pending |-> ts.pending, decls |-> ts.decls, types |-> ts.types,
              solved |-> ts.solved]
    BY <1>1
  <2> QED BY <2>1, <2>2, NoMVars DEF IsState
<1>5. Stacked(<<>>, n) /\ Below(<<>>) = {} /\ Len(<<>>) = 0
  BY EmptyStack
<1>6. Ordered(ts, <<>>, n)
  BY <1>4, NoMVars DEF Ordered, Newer
<1> DEFINE w == WithSynthesize(p, "No", ts, <<>>)
<1>7. stack = Calls(w, <<>>)
  <2>1. IsSeq(w)
    <3> DEFINE x == <<Elab(p, ts), Ladder("No")>>
    <3> DEFINE y == <<With(<<>>)>>
    <3> DEFINE S == {Elab(p, ts), Ladder("No"), With(<<>>)}
    <3>1. w = (x \o <<>>) \o y
      BY DEF WithSynthesize
    <3>2. x \in Seq(S) /\ y \in Seq(S)
      OBVIOUS
    <3> HIDE DEF S, w, x, y
    <3>3. (x \o <<>>) \o y \in Seq(S)
      BY <3>2
    <3>4. w \in Seq(S)
      BY <3>1, <3>3, Zenon
    <3> QED BY <3>4, SeqIsSeq
  <2> HIDE DEF w
  <2>2. w \o <<>> = w
    BY <2>1, ConcatEmptySeq DEF IsSeq
  <2> QED BY <1>2, <2>2 DEF Calls, w
<1> HIDE DEF w, n
<1> DEFINE r == Calls(WithSynthesize(p, "No", ts, <<>>), <<>>)
<1>8. /\ Stacked(r, n) /\ Ordered(ts, r, n) /\ Covered(ts, r)
      /\ Len(r) \in Nat /\ Len(r) > 2
  <2>1. /\ Decreasing(<<>>) /\ ToSet(<<>>) \subseteq 1..n /\ Newer(ToSet(<<>>), Below(<<>>))
        /\ <<>> \in Seq(Nat)
    BY NoMVars DEF Newer
  <2>2. DOMAIN ts.decls \subseteq ts.solved \cup ToSet(<<>>) \cup Below(<<>>)
    BY <1>4
  <2>3. 0 \in Nat /\ 0 = Len(<<>>) /\ 0 # 1
    BY <1>5
  <2> QED BY <1>4, <1>5, <1>6, <2>1, <2>2, <2>3, Enclosed
<1>9. stack = r
  BY <1>7 DEF w
<1> HIDE DEF r
<1>10. Len(r) > 1
  BY <1>8, LongStack
<1>11. Sound(ts, r, "run", n)
  BY <1>8, <1>10, SoundRun
<1> QED BY <1>1, <1>3, <1>9, <1>11 DEF IndInv, n

LEMMA Unchanged == ASSUME IndInv, UNCHANGED vars PROVE IndInv'
  BY DEF vars, IndInv

\* What each call in progress knows of the calls below it stays true through calls,
\* returns, throws and rolled-back attempts (IndInv).
THEOREM Inductive == Spec => []IndInv
<1>1. Init => IndInv
  BY Start
<1>2. IndInv /\ [Next]_vars => IndInv'
  <2> SUFFICES ASSUME IndInv, [Next]_vars PROVE IndInv'
    OBVIOUS
  <2>1. CASE Expect \/ Demand \/ Unify \/ NewInst \/ NewCoe \/ NewTactic
    BY <2>1, ExpectStep, DemandStep, UnifyStep, NewInstStep, NewCoeStep, NewTacticStep
  <2>2. CASE Enter \/ EnterWith \/ Drain \/ Elaborated \/ Resumed \/ Postpone
    BY <2>2, EnterStep, EnterWithStep, DrainStep, ElaboratedStep, ResumedStep, PostponeStep
  <2>3. CASE Visit \/ Settle \/ EndStep \/ GiveUpResume
    BY <2>3, VisitStep, SettleStep, EndStepStep, GiveUpResumeStep
  <2>4. CASE BeginLadder \/ RungProgressed \/ NextRung \/ UseDefault \/ LeavePending
    BY <2>4, BeginLadderStep, RungProgressedStep, NextRungStep, UseDefaultStep,
       LeavePendingStep
  <2>5. CASE ReportStuck \/ LoopDefault \/ EndLoop \/ EndWith \/ Unwind
    BY <2>5, ReportStuckStep, LoopDefaultStep, EndLoopStep, EndWithStep, UnwindStep
  <2>6. CASE UNCHANGED vars
    BY <2>6, Unchanged
  <2> QED BY <2>1, <2>2, <2>3, <2>4, <2>5, <2>6 DEF Next
<1> QED BY <1>1, <1>2, PTL DEF Spec

\* What a frame holds back is in order.
LEMMA HeldInOrder ==
    ASSUME NEW fr, NEW s, NEW n, Sits(fr, s, n)
    PROVE  Decreasing(HeldBack(fr)) /\ ToSet(HeldBack(fr)) = Ids(fr)
<1>1. CASE fr.f = "step"
  <2> DEFINE l == fr.kept \o fr.walk
  <2>1. /\ fr.kept \in Seq(Nat) /\ fr.walk \in Seq(Nat)
        /\ Increasing(fr.kept) /\ Increasing(fr.walk)
        /\ Newer(ToSet(fr.walk), ToSet(fr.kept))
    BY <1>1 DEF Sits, IsFrame
  <2>2. l \in Seq(Nat) /\ ToSet(l) = ToSet(fr.kept) \cup ToSet(fr.walk) /\ Increasing(l)
    BY <2>1, Concatenated
  <2>3. HeldBack(fr) = Reverse(l) /\ Ids(fr) = ToSet(fr.kept) \cup ToSet(fr.walk)
    BY <1>1 DEF HeldBack, Ids
  <2> HIDE DEF l
  <2>4. Decreasing(Reverse(l)) /\ ToSet(Reverse(l)) = ToSet(l)
    BY <2>2, Reversed
  <2> QED BY <2>2, <2>3, <2>4, Zenon
<1>2. CASE fr.f = "with"
  <2>1. HeldBack(fr) = fr.saved /\ Ids(fr) = ToSet(fr.saved) /\ Decreasing(fr.saved)
    BY <1>2 DEF HeldBack, Ids, Sits
  <2> QED BY <2>1, Zenon
<1>3. CASE fr.f \notin {"step", "with"}
  <2>1. HeldBack(fr) = <<>> /\ Ids(fr) = {}
    BY <1>3 DEF HeldBack, Ids
  <2> QED BY <2>1, NoMVars
<1> QED BY <1>1, <1>2, <1>3

LEMMA InSuffix ==
    ASSUME NEW s, IsSeq(s), NEW i \in DOMAIN s, NEW j \in DOMAIN s, i < j
    PROVE  /\ j - i \in DOMAIN SubSeq(s, i + 1, Len(s))
           /\ SubSeq(s, i + 1, Len(s))[j - i] = s[j]
<1> DEFINE S == {s[k] : k \in DOMAIN s}
<1> DEFINE b == SubSeq(s, i + 1, Len(s))
<1>1. s \in Seq(S)
  BY DEF IsSeq
<1> HIDE DEF S
<1>2. Len(s) \in Nat /\ i \in 1..Len(s) /\ j \in 1..Len(s)
  BY <1>1
<1>3. b \in Seq(S) /\ Len(b) = Len(s) - i
  BY <1>1, <1>2
<1>4. j - i \in 1..Len(b) /\ i + (j - i) = j
  <2> HIDE DEF b
  <2> QED BY <1>2, <1>3
<1>5. ASSUME NEW k \in 1..Len(b) PROVE b[k] = s[i + k] /\ i + k \in 1..Len(s)
  BY <1>1, <1>2, <1>3, <1>5
<1> HIDE DEF b
<1>6. b[j - i] = s[j] /\ j - i \in DOMAIN b
  BY <1>3, <1>4, <1>5
<1> QED BY <1>6 DEF b

LEMMA Lined ==
    ASSUME IndInv
    PROVE  /\ Lists = 0..Len(stack) /\ Len(stack) \in Nat /\ DOMAIN stack = 1..Len(stack)
           /\ ListAt(0) = ts.pending
           /\ \A i \in DOMAIN stack : /\ Decreasing(ListAt(i))
                                      /\ ToSet(ListAt(i)) = Ids(stack[i])
                                      /\ Ids(stack[i]) \subseteq Below(stack)
           /\ \A i, j \in DOMAIN stack : i < j => Newer(Ids(stack[i]), Ids(stack[j]))
<1> DEFINE n == Len(origin)
<1>1. Stacked(stack, n) /\ IsSeq(stack)
  BY DEF IndInv, Sound, Stacked
<1>2. Len(stack) \in Nat /\ DOMAIN stack = 1..Len(stack)
  BY <1>1 DEF IsSeq
<1>3. Lists = 0..Len(stack) /\ ListAt(0) = ts.pending
  BY DEF Lists, ListAt
<1>4. ASSUME NEW i \in DOMAIN stack
      PROVE  /\ Decreasing(ListAt(i)) /\ ToSet(ListAt(i)) = Ids(stack[i])
             /\ Ids(stack[i]) \subseteq Below(stack)
  <2>1. Sits(stack[i], SubSeq(stack, i + 1, Len(stack)), n)
    BY <1>1, <1>2 DEF Stacked
  <2>2. ListAt(i) = HeldBack(stack[i])
    BY <1>2 DEF ListAt
  <2>3. Ids(stack[i]) \subseteq Below(stack)
    BY DEF Below
  <2> QED BY <2>1, <2>2, <2>3, HeldInOrder, Zenon
<1>5. ASSUME NEW i \in DOMAIN stack, NEW j \in DOMAIN stack, i < j
      PROVE  Newer(Ids(stack[i]), Ids(stack[j]))
  <2> DEFINE rest == SubSeq(stack, i + 1, Len(stack))
  <2>1. Newer(Ids(stack[i]), Below(rest))
    BY <1>1, <1>2 DEF Stacked, Sits
  <2>2. j - i \in DOMAIN rest /\ rest[j - i] = stack[j]
    BY <1>1, <1>5, InSuffix
  <2> HIDE DEF rest
  <2>3. Ids(stack[j]) \subseteq Below(rest)
    BY <2>2 DEF Below
  <2> QED BY <2>1, <2>3 DEF Newer
<1> QED BY <1>2, <1>3, <1>4, <1>5

\* The lists of the calls in progress strictly decrease, whatever was thrown, rolled back or
\* resumed on the way: synthesize_synthetic_mvars works the newest mvar first, and never
\* visits one twice in a pass (NewestFirst).
THEOREM OrderIsKept == Spec => []NewestFirst
<1>1. ASSUME IndInv PROVE NewestFirst
  <2>1. Decreasing(ts.pending) /\ Newer(ToSet(ts.pending), Below(stack))
    BY <1>1 DEF IndInv, Sound, Ordered
  <2>2. /\ Lists = 0..Len(stack) /\ Len(stack) \in Nat /\ DOMAIN stack = 1..Len(stack)
        /\ ListAt(0) = ts.pending
    BY <1>1, Lined
  <2>3. \A i \in DOMAIN stack : /\ Decreasing(ListAt(i))
                                /\ ToSet(ListAt(i)) = Ids(stack[i])
                                /\ Ids(stack[i]) \subseteq Below(stack)
    BY <1>1, Lined
  <2>4. \A i, j \in DOMAIN stack : i < j => Newer(Ids(stack[i]), Ids(stack[j]))
    BY <1>1, Lined
  <2>5. \A i \in Lists : i = 0 \/ i \in DOMAIN stack
    BY <2>2
  <2>6. \A i, j \in Lists : i < j => j \in DOMAIN stack
    BY <2>2
  <2>7. \A i \in Lists : Decreasing(ListAt(i))
    BY <2>1, <2>2, <2>3, <2>5
  <2>8. ASSUME NEW i \in Lists, NEW j \in Lists, i < j
        PROVE  Newer(ToSet(ListAt(i)), ToSet(ListAt(j)))
    <3>1. j \in DOMAIN stack /\ (i = 0 \/ i \in DOMAIN stack)
      BY <2>5, <2>6, <2>8
    <3>2. CASE i = 0
      <4>1. Newer(ToSet(ts.pending), Ids(stack[j]))
        BY <2>1, <2>3, <3>1 DEF Newer
      <4> QED BY <2>2, <2>3, <3>1, <3>2, <4>1
    <3>3. CASE i \in DOMAIN stack
      <4>1. Newer(Ids(stack[i]), Ids(stack[j]))
        BY <2>4, <2>8, <3>1, <3>3
      <4> QED BY <2>3, <3>1, <3>3, <4>1
    <3> QED BY <3>1, <3>2, <3>3
  <2> QED BY <2>7, <2>8 DEF NewestFirst
<1> QED BY <1>1, Inductive, PTL

\* A registered mvar stays solved or in a list through nested ladders, resumed terms and
\* rolled-back attempts, and an elaboration that returns leaves none (NothingForgotten).
THEOREM NothingIsForgotten == Spec => []NothingForgotten
<1>1. ASSUME IndInv PROVE NothingForgotten
  <2>1. /\ ctl \notin Thrown => Covered(ts, stack) /\ (Len(stack) <= 1 => ts.pending = <<>>)
    BY <1>1 DEF IndInv, Sound, KeptInv
  <2>2. /\ Lists = 0..Len(stack) /\ Len(stack) \in Nat /\ DOMAIN stack = 1..Len(stack)
        /\ ListAt(0) = ts.pending
        /\ \A i \in DOMAIN stack : ToSet(ListAt(i)) = Ids(stack[i])
    BY <1>1, Lined
  <2>3. 0 \in Lists /\ \A i \in DOMAIN stack : i \in Lists
    BY <2>2
  <2>4. ToSet(ts.pending) \cup Below(stack) \subseteq Outstanding
    BY <2>2, <2>3 DEF Outstanding, Below
  <2>5. ctl \notin Thrown => DOMAIN ts.decls \subseteq ts.solved \cup Outstanding
    BY <2>1, <2>4 DEF Covered
  <2>6. ASSUME stack = <<>>, ctl = "run"
        PROVE  ts.pending = <<>> /\ DOMAIN ts.decls \subseteq ts.solved
    <3>1. ctl \notin Thrown
      BY <2>6 DEF Thrown
    <3>2. Len(stack) = 0 /\ Below(stack) = {}
      BY <2>6, EmptyStack
    <3>3. ts.pending = <<>>
      BY <2>1, <3>1, <3>2
    <3>4. ToSet(ts.pending) = {}
      BY <3>3, NoMVars
    <3> QED BY <2>1, <3>1, <3>2, <3>3, <3>4 DEF Covered
  <2> QED BY <2>5, <2>6 DEF NothingForgotten
<1> QED BY <1>1, Inductive, PTL
=============================================================================
