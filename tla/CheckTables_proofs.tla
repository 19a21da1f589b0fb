-------------------------- MODULE CheckTables_proofs --------------------------
(***************************************************************************)
(* Theorems about the checks of a table, for every table as an environment *)
(* exports it.  Of build_graph: what it makes of a table is a graph as the *)
(* pool relies on, whose edges order every lookup, and so the pool's       *)
(* verdict is the one the graph determines.  Of replay: it never gives up  *)
(* a decoded constant that is read again, and when it succeeds it has      *)
(* declared every constant.  Of both: the pool rejects no exported table   *)
(* that replay accepts.                                                    *)
(*                                                                         *)
(* The passes of build_graph are recursive functions.  That they exist and *)
(* satisfy their equations is the lemma Recursion; what they compute is an *)
(* invariant carried along the names (Pass1Inv, Pass2Inv).                 *)
(***************************************************************************)
EXTENDS CheckTables, CheckScheduler_proofs, BasicLemmas, SequenceTheorems,
        FiniteSetTheorems, TLAPS

-----------------------------------------------------------------------------
(* Sequences of names. *)

\* ToSet under the other name.
LEMMA ToSetElements ==
    ASSUME NEW E, NEW s \in Seq(E)
    PROVE  ToSet(s) = Elements(s)
<1>1. DOMAIN s = 1 .. Len(s)
  OBVIOUS
<1> QED BY <1>1 DEF ToSet, Elements

\* What is kept of a sequence are its elements in the set.
LEMMA KeptElements ==
    ASSUME NEW E, NEW s \in Seq(E), NEW S
    PROVE  Kept(s, S) \in Seq(E) /\ ToSet(Kept(s, S)) = ToSet(s) \cap S
<1> DEFINE n == Len(s)
<1> DEFINE Taking(k, r) == IF s[k] \in S THEN Append(r, s[k]) ELSE r
<1> DEFINE F == [k \in 1 .. n |-> [r \in Seq(E) |-> Taking(k, r)]]
<1>1. n \in Nat /\ << >> \in Seq(E) /\ \A k \in 1 .. n : s[k] \in E
  OBVIOUS
<1>2. ASSUME NEW k \in 1 .. n, NEW r \in Seq(E) PROVE Taking(k, r) \in Seq(E)
  BY <1>1
<1>3. F \in [1 .. n -> [Seq(E) -> Seq(E)]]
  BY <1>2
<1> DEFINE Rec(f) == f = [k \in 0 .. n |-> IF k = 0 THEN << >>
                              ELSE IF s[k] \in S THEN Append(f[k - 1], s[k]) ELSE f[k - 1]]
<1> HIDE DEF F
<1> DEFINE P == Seq(E)
<1>p. << >> \in P /\ F \in [1 .. n -> [P -> P]]
  BY <1>1, <1>3
<1> HIDE DEF P
<1>4. PICK f \in [0 .. n -> P] : Recurs(f, n, << >>, F)
  BY <1>1, <1>p, Recursion
<1>5. \A k \in 1 .. n : k - 1 \in 0 .. n /\ f[k - 1] \in P
  BY <1>4
<1>6. \A k \in 0 .. n : f[k] = IF k = 0 THEN << >> ELSE Taking(k, f[k - 1])
  <2>1. \A k \in 1 .. n : F[k][f[k - 1]] = Taking(k, f[k - 1])
    BY <1>5 DEF F, P
  <2>2. \A k \in 0 .. n : k = 0 \/ k \in 1 .. n
    BY <1>1
  <2> HIDE DEF Taking
  <2> QED BY <1>4, <2>1, <2>2 DEF Recurs
<1>7. Rec(f)
  <2>1. f = [k \in 0 .. n |-> f[k]]
    BY <1>4
  <2> QED BY <1>6, <2>1
<1> DEFINE kept == CHOOSE g : Rec(g)
<1>8. Rec(kept)
  BY <1>7
<1>9. Kept(s, S) = kept[n]
  BY DEF Kept
<1> HIDE DEF kept
<1>10. /\ kept[0] = << >>
       /\ \A k \in 1 .. n : kept[k] = Taking(k, kept[k - 1])
  <2>1. 0 \in 0 .. n /\ \A k \in 1 .. n : k \in 0 .. n /\ k # 0
    BY <1>1
  <2>2. \A k \in 0 .. n : kept[k] = IF k = 0 THEN << >> ELSE Taking(k, kept[k - 1])
    BY <1>8
  <2> QED BY <2>1, <2>2
<1> DEFINE Seen(k) == {s[i] : i \in 1 .. k}
<1> DEFINE T == {k \in 0 .. n : kept[k] \in Seq(E) /\ Elements(kept[k]) = Seen(k) \cap S}
<1>11. 0 \in T
  <2>1. Seen(0) = {} /\ 0 \in 0 .. n
    BY <1>1
  <2>2. kept[0] \in Seq(E) /\ Elements(kept[0]) = {}
    BY <1>1, <1>10, EmptyElements
  <2> HIDE DEF Seen
  <2> QED BY <2>1, <2>2
<1>12. ASSUME NEW k \in 0 .. n - 1, k \in T PROVE k + 1 \in T
  <2>1. /\ k + 1 \in 1 .. n /\ k + 1 \in 0 .. n /\ (k + 1) - 1 = k
        /\ kept[k] \in Seq(E) /\ Elements(kept[k]) = Seen(k) \cap S
    BY <1>12
  <2>2. kept[k + 1] = Taking(k + 1, kept[k])
    BY <1>10, <2>1
  <2>3. 1 .. k + 1 = (1 .. k) \cup {k + 1}
    OBVIOUS
  <2>4. Seen(k + 1) = Seen(k) \cup {s[k + 1]}
    BY <2>3
  <2> HIDE DEF Seen, T
  <2>5. kept[k + 1] \in Seq(E) /\ Elements(kept[k + 1]) = Seen(k + 1) \cap S
    <3>1. CASE s[k + 1] \in S
      <4>1. kept[k + 1] = Append(kept[k], s[k + 1]) /\ s[k + 1] \in E
        BY <1>1, <2>1, <2>2, <3>1
      <4>2. /\ Append(kept[k], s[k + 1]) \in Seq(E)
            /\ Elements(Append(kept[k], s[k + 1])) = Elements(kept[k]) \cup {s[k + 1]}
        BY <2>1, <4>1, AppendElements
      <4> QED BY <2>1, <2>4, <3>1, <4>1, <4>2
    <3>2. CASE s[k + 1] \notin S
      BY <2>1, <2>2, <2>4, <3>2
    <3> QED BY <3>1, <3>2
  <2> QED BY <2>1, <2>5 DEF T
<1> HIDE DEF T
<1>13. \A k \in 0 .. n : k \in T
  BY <1>1, <1>11, <1>12, UpTo
<1>14. n \in T
  BY <1>1, <1>13
<1>15. Seen(n) = Elements(s)
  BY DEF Elements
<1> QED BY <1>9, <1>14, <1>15, ToSetElements DEF T

\* The elements of the sequences of a sequence.
LEMMA FlattenElements ==
    ASSUME NEW E, NEW q \in Seq(Seq(E))
    PROVE  /\ FlattenSeq(q) \in Seq(E)
           /\ ToSet(FlattenSeq(q)) = UNION {ToSet(q[i]) : i \in 1 .. Len(q)}
<1> DEFINE n == Len(q)
<1>1. n \in Nat /\ \A i \in 1 .. n : q[i] \in Seq(E)
  OBVIOUS
<1>2. CASE n = 0
  <2>1. q = << >> /\ << >> \in Seq(E) /\ 1 .. n = {}
    BY <1>2
  <2>2. FlattenSeq(q) = << >>
    BY <2>1, <1>2 DEF FlattenSeq
  <2>3. ToSet(FlattenSeq(q)) = {}
    BY <2>1, <2>2, ToSetElements, EmptyElements
  <2>4. {ToSet(q[i]) : i \in 1 .. n} = {}
    BY <2>1
  <2> QED BY <2>1, <2>2, <2>3, <2>4
<1>3. CASE n # 0
  <2> DEFINE Following(k, r) == r \o q[k]
  <2> DEFINE F == [k \in 1 .. n - 1 |-> [r \in Seq(E) |-> r \o q[k + 1]]]
  <2> DEFINE Rec(f) == f = [i \in 1 .. n |-> IF i = 1 THEN q[i] ELSE f[i - 1] \o q[i]]
  <2>1. F \in [1 .. n - 1 -> [Seq(E) -> Seq(E)]]
    <3>1. \A k \in 1 .. n - 1 : q[k + 1] \in Seq(E)
      BY <1>1
    <3> QED BY <3>1
  <2> HIDE DEF F
  <2>2. q[1] \in Seq(E) /\ n - 1 \in Nat
    BY <1>1, <1>3
  <2> DEFINE m == n - 1
  <2> DEFINE P == Seq(E)
  <2>a. m \in Nat /\ F \in [1 .. m -> [P -> P]] /\ q[1] \in P
    BY <2>1, <2>2
  <2>b. \A k \in 1 .. n - 1 : k \in 1 .. m
    OBVIOUS
  <2> HIDE DEF m, P
  <2>3. PICK g \in [0 .. m -> P] : Recurs(g, m, q[1], F)
    BY <2>a, Recursion
  <2>c. \A k \in 1 .. m : k - 1 \in 0 .. m /\ g[k - 1] \in P
    BY <2>a, <2>3
  <2>4. /\ g[0] = q[1]
        /\ \A k \in 1 .. n - 1 : g[k] = g[k - 1] \o q[k + 1]
    <3>1. g[0] = q[1] /\ \A k \in 1 .. m : g[k] = F[k][g[k - 1]]
      BY <2>3 DEF Recurs
    <3>2. ASSUME NEW k \in 1 .. n - 1 PROVE g[k] = g[k - 1] \o q[k + 1]
      <4>1. g[k] = F[k][g[k - 1]] /\ g[k - 1] \in Seq(E)
        BY <2>b, <2>c, <3>1 DEF P
      <4> QED BY <4>1 DEF F
    <3> QED BY <3>1, <3>2
  <2> DEFINE f == [i \in 1 .. n |-> g[i - 1]]
  <2>5. Rec(f)
    <3>1. ASSUME NEW i \in 1 .. n PROVE f[i] = IF i = 1 THEN q[i] ELSE f[i - 1] \o q[i]
      <4>1. CASE i = 1
        BY <2>4, <4>1
      <4>2. CASE i # 1
        <5>1. i - 1 \in 1 .. n - 1 /\ i - 1 \in 1 .. n /\ (i - 1) + 1 = i
          BY <4>2
        <5>2. g[i - 1] = g[(i - 1) - 1] \o q[(i - 1) + 1]
          BY <2>4, <5>1
        <5> QED BY <4>2, <5>1, <5>2
      <4> QED BY <4>1, <4>2
    <3>2. f = [i \in 1 .. n |-> f[i]]
      OBVIOUS
    <3> HIDE DEF f
    <3>3. [i \in 1 .. n |-> f[i]] = [i \in 1 .. n |-> IF i = 1 THEN q[i] ELSE f[i - 1] \o q[i]]
      BY <3>1
    <3> QED BY <3>2, <3>3
  <2> DEFINE flat == CHOOSE h : Rec(h)
  <2> HIDE DEF f
  <2>6. Rec(flat)
    BY <2>5
  <2>7. FlattenSeq(q) = flat[n]
    BY <1>3 DEF FlattenSeq
  <2> HIDE DEF flat
  <2>8. /\ flat[1] = q[1]
        /\ \A i \in 2 .. n : flat[i] = flat[i - 1] \o q[i]
    <3>1. 1 \in 1 .. n /\ \A i \in 2 .. n : i \in 1 .. n /\ i # 1
      BY <1>1, <1>3
    <3> QED BY <2>6, <3>1
  <2> DEFINE Seen(k) == UNION {Elements(q[i]) : i \in 1 .. k}
  <2> DEFINE T == {k \in 1 .. n : flat[k] \in Seq(E) /\ Elements(flat[k]) = Seen(k)}
  <2>9. 1 \in T
    <3>1. {Elements(q[i]) : i \in 1 .. 1} = {Elements(q[1])}
      <4>1. 1 .. 1 = {1}
        OBVIOUS
      <4> QED BY <4>1
    <3>2. Seen(1) = Elements(q[1])
      BY <3>1
    <3> HIDE DEF Seen
    <3> QED BY <1>1, <1>3, <2>2, <2>8, <3>2
  <2>10. ASSUME NEW k \in 1 .. n - 1, k \in T PROVE k + 1 \in T
    <3>1. /\ k + 1 \in 2 .. n /\ k + 1 \in 1 .. n /\ (k + 1) - 1 = k
          /\ flat[k] \in Seq(E) /\ Elements(flat[k]) = Seen(k)
      BY <2>10
    <3>2. flat[k + 1] = flat[k] \o q[k + 1] /\ q[k + 1] \in Seq(E)
      BY <1>1, <2>8, <3>1
    <3>4. 1 .. k + 1 = (1 .. k) \cup {k + 1}
      OBVIOUS
    <3>5. {Elements(q[i]) : i \in 1 .. k + 1} =
            {Elements(q[i]) : i \in 1 .. k} \cup {Elements(q[k + 1])}
      BY <3>4
    <3>6. Seen(k + 1) = Seen(k) \cup Elements(q[k + 1])
      BY <3>5
    <3> HIDE DEF Seen, T
    <3>7. /\ flat[k] \o q[k + 1] \in Seq(E)
          /\ Elements(flat[k] \o q[k + 1]) = Elements(flat[k]) \cup Elements(q[k + 1])
      BY <3>1, <3>2, ConcatElements
    <3>8. flat[k + 1] \in Seq(E) /\ Elements(flat[k + 1]) = Seen(k + 1)
      BY <3>1, <3>2, <3>6, <3>7
    <3> QED BY <3>1, <3>8 DEF T
  <2> HIDE DEF T
  <2>11. \A k \in 1 .. n : k \in T
    BY <1>1, <1>3, <2>9, <2>10, UpTo
  <2>12. n \in T
    BY <1>1, <1>3, <2>11
  <2>13. flat[n] \in Seq(E) /\ Elements(flat[n]) = Seen(n)
    BY <2>12 DEF T
  <2>14. \A i \in 1 .. n : ToSet(q[i]) = Elements(q[i])
    BY <1>1, ToSetElements
  <2>15. Seen(n) = UNION {ToSet(q[i]) : i \in 1 .. n}
    BY <2>14
  <2> QED BY <2>7, <2>13, <2>15, ToSetElements
<1> QED BY <1>2, <1>3

-----------------------------------------------------------------------------
(* The passes of build_graph. *)

TaskKinds == {"simple", "block", "quot"}

TaskRecs == [kind : TaskKinds, members : Seq(TableNames), admits : Seq(TableNames)]

Owners == UNION {[D -> Nat] : D \in SUBSET TableNames}

\* What build_graph keeps while it visits the names.
PassStates == [ok : BOOLEAN, tasks : Seq(TaskRecs), owner : Owners]

\* t is the task of the declaration of n.
IsTaskOf(table, t, n) ==
    /\ t \in TaskRecs /\ n \in Declaring(table)
    /\ table[n].kind = "induct" =>
           /\ t.kind = "block" /\ t.members = table[n].all
           /\ \A m \in ToSet(table[n].all) : m \in DOMAIN table /\ table[m].kind = "induct"
    /\ table[n].kind = "quot" =>
           /\ t.kind = "quot" /\ ToSet(t.members) = QuotsOf(table) /\ t.members # << >>
           /\ EqName \in DOMAIN table
    /\ table[n].kind = "simple" => t.kind = "simple" /\ t.members = <<n>>

\* Every task is the task of a declaration and owns what it checks.
TasksInv(table, s) ==
    \A t \in 1 .. Len(s.tasks) :
        /\ \E n \in Declaring(table) : IsTaskOf(table, s.tasks[t], n)
        /\ \A n \in CheckedNames(table, s.tasks[t]) : n \in DOMAIN s.owner /\ s.owner[n] = t

\* Pass 1: the owner of a name checks it; the declarations up to k have one.
Pass1Inv(table, s, k) ==
    /\ TasksInv(table, s)
    /\ \A n \in DOMAIN s.owner :
           /\ s.owner[n] \in 1 .. Len(s.tasks)
           /\ n \in CheckedNames(table, s.tasks[s.owner[n]])
    /\ \A n \in Declaring(table) : n <= k => n \in DOMAIN s.owner

\* Pass 1b: the owner of a name admits it; the names up to k have one.
Pass2Inv(table, s, k) ==
    /\ TasksInv(table, s)
    /\ \A n \in DOMAIN s.owner :
           /\ s.owner[n] \in 1 .. Len(s.tasks)
           /\ n \in ToSet(Flips(table, s.tasks[s.owner[n]]))
    /\ \A n \in DOMAIN table : n \in Declaring(table) \/ n <= k => n \in DOMAIN s.owner

\* The constructors of the members of a block.
LEMMA CtorsElements ==
    ASSUME NEW table, IsTable(table), NEW q \in Seq(TableNames), ToSet(q) \subseteq DOMAIN table
    PROVE  /\ CtorsOf(table, q) \in Seq(TableNames)
           /\ ToSet(CtorsOf(table, q)) = UNION {ToSet(table[m].ctors) : m \in ToSet(q)}
<1> DEFINE f == [i \in DOMAIN q |-> table[q[i]].ctors]
<1>1. Len(q) \in Nat /\ DOMAIN q = 1 .. Len(q)
  OBVIOUS
<1>2. \A i \in DOMAIN q : q[i] \in DOMAIN table /\ table[q[i]].ctors \in Seq(TableNames)
  BY DEF IsTable, Consts, ToSet
<1>3. f \in Seq(Seq(TableNames)) /\ Len(f) = Len(q)
  BY <1>1, <1>2
<1>4. \A i \in 1 .. Len(f) : f[i] = table[q[i]].ctors
  BY <1>1, <1>3
<1> HIDE DEF f
<1>5. /\ FlattenSeq(f) \in Seq(TableNames)
      /\ ToSet(FlattenSeq(f)) = UNION {ToSet(f[i]) : i \in 1 .. Len(f)}
  BY <1>3, FlattenElements
<1>6. {ToSet(f[i]) : i \in 1 .. Len(f)} = {ToSet(table[m].ctors) : m \in ToSet(q)}
  <2>1. ToSet(q) = {q[i] : i \in 1 .. Len(q)}
    BY ToSetElements DEF Elements
  <2>2. \A i \in 1 .. Len(f) : q[i] \in ToSet(q) /\ ToSet(f[i]) = ToSet(table[q[i]].ctors)
    BY <1>3, <1>4, <2>1
  <2>3. \A m \in ToSet(q) : \E i \in 1 .. Len(f) : q[i] = m
    BY <1>3, <2>1
  <2> QED BY <2>2, <2>3
<1> QED BY <1>5, <1>6 DEF CtorsOf, f

\* The same for the recursors the kernel regenerates.
RecsOf(table, q) == FlattenSeq([i \in DOMAIN q |-> table[q[i]].recs])

LEMMA RecsElements ==
    ASSUME NEW table, IsTable(table), NEW q \in Seq(TableNames), ToSet(q) \subseteq DOMAIN table
    PROVE  /\ RecsOf(table, q) \in Seq(TableNames)
           /\ ToSet(RecsOf(table, q)) = UNION {ToSet(table[m].recs) : m \in ToSet(q)}
<1> DEFINE f == [i \in DOMAIN q |-> table[q[i]].recs]
<1>1. Len(q) \in Nat /\ DOMAIN q = 1 .. Len(q)
  OBVIOUS
<1>2. \A i \in DOMAIN q : q[i] \in DOMAIN table /\ table[q[i]].recs \in Seq(TableNames)
  BY DEF IsTable, Consts, ToSet
<1>3. f \in Seq(Seq(TableNames)) /\ Len(f) = Len(q)
  BY <1>1, <1>2
<1>4. \A i \in 1 .. Len(f) : f[i] = table[q[i]].recs
  BY <1>1, <1>3
<1> HIDE DEF f
<1>5. /\ FlattenSeq(f) \in Seq(TableNames)
      /\ ToSet(FlattenSeq(f)) = UNION {ToSet(f[i]) : i \in 1 .. Len(f)}
  BY <1>3, FlattenElements
<1>6. {ToSet(f[i]) : i \in 1 .. Len(f)} = {ToSet(table[m].recs) : m \in ToSet(q)}
  <2>1. ToSet(q) = {q[i] : i \in 1 .. Len(q)}
    BY ToSetElements DEF Elements
  <2>2. \A i \in 1 .. Len(f) : q[i] \in ToSet(q) /\ ToSet(f[i]) = ToSet(table[q[i]].recs)
    BY <1>3, <1>4, <2>1
  <2>3. \A m \in ToSet(q) : \E i \in 1 .. Len(f) : q[i] = m
    BY <1>3, <2>1
  <2> QED BY <2>2, <2>3
<1> QED BY <1>5, <1>6 DEF RecsOf, f

\* Two sequences one after the other.
LEMMA ToSetConcat ==
    ASSUME NEW E, NEW s \in Seq(E), NEW r \in Seq(E)
    PROVE  s \o r \in Seq(E) /\ ToSet(s \o r) = ToSet(s) \cup ToSet(r)
<1> DEFINE c == s \o r
<1>1. c \in Seq(E) /\ Elements(c) = Elements(s) \cup Elements(r)
  BY ConcatElements
<1> HIDE DEF c
<1>2. c \in Seq(E) /\ ToSet(c) = ToSet(s) \cup ToSet(r)
  BY <1>1, ToSetElements
<1> QED BY <1>2 DEF c

\* A task admits exactly what its declaration declares.
LEMMA FlipsDeclared ==
    ASSUME NEW table, WellFormed(table), NEW n, NEW t, IsTaskOf(table, t, n)
    PROVE  /\ Flips(table, t) \in Seq(TableNames)
           /\ ToSet(Flips(table, t)) = Declares(table, n)
           /\ CheckedNames(table, t) \subseteq Declares(table, n)
           /\ n \in CheckedNames(table, t)
           /\ ToSet(Survivors(table, t)) \subseteq Declares(table, n)
           /\ table[n].kind = "induct" => ToSet(Survivors(table, t)) = Declares(table, n)
<1> DEFINE q == t.members
<1> DEFINE own == IF t.kind = "block" THEN q \o CtorsOf(table, q) ELSE q
<1> DEFINE surv == Survivors(table, t)
<1>1. /\ IsTable(table) /\ q \in Seq(TableNames) /\ n \in DOMAIN table /\ table[n] \in Consts
      /\ table[n].kind \in {"simple", "induct", "quot"}
  BY DEF WellFormed, IsTable, IsTaskOf, TaskRecs, Declaring, Consts, Kinds
<1>2. QuotNames \in Seq(TableNames)
  BY NamesAssumption DEF TableNames
<1>3. ASSUME own \in Seq(TableNames), surv \in Seq(TableNames)
      PROVE  /\ Flips(table, t) \in Seq(TableNames)
             /\ ToSet(Flips(table, t)) = ToSet(own) \cup ToSet(surv)
  <2>1. Flips(table, t) = own \o Kept(surv, ToSet(surv) \ ToSet(own))
    BY DEF Flips
  <2> DEFINE late == Kept(surv, ToSet(surv) \ ToSet(own))
  <2> HIDE DEF own, surv
  <2>2. late \in Seq(TableNames) /\ ToSet(late) = ToSet(surv) \ ToSet(own)
    BY <1>3, KeptElements
  <2> HIDE DEF late
  <2>3. own \o late \in Seq(TableNames) /\ ToSet(own \o late) = ToSet(own) \cup ToSet(late)
    BY <1>3, <2>2, ToSetConcat
  <2>4. Flips(table, t) = own \o late
    BY <2>1 DEF late
  <2> QED BY <2>2, <2>3, <2>4
<1>4. CASE table[n].kind = "induct"
  <2> DEFINE recs == RecsOf(table, q)
  <2> DEFINE ctors == CtorsOf(table, q)
  <2>1. t.kind = "block" /\ q = table[n].all /\ ToSet(q) \subseteq DOMAIN table
    BY <1>4 DEF IsTaskOf
  <2>2. /\ ctors \in Seq(TableNames)
        /\ ToSet(ctors) = UNION {ToSet(table[m].ctors) : m \in ToSet(q)}
    BY <1>1, <2>1, CtorsElements
  <2>3. recs \in Seq(TableNames) /\ ToSet(recs) = UNION {ToSet(table[m].recs) : m \in ToSet(q)}
    BY <1>1, <2>1, RecsElements
  <2>4. surv = (q \o ctors) \o recs /\ own = q \o ctors
    BY <2>1 DEF Survivors, RecsOf
  <2>5. CheckedNames(table, t) = ToSet(q) \cup ToSet(ctors)
    BY <2>1 DEF CheckedNames
  <2>6. Declares(table, n) =
            ToSet(q) \cup UNION {ToSet(table[m].ctors) \cup ToSet(table[m].recs) : m \in ToSet(q)}
    BY <1>4, <2>1 DEF Declares
  <2>7. n \in ToSet(q)
    BY <1>1, <1>4, <2>1 DEF WellFormed
  <2> HIDE DEF q, recs, ctors
  <2>8. q \o ctors \in Seq(TableNames) /\ ToSet(q \o ctors) = ToSet(q) \cup ToSet(ctors)
    BY <1>1, <2>2, ToSetConcat
  <2> DEFINE both == q \o ctors
  <2>9. /\ (q \o ctors) \o recs \in Seq(TableNames)
        /\ ToSet((q \o ctors) \o recs) = ToSet(q \o ctors) \cup ToSet(recs)
    <3>1. both \in Seq(TableNames)
      BY <2>8
    <3> HIDE DEF both
    <3>2. both \o recs \in Seq(TableNames) /\ ToSet(both \o recs) = ToSet(both) \cup ToSet(recs)
      BY <2>3, <3>1, ToSetConcat
    <3> QED BY <3>2 DEF both
  <2>10. own \in Seq(TableNames) /\ surv \in Seq(TableNames)
         /\ ToSet(own) = ToSet(q) \cup ToSet(ctors)
         /\ ToSet(surv) = (ToSet(q) \cup ToSet(ctors)) \cup ToSet(recs)
    BY <2>4, <2>8, <2>9
  <2> HIDE DEF own, surv
  <2>11. Declares(table, n) = (ToSet(q) \cup ToSet(ctors)) \cup ToSet(recs)
    BY <2>2, <2>3, <2>6
  <2>12. surv = Survivors(table, t)
    BY DEF surv
  <2> QED BY <1>3, <2>5, <2>7, <2>10, <2>11, <2>12
<1>5. CASE table[n].kind = "quot"
  <2>1. t.kind = "quot" /\ ToSet(q) = QuotsOf(table)
    BY <1>5 DEF IsTaskOf
  <2>2. surv = QuotNames /\ own = q /\ CheckedNames(table, t) = ToSet(q)
    BY <2>1 DEF Survivors, CheckedNames
  <2>3. Declares(table, n) = ToSet(QuotNames) \cup ToSet(q) /\ n \in QuotsOf(table)
    BY <1>1, <1>5, <2>1 DEF Declares, QuotsOf
  <2> HIDE DEF own, q
  <2> QED BY <1>1, <1>5, <1>2, <1>3, <2>1, <2>2, <2>3
<1>6. CASE table[n].kind = "simple"
  <2>1. t.kind = "simple" /\ q = <<n>>
    BY <1>6 DEF IsTaskOf
  <2>2. surv = << >> /\ own = <<n>> /\ CheckedNames(table, t) = ToSet(<<n>>)
    BY <2>1 DEF Survivors, CheckedNames
  <2>3. Declares(table, n) = {n}
    BY <1>6 DEF Declares
  <2>4. ToSet(<<n>>) = {n} /\ ToSet(<< >>) = {} /\ n \in TableNames
    BY <1>1 DEF ToSet, IsTable
  <2>5. <<n>> \in Seq(TableNames) /\ << >> \in Seq(TableNames)
    BY <2>4
  <2> HIDE DEF own, q
  <2> QED BY <1>3, <1>6, <2>2, <2>3, <2>4, <2>5
<1> QED BY <1>1, <1>4, <1>5, <1>6

\* The last name of a table.
LEMMA LastName ==
    ASSUME NEW S, S \subseteq Nat, S # {}, IsFiniteSet(S)
    PROVE  Max(S) \in S /\ \A x \in S : x <= Max(S)
<1>a. PICK n \in Nat : ExistsBijection(1 .. n, S)
  BY FS_NatBijection
<1>b. PICK f : f \in Bijection(1 .. n, S)
  BY <1>a DEF ExistsBijection
<1>1. f \in [1 .. n -> S] /\ \A x \in S : \E i \in 1 .. n : f[i] = x
  BY <1>b DEF Bijection, Injection, Surjection, IsInjective
<1> DEFINE T == {k \in 0 .. n : \E m \in S : \A i \in 1 .. k : f[i] <= m}
<1>2. 0 \in T
  <2>1. 1 .. 0 = {} /\ 0 \in 0 .. n
    OBVIOUS
  <2>2. PICK m \in S : TRUE
    OBVIOUS
  <2> QED BY <2>1, <2>2
<1>3. ASSUME NEW k \in 0 .. n - 1, k \in T PROVE k + 1 \in T
  <2>1. PICK m \in S : \A i \in 1 .. k : f[i] <= m
    BY <1>3
  <2>2. k + 1 \in 0 .. n /\ k + 1 \in 1 .. n /\ 1 .. k + 1 = (1 .. k) \cup {k + 1}
    OBVIOUS
  <2>3. f[k + 1] \in S /\ f[k + 1] \in Nat /\ m \in Nat
    BY <1>1, <2>2
  <2>4. \A i \in 1 .. k : f[i] \in Nat
    <3>1. \A i \in 1 .. k : i \in 1 .. n
      BY <2>2
    <3> QED BY <1>1, <3>1
  <2>5. CASE f[k + 1] <= m
    BY <2>1, <2>2, <2>5
  <2>6. CASE m <= f[k + 1]
    BY <2>1, <2>2, <2>3, <2>4, <2>6
  <2> QED BY <2>3, <2>5, <2>6
<1> HIDE DEF T
<1>4. \A k \in 0 .. n : k \in T
  BY <1>2, <1>3, UpTo
<1>5. PICK m \in S : \A i \in 1 .. n : f[i] <= m
  BY <1>4 DEF T
<1>6. \A x \in S : m >= x
  BY <1>1, <1>5
<1> QED BY <1>6 DEF Max

\* Tasks whose declarations share a name are tasks of one declaration.
LEMMA SharedName ==
    ASSUME NEW table, WellFormed(table),
           NEW m, NEW t, IsTaskOf(table, t, m), NEW n, NEW u, IsTaskOf(table, u, n),
           NEW x, x \in Declares(table, m), x \in Declares(table, n)
    PROVE  SameDeclaration(table, m, n) /\ n \in CheckedNames(table, t)
<1>1. m \in Declaring(table) /\ n \in Declaring(table) /\ n \in DOMAIN table
  BY DEF IsTaskOf, Declaring
<1>2. SameDeclaration(table, m, n)
  BY <1>1 DEF WellFormed
<1>3. CASE m = n
  BY <1>2, <1>3, FlipsDeclared
<1>4. CASE table[m].kind = "induct" /\ table[n].kind = "induct" /\ table[m].all = table[n].all
  BY <1>1, <1>2, <1>4 DEF IsTaskOf, CheckedNames, WellFormed
<1>5. CASE table[m].kind = "quot" /\ table[n].kind = "quot"
  BY <1>1, <1>2, <1>5 DEF IsTaskOf, CheckedNames, QuotsOf
<1> QED BY <1>2, <1>3, <1>4, <1>5 DEF SameDeclaration

\* The map from names to tasks after a claim.
ClaimOf(c, owner, names, t) ==
    /\ DOMAIN c = DOMAIN owner \cup names
    /\ \A n \in names : c[n] = t
    /\ \A n \in DOMAIN owner \ names : c[n] = owner[n]

LEMMA ClaimedOwners ==
    ASSUME NEW owner \in Owners, NEW names \in SUBSET TableNames, NEW t \in Nat
    PROVE  /\ Claimed(owner, names, t) \in Owners
           /\ ClaimOf(Claimed(owner, names, t), owner, names, t)
<1>1. PICK D \in SUBSET TableNames : owner \in [D -> Nat]
  BY DEF Owners
<1>2. Claimed(owner, names, t) \in [D \cup names -> Nat] /\ D \cup names \in SUBSET TableNames
  BY <1>1 DEF Claimed
<1>3. Claimed(owner, names, t) \in Owners
  BY <1>2 DEF Owners
<1> QED BY <1>1, <1>2, <1>3 DEF Claimed, ClaimOf

\* A new task leaves the other tasks as they are.
LEMMA AddTaskStates ==
    ASSUME NEW s \in PassStates, NEW t \in TaskRecs, NEW names \in Seq(TableNames),
           NEW r, r = AddTask(s, t, names)
    PROVE  /\ r \in PassStates /\ r.ok = s.ok
           /\ Len(s.tasks) \in Nat /\ Len(r.tasks) = Len(s.tasks) + 1
           /\ \A i \in 1 .. Len(s.tasks) : r.tasks[i] = s.tasks[i]
           /\ r.tasks[Len(s.tasks) + 1] = t
           /\ r.owner = Claimed(s.owner, ToSet(names), Len(s.tasks) + 1)
<1>1. s.tasks \in Seq(TaskRecs) /\ s.owner \in Owners /\ s.ok \in BOOLEAN /\ Len(s.tasks) \in Nat
  BY DEF PassStates
<1>2. ToSet(names) \in SUBSET TableNames
  BY ToSetElements, ElementsInside
<1>3. Claimed(s.owner, ToSet(names), Len(s.tasks) + 1) \in Owners
  <2> DEFINE own == ToSet(names)
  <2> DEFINE l == Len(s.tasks) + 1
  <2>1. l \in Nat /\ own \in SUBSET TableNames
    BY <1>1, <1>2
  <2> HIDE DEF own, l
  <2>2. Claimed(s.owner, own, l) \in Owners
    BY <1>1, <2>1, ClaimedOwners
  <2> QED BY <2>2 DEF own, l
<1>4. /\ r.tasks = Append(s.tasks, t) /\ r.ok = s.ok
      /\ r.owner = Claimed(s.owner, ToSet(names), Len(s.tasks) + 1)
      /\ r = [ok |-> r.ok, tasks |-> r.tasks, owner |-> r.owner]
  BY DEF AddTask, PassStates
<1>5. Append(s.tasks, t) \in Seq(TaskRecs)
  BY <1>1
<1>6. r \in PassStates
  BY <1>1, <1>3, <1>4, <1>5 DEF PassStates
<1>7. /\ Len(Append(s.tasks, t)) = Len(s.tasks) + 1
      /\ \A i \in 1 .. Len(s.tasks) : Append(s.tasks, t)[i] = s.tasks[i]
      /\ Append(s.tasks, t)[Len(s.tasks) + 1] = t
  BY <1>1
<1> QED BY <1>1, <1>4, <1>6, <1>7

\* The task of a declaration no task has yet takes no name from another.
LEMMA AddTaskKeeps ==
    ASSUME NEW table, WellFormed(table), NEW s \in PassStates,
           NEW n \in Declaring(table), n \notin DOMAIN s.owner, Pass1Inv(table, s, n - 1),
           NEW t, IsTaskOf(table, t, n),
           NEW names \in Seq(TableNames), ToSet(names) = CheckedNames(table, t)
    PROVE  Pass1Inv(table, AddTask(s, t, names), n)
<1> DEFINE r == AddTask(s, t, names)
<1> DEFINE l == Len(s.tasks)
<1> DEFINE own == CheckedNames(table, t)
<1>1. /\ r \in PassStates /\ l \in Nat /\ Len(r.tasks) = l + 1
      /\ \A i \in 1 .. l : r.tasks[i] = s.tasks[i]
      /\ r.tasks[l + 1] = t
      /\ r.owner = Claimed(s.owner, own, l + 1)
  BY AddTaskStates DEF IsTaskOf
<1>2. own \in SUBSET TableNames /\ s.owner \in Owners
  BY ToSetElements, ElementsInside DEF PassStates
<1> HIDE DEF r
<1>3. /\ DOMAIN r.owner = DOMAIN s.owner \cup own
      /\ \A x \in own : r.owner[x] = l + 1
      /\ \A x \in DOMAIN s.owner \ own : r.owner[x] = s.owner[x]
  <2> DEFINE new == l + 1
  <2> DEFINE o == s.owner
  <2>1. new \in Nat /\ o \in Owners /\ own \in SUBSET TableNames
    BY <1>1, <1>2
  <2> HIDE DEF new, own, o
  <2>2. ClaimOf(Claimed(o, own, new), o, own, new)
    BY <2>1, ClaimedOwners
  <2>3. r.owner = Claimed(o, own, new)
    BY <1>1 DEF new, own, o
  <2> QED BY <2>2, <2>3 DEF new, o, ClaimOf
<1>4. DOMAIN s.owner \cap own = {}
  <2> SUFFICES ASSUME NEW x \in DOMAIN s.owner, x \in own PROVE FALSE
    OBVIOUS
  <2>1. s.owner[x] \in 1 .. l /\ x \in CheckedNames(table, s.tasks[s.owner[x]])
    BY DEF Pass1Inv
  <2>2. PICK m \in Declaring(table) : IsTaskOf(table, s.tasks[s.owner[x]], m)
    BY <2>1 DEF Pass1Inv, TasksInv
  <2>3. x \in Declares(table, m) /\ x \in Declares(table, n)
    BY <2>1, <2>2, FlipsDeclared
  <2>4. n \in CheckedNames(table, s.tasks[s.owner[x]])
    BY <2>2, <2>3, SharedName
  <2> QED BY <2>1, <2>4 DEF Pass1Inv, TasksInv
<1>5. n \in own
  BY FlipsDeclared
<1>6. \A i \in 1 .. l + 1 : i \in 1 .. l \/ i = l + 1
  BY <1>1
<1>7. TasksInv(table, r)
  <2> SUFFICES ASSUME NEW i \in 1 .. l + 1
               PROVE  /\ \E m \in Declaring(table) : IsTaskOf(table, r.tasks[i], m)
                      /\ \A x \in CheckedNames(table, r.tasks[i]) :
                             x \in DOMAIN r.owner /\ r.owner[x] = i
    BY <1>1 DEF TasksInv
  <2>1. CASE i = l + 1
    BY <1>1, <1>3, <2>1
  <2>2. CASE i \in 1 .. l
    <3>1. r.tasks[i] = s.tasks[i]
      BY <1>1, <2>2
    <3>2. \E m \in Declaring(table) : IsTaskOf(table, s.tasks[i], m)
      BY <2>2 DEF Pass1Inv, TasksInv
    <3>3. \A x \in CheckedNames(table, s.tasks[i]) : x \in DOMAIN s.owner /\ s.owner[x] = i
      BY <2>2 DEF Pass1Inv, TasksInv
    <3> QED BY <1>3, <1>4, <3>1, <3>2, <3>3
  <2> QED BY <1>6, <2>1, <2>2
<1>8. ASSUME NEW x \in DOMAIN r.owner
      PROVE  r.owner[x] \in 1 .. l + 1 /\ x \in CheckedNames(table, r.tasks[r.owner[x]])
  <2>1. CASE x \in own
    <3>1. l + 1 \in 1 .. l + 1
      BY <1>1
    <3> QED BY <1>1, <1>3, <2>1, <3>1
  <2>2. CASE x \in DOMAIN s.owner /\ x \notin own
    <3>1. s.owner[x] \in 1 .. l /\ x \in CheckedNames(table, s.tasks[s.owner[x]])
      BY <2>2 DEF Pass1Inv
    <3>2. s.owner[x] \in 1 .. l + 1
      BY <1>1, <3>1
    <3> QED BY <1>1, <1>3, <2>2, <3>1, <3>2
  <2> QED BY <1>3, <1>8, <2>1, <2>2
<1>9. ASSUME NEW x \in Declaring(table), x <= n PROVE x \in DOMAIN r.owner
  <2>1. x \in Nat /\ n \in Nat
    BY DEF Declaring, WellFormed, IsTable, TableNames
  <2>2. x = n \/ x <= n - 1
    BY <1>9, <2>1
  <2> QED BY <1>3, <1>5, <2>2 DEF Pass1Inv
<1>10. Pass1Inv(table, r, n)
  BY <1>1, <1>7, <1>8, <1>9 DEF Pass1Inv
<1> QED BY <1>10 DEF r

\* The names of the quotient constants.
LEMMA QuotMembers ==
    ASSUME NEW table, IsTable(table),
           NEW q, q = Kept([i \in 1 .. Max(DOMAIN table) |-> i], QuotsOf(table))
    PROVE  q \in Seq(TableNames) /\ ToSet(q) = QuotsOf(table)
<1> DEFINE last == Max(DOMAIN table)
<1> DEFINE all == [i \in 1 .. last |-> i]
<1>1. last \in Nat /\ \A x \in DOMAIN table : x <= last
  BY LastName DEF IsTable, TableNames
<1> HIDE DEF last
<1>2. \A i \in 1 .. last : i \in TableNames
  BY <1>1 DEF TableNames
<1>3. all \in Seq(TableNames) /\ Len(all) = last /\ \A i \in 1 .. last : all[i] = i
  BY <1>1, <1>2
<1>4. QuotsOf(table) \subseteq 1 .. last
  <2> SUFFICES ASSUME NEW x \in QuotsOf(table) PROVE x \in 1 .. last
    OBVIOUS
  <2>1. x \in TableNames /\ x <= last
    BY <1>1 DEF QuotsOf, IsTable
  <2> QED BY <1>1, <2>1 DEF TableNames
<1>5. ToSet(all) = 1 .. last
  BY <1>3, ToSetElements DEF Elements
<1> HIDE DEF all
<1>6. /\ Kept(all, QuotsOf(table)) \in Seq(TableNames)
      /\ ToSet(Kept(all, QuotsOf(table))) = ToSet(all) \cap QuotsOf(table)
  BY <1>3, KeptElements
<1>7. q = Kept(all, QuotsOf(table))
  BY DEF all, last
<1> QED BY <1>4, <1>5, <1>6, <1>7

\* A name that needs no task of its own, or has one.
LEMMA Pass1Skips ==
    ASSUME NEW table, WellFormed(table), NEW s, NEW k \in TableNames,
           Pass1Inv(table, s, k - 1),
           k \notin Declaring(table) \/ k \in DOMAIN s.owner
    PROVE  Pass1Inv(table, s, k)
<1>1. ASSUME NEW x \in Declaring(table), x <= k PROVE x \in DOMAIN s.owner
  <2>1. x \in Nat /\ k \in Nat
    BY DEF Declaring, WellFormed, IsTable, TableNames
  <2>2. x = k \/ x <= k - 1
    BY <1>1, <2>1
  <2> QED BY <2>2 DEF Pass1Inv
<1> QED BY <1>1 DEF Pass1Inv

LEMMA FailedStates ==
    ASSUME NEW s \in PassStates
    PROVE  Failed(s) \in PassStates /\ ~Failed(s).ok
  BY DEF Failed, PassStates

\* A visit of pass 1 that adds a task.
LEMMA Pass1Adds ==
    ASSUME NEW table, WellFormed(table), NEW s \in PassStates, NEW k \in Declaring(table),
           s.ok, k \notin DOMAIN s.owner,
           NEW t, IsTaskOf(table, t, k),
           NEW names \in Seq(TableNames), ToSet(names) = CheckedNames(table, t)
    PROVE  /\ AddTask(s, t, names) \in PassStates
           /\ Pass1Inv(table, s, k - 1) => Pass1Inv(table, AddTask(s, t, names), k)
<1>1. AddTask(s, t, names) \in PassStates
  BY AddTaskStates DEF IsTaskOf
<1>2. Pass1Inv(table, s, k - 1) => Pass1Inv(table, AddTask(s, t, names), k)
  BY AddTaskKeeps
<1> QED BY <1>1, <1>2

\* A visit of pass 1.
LEMMA AssignKeeps ==
    ASSUME NEW table, WellFormed(table), NEW s \in PassStates, NEW k \in TableNames,
           NEW r, r = AssignName(table, s, k)
    PROVE  /\ r \in PassStates
           /\ (s.ok => Pass1Inv(table, s, k - 1)) => (r.ok => Pass1Inv(table, r, k))
<1>1. IsTable(table)
  BY DEF WellFormed
<1>2. CASE ~s.ok \/ k \notin DOMAIN table \/ k \in DOMAIN s.owner
  <2>1. r = s
    BY <1>2 DEF AssignName
  <2>2. k \notin Declaring(table) \/ k \in DOMAIN s.owner \/ ~s.ok
    BY <1>2 DEF Declaring
  <2> QED BY <2>1, <2>2, Pass1Skips
<1>3. CASE s.ok /\ k \in DOMAIN table /\ k \notin DOMAIN s.owner
  <2>0. table[k] \in Consts
    BY <1>1, <1>3 DEF IsTable
  <2>1. CASE table[k].kind = "induct"
    <3> DEFINE members == table[k].all
    <3> DEFINE ctors == CtorsOf(table, members)
    <3> DEFINE names == members \o ctors
    <3> DEFINE t == [kind |-> "block", members |-> members, admits |-> names]
    <3>1. r = AddBlock(table, s, k)
      BY <1>3, <2>1 DEF AssignName
    <3>2. CASE \E m \in ToSet(members) : m \notin DOMAIN table \/ table[m].kind # "induct"
      <4>1. r = Failed(s)
        BY <3>1, <3>2 DEF AddBlock
      <4> QED BY <4>1, FailedStates
    <3>3. CASE \A m \in ToSet(members) : m \in DOMAIN table /\ table[m].kind = "induct"
      <4>1. r = AddTask(s, t, names)
        BY <3>1, <3>3 DEF AddBlock
      <4>2. members \in Seq(TableNames) /\ ToSet(members) \subseteq DOMAIN table
        BY <2>0, <3>3 DEF Consts
      <4>3. ctors \in Seq(TableNames)
        BY <1>1, <4>2, CtorsElements
      <4> HIDE DEF ctors
      <4>4. names \in Seq(TableNames) /\ ToSet(names) = ToSet(members) \cup ToSet(ctors)
        BY <4>2, <4>3, ToSetConcat
      <4> HIDE DEF names
      <4>5. t \in TaskRecs
        BY <4>2, <4>4 DEF TaskRecs, TaskKinds
      <4>6. k \in Declaring(table)
        BY <1>3, <2>1 DEF Declaring
      <4>7. IsTaskOf(table, t, k)
        BY <2>1, <3>3, <4>5, <4>6 DEF IsTaskOf
      <4>8. CheckedNames(table, t) = ToSet(names)
        BY <4>4 DEF CheckedNames, ctors
      <4>9. /\ AddTask(s, t, names) \in PassStates
            /\ Pass1Inv(table, s, k - 1) => Pass1Inv(table, AddTask(s, t, names), k)
        <5> HIDE DEF t
        <5> QED BY <1>3, <4>4, <4>6, <4>7, <4>8, Pass1Adds
      <4> HIDE DEF t
      <4> QED BY <1>3, <4>1, <4>9
    <3> QED BY <3>2, <3>3
  <2>2. CASE table[k].kind = "quot"
    <3> DEFINE names == Kept([i \in 1 .. Max(DOMAIN table) |-> i], QuotsOf(table))
    <3> DEFINE t == [kind |-> "quot", members |-> names, admits |-> names]
    <3>1. r = IF EqName \notin DOMAIN table THEN Failed(s) ELSE AddTask(s, t, names)
      BY <1>3, <2>2 DEF AssignName, AddQuot
    <3>2. names \in Seq(TableNames) /\ ToSet(names) = QuotsOf(table)
      BY <1>1, QuotMembers
    <3> HIDE DEF names
    <3>3. CASE EqName \notin DOMAIN table
      BY <3>1, <3>3, FailedStates
    <3>4. CASE EqName \in DOMAIN table
      <4>1. t \in TaskRecs
        BY <3>2 DEF TaskRecs, TaskKinds
      <4>2. k \in Declaring(table) /\ k \in QuotsOf(table)
        BY <1>3, <2>2 DEF Declaring, QuotsOf
      <4>3. names # << >>
        <5>1. ToSet(<< >>) = {}
          BY DEF ToSet
        <5> QED BY <3>2, <4>2, <5>1
      <4>4. IsTaskOf(table, t, k)
        BY <2>2, <3>2, <3>4, <4>1, <4>2, <4>3 DEF IsTaskOf
      <4>5. CheckedNames(table, t) = ToSet(names)
        BY DEF CheckedNames
      <4>6. /\ AddTask(s, t, names) \in PassStates
            /\ Pass1Inv(table, s, k - 1) => Pass1Inv(table, AddTask(s, t, names), k)
        <5> HIDE DEF t
        <5> QED BY <1>3, <3>2, <4>2, <4>4, <4>5, Pass1Adds
      <4> HIDE DEF t
      <4> QED BY <1>3, <3>1, <3>4, <4>6
    <3> QED BY <3>3, <3>4
  <2>3. CASE table[k].kind \in {"ctor", "rec"}
    <3>1. r = s
      BY <1>3, <2>3 DEF AssignName
    <3>2. k \notin Declaring(table)
      BY <2>3 DEF Declaring
    <3> QED BY <3>1, <3>2, Pass1Skips
  <2>4. CASE table[k].kind = "simple"
    <3> DEFINE t == [kind |-> "simple", members |-> <<k>>, admits |-> <<k>>]
    <3>1. r = AddTask(s, t, <<k>>)
      BY <1>3, <2>4 DEF AssignName, AddSimple
    <3>2. <<k>> \in Seq(TableNames) /\ ToSet(<<k>>) = {k}
      BY DEF ToSet
    <3>3. t \in TaskRecs
      BY <3>2 DEF TaskRecs, TaskKinds
    <3>4. k \in Declaring(table)
      BY <1>3, <2>4 DEF Declaring
    <3>5. IsTaskOf(table, t, k) /\ CheckedNames(table, t) = ToSet(<<k>>)
      BY <2>4, <3>2, <3>3, <3>4 DEF IsTaskOf, CheckedNames
    <3>6. /\ AddTask(s, t, <<k>>) \in PassStates
          /\ Pass1Inv(table, s, k - 1) => Pass1Inv(table, AddTask(s, t, <<k>>), k)
      <4> DEFINE one == <<k>>
      <4>1. one \in Seq(TableNames) /\ CheckedNames(table, t) = ToSet(one)
        BY <3>2, <3>5
      <4> HIDE DEF t, one
      <4>2. /\ AddTask(s, t, one) \in PassStates
            /\ Pass1Inv(table, s, k - 1) => Pass1Inv(table, AddTask(s, t, one), k)
        BY <1>3, <3>4, <3>5, <4>1, Pass1Adds
      <4> QED BY <4>2 DEF one
    <3> HIDE DEF t
    <3> QED BY <1>3, <3>1, <3>6
  <2> QED BY <2>0, <2>1, <2>2, <2>3, <2>4 DEF Consts, Kinds
<1> QED BY <1>2, <1>3

\* A task is what its kind and its members make it.
LEMMA SameTask ==
    ASSUME NEW table, NEW t \in TaskRecs, NEW u \in TaskRecs,
           t.kind = u.kind, t.members = u.members
    PROVE  /\ Flips(table, t) = Flips(table, u)
           /\ CheckedNames(table, t) = CheckedNames(table, u)
           /\ \A n : IsTaskOf(table, t, n) <=> IsTaskOf(table, u, n)
<1>1. Survivors(table, t) = Survivors(table, u)
  BY DEF Survivors
<1>2. Flips(table, t) = Flips(table, u)
  BY <1>1 DEF Flips
<1>3. CheckedNames(table, t) = CheckedNames(table, u)
  BY DEF CheckedNames
<1> QED BY <1>2, <1>3 DEF IsTaskOf

\* A visit of pass 1b.
LEMMA ClaimKeeps ==
    ASSUME NEW table, WellFormed(table), NEW s \in PassStates, NEW k \in TableNames,
           NEW r, r = ClaimStray(table, s, k)
    PROVE  /\ r \in PassStates
           /\ (s.ok => Pass2Inv(table, s, k - 1)) => (r.ok => Pass2Inv(table, r, k))
<1>1. IsTable(table)
  BY DEF WellFormed
<1>2. CASE ~s.ok \/ k \notin DOMAIN table \/ k \in DOMAIN s.owner
  <2>1. r = s
    BY <1>2 DEF ClaimStray
  <2>2. ASSUME Pass2Inv(table, s, k - 1), s.ok PROVE Pass2Inv(table, s, k)
    <3>1. ASSUME NEW x \in DOMAIN table, x \in Declaring(table) \/ x <= k PROVE x \in DOMAIN s.owner
      <4>1. x \in Nat /\ k \in Nat
        BY <1>1 DEF IsTable, TableNames
      <4>2. x = k \/ x <= k - 1 \/ x \in Declaring(table)
        BY <3>1, <4>1
      <4> QED BY <1>2, <2>2, <4>2 DEF Pass2Inv
    <3> QED BY <2>2, <3>1 DEF Pass2Inv
  <2> QED BY <2>1, <2>2
<1>3. CASE s.ok /\ k \in DOMAIN table /\ k \notin DOMAIN s.owner
  <2> DEFINE h == BlockHead(table, k)
  <2> DEFINE o == s.owner[h]
  <2>1. CASE h \notin DOMAIN s.owner
    <3>1. r = Failed(s)
      BY <1>3, <2>1 DEF ClaimStray
    <3> QED BY <3>1, FailedStates
  <2>2. CASE h \in DOMAIN s.owner
    <3>1. r = [s EXCEPT !.owner = Claimed(@, {k}, o), !.tasks[o].admits = Append(@, k)]
      BY <1>3, <2>2 DEF ClaimStray
    <3>2. /\ s.tasks \in Seq(TaskRecs) /\ s.owner \in Owners /\ Len(s.tasks) \in Nat
          /\ \A i \in 1 .. Len(s.tasks) : s.tasks[i] \in TaskRecs
          /\ o \in Nat
      BY <2>2 DEF PassStates, Owners
    <3> HIDE DEF o, h
    <3>3. /\ r.tasks = [s.tasks EXCEPT ![o].admits = Append(@, k)]
          /\ r.owner = Claimed(s.owner, {k}, o) /\ r.ok = s.ok
          /\ r = [ok |-> r.ok, tasks |-> r.tasks, owner |-> r.owner]
      BY <3>1 DEF PassStates
    <3>4. /\ Len(r.tasks) = Len(s.tasks) /\ r.tasks \in Seq(TaskRecs)
          /\ \A i \in 1 .. Len(s.tasks) :
                 /\ r.tasks[i] \in TaskRecs
                 /\ r.tasks[i].kind = s.tasks[i].kind
                 /\ r.tasks[i].members = s.tasks[i].members
      <4> DEFINE q == s.tasks
      <4>1. q \in Seq(TaskRecs) /\ Len(q) \in Nat /\ DOMAIN q = 1 .. Len(q)
            /\ \A i \in 1 .. Len(q) : q[i] \in TaskRecs
        BY <3>2
      <4>2. r.tasks = [q EXCEPT ![o].admits = Append(@, k)]
        BY <3>3
      <4> HIDE DEF q
      <4> DEFINE new == [q[o] EXCEPT !.admits = Append(@, k)]
      <4>3. r.tasks = [i \in 1 .. Len(q) |-> IF i = o THEN new ELSE q[i]]
        BY <4>1, <4>2
      <4>4. ASSUME o \in 1 .. Len(q)
            PROVE  new \in TaskRecs /\ new.kind = q[o].kind /\ new.members = q[o].members
        <5>1. q[o] \in TaskRecs
          BY <4>1, <4>4
        <5>2. Append(q[o].admits, k) \in Seq(TableNames)
          BY <5>1 DEF TaskRecs
        <5> QED BY <5>1, <5>2 DEF TaskRecs
      <4> HIDE DEF new
      <4>5. \A i \in 1 .. Len(q) :
                /\ r.tasks[i] \in TaskRecs
                /\ r.tasks[i].kind = q[i].kind
                /\ r.tasks[i].members = q[i].members
        BY <4>1, <4>3, <4>4
      <4>6. r.tasks \in [1 .. Len(q) -> TaskRecs]
        BY <4>3, <4>5
      <4>7. r.tasks \in Seq(TaskRecs) /\ Len(r.tasks) = Len(q)
        BY <4>1, <4>6
      <4> QED BY <4>5, <4>7 DEF q
    <3>5. Claimed(s.owner, {k}, o) \in Owners /\ ClaimOf(Claimed(s.owner, {k}, o), s.owner, {k}, o)
      BY <3>2, ClaimedOwners
    <3>6. r \in PassStates
      BY <3>3, <3>4, <3>5 DEF PassStates
    <3>7. /\ DOMAIN r.owner = DOMAIN s.owner \cup {k} /\ r.owner[k] = o
          /\ \A x \in DOMAIN s.owner : r.owner[x] = s.owner[x]
      BY <1>3, <3>3, <3>5 DEF ClaimOf
    <3>8. \A i \in 1 .. Len(s.tasks) :
              /\ Flips(table, r.tasks[i]) = Flips(table, s.tasks[i])
              /\ CheckedNames(table, r.tasks[i]) = CheckedNames(table, s.tasks[i])
              /\ \A n : IsTaskOf(table, r.tasks[i], n) <=> IsTaskOf(table, s.tasks[i], n)
      BY <3>2, <3>4, SameTask
    <3>9. ASSUME Pass2Inv(table, s, k - 1) PROVE Pass2Inv(table, r, k)
      <4>1. o \in 1 .. Len(s.tasks) /\ h \in ToSet(Flips(table, s.tasks[o]))
        BY <2>2, <3>9 DEF Pass2Inv, o
      <4>2. PICK m \in Declaring(table) : IsTaskOf(table, s.tasks[o], m)
        BY <3>9, <4>1 DEF Pass2Inv, TasksInv
      <4>3. h \in Declares(table, m)
        BY <4>1, <4>2, FlipsDeclared
      <4>4. k \notin Declaring(table)
        BY <1>3, <3>9 DEF Pass2Inv
      <4>5. Whole(table, m)
        BY <4>2 DEF Whole, IsTaskOf
      <4>6. k \in Declares(table, m)
        BY <1>3, <4>3, <4>4, <4>5 DEF WellFormed, h
      <4>7. k \in ToSet(Flips(table, r.tasks[o]))
        BY <3>8, <4>1, <4>2, <4>6, FlipsDeclared
      <4>8. TasksInv(table, r)
        <5> SUFFICES ASSUME NEW i \in 1 .. Len(s.tasks)
                     PROVE  /\ \E n \in Declaring(table) : IsTaskOf(table, r.tasks[i], n)
                            /\ \A n \in CheckedNames(table, r.tasks[i]) :
                                   n \in DOMAIN r.owner /\ r.owner[n] = i
          BY <3>4 DEF TasksInv
        <5>1. /\ \E n \in Declaring(table) : IsTaskOf(table, s.tasks[i], n)
              /\ \A n \in CheckedNames(table, s.tasks[i]) : n \in DOMAIN s.owner /\ s.owner[n] = i
          BY <3>9 DEF Pass2Inv, TasksInv
        <5> QED BY <3>7, <3>8, <5>1
      <4>9. \A n \in DOMAIN r.owner :
                r.owner[n] \in 1 .. Len(r.tasks) /\ n \in ToSet(Flips(table, r.tasks[r.owner[n]]))
        <5>1. \A n \in DOMAIN s.owner :
                s.owner[n] \in 1 .. Len(s.tasks) /\ n \in ToSet(Flips(table, s.tasks[s.owner[n]]))
          BY <3>9 DEF Pass2Inv
        <5> QED BY <3>4, <3>7, <3>8, <4>1, <4>7, <5>1
      <4>10. ASSUME NEW x \in DOMAIN table, x \in Declaring(table) \/ x <= k
             PROVE  x \in DOMAIN r.owner
        <5>1. x \in Nat /\ k \in Nat
          BY <1>1 DEF IsTable, TableNames
        <5>2. x = k \/ x <= k - 1 \/ x \in Declaring(table)
          BY <4>10, <5>1
        <5> QED BY <3>7, <3>9, <5>2 DEF Pass2Inv
      <4> QED BY <4>8, <4>9, <4>10 DEF Pass2Inv
    <3> QED BY <1>3, <3>3, <3>6, <3>9
  <2> QED BY <2>1, <2>2
<1> QED BY <1>2, <1>3

\* The passes start from a state.
LEMMA StartIsState == Start \in PassStates
<1>1. << >> \in Seq(TaskRecs) /\ << >> \in [{} -> Nat]
  OBVIOUS
<1> QED BY <1>1 DEF Start, PassStates, Owners

\* Pass 1 visits the names one after the other.
LEMMA Pass1Visits ==
    ASSUME NEW table, WellFormed(table)
    PROVE  /\ Max(DOMAIN table) \in TableNames
           /\ \E g :
                  /\ g[0] = Start /\ Pass1(table) = g[Max(DOMAIN table)]
                  /\ \A k \in 1 .. Max(DOMAIN table) : g[k] = AssignName(table, g[k - 1], k)
<1> DEFINE last == Max(DOMAIN table)
<1> DEFINE P == PassStates
<1> DEFINE F == [k \in 1 .. last |-> [s \in P |-> AssignName(table, s, k)]]
<1>1. last \in TableNames /\ last \in Nat /\ \A k \in 1 .. last : k \in TableNames
  <2>1. last \in DOMAIN table
    BY LastName DEF WellFormed, IsTable, TableNames
  <2> HIDE DEF last
  <2> QED BY <2>1 DEF WellFormed, IsTable, TableNames
<1>2. Start \in P
  BY StartIsState
<1>3. \A k \in 1 .. last, s \in P : AssignName(table, s, k) \in P
  BY <1>1, AssignKeeps
<1> DEFINE Rec(f) ==
        f = [k \in 0 .. last |-> IF k = 0 THEN Start ELSE AssignName(table, f[k - 1], k)]
<1> DEFINE g == CHOOSE f : Rec(f)
<1>4. Pass1(table) = g[last]
  BY DEF Pass1
<1> HIDE DEF last, P
<1>5. F \in [1 .. last -> [P -> P]]
  BY <1>3
<1> HIDE DEF F
<1>6. PICK f \in [0 .. last -> P] : Recurs(f, last, Start, F)
  BY <1>1, <1>2, <1>5, Recursion
<1>7. \A k \in 0 .. last : f[k] = IF k = 0 THEN Start ELSE AssignName(table, f[k - 1], k)
  <2>1. \A k \in 0 .. last : k = 0 \/ (k \in 1 .. last /\ k - 1 \in 0 .. last)
    BY <1>1
  <2>2. \A k \in 1 .. last : f[k - 1] \in P
    <3>1. \A k \in 1 .. last : k - 1 \in 0 .. last
      BY <1>1
    <3> QED BY <1>6, <3>1
  <2>3. \A k \in 1 .. last : F[k][f[k - 1]] = AssignName(table, f[k - 1], k)
    BY <2>2 DEF F
  <2> QED BY <1>6, <2>1, <2>3 DEF Recurs
<1>8. Rec(f)
  <2>1. f = [k \in 0 .. last |-> f[k]]
    BY <1>6
  <2> QED BY <1>7, <2>1
<1>9. Rec(g)
  BY <1>8
<1> HIDE DEF g
<1>10. g[0] = Start /\ \A k \in 1 .. last : g[k] = AssignName(table, g[k - 1], k)
  <2>1. 0 \in 0 .. last /\ \A k \in 1 .. last : k \in 0 .. last /\ k # 0
    BY <1>1
  <2>2. \A k \in 0 .. last : g[k] = IF k = 0 THEN Start ELSE AssignName(table, g[k - 1], k)
    BY <1>9
  <2> QED BY <2>1, <2>2
<1> QED BY <1>1, <1>4, <1>10 DEF last

\* Pass 1 as a whole.
LEMMA Pass1Result ==
    ASSUME NEW table, WellFormed(table)
    PROVE  /\ Pass1(table) \in PassStates
           /\ Pass1(table).ok => Pass1Inv(table, Pass1(table), Max(DOMAIN table))
<1> DEFINE last == Max(DOMAIN table)
<1>1. PICK g :
          /\ g[0] = Start /\ Pass1(table) = g[last]
          /\ \A k \in 1 .. last : g[k] = AssignName(table, g[k - 1], k)
  BY Pass1Visits
<1>2. last \in Nat /\ \A k \in 1 .. last : k \in TableNames
  <2>1. last \in TableNames
    BY Pass1Visits
  <2> HIDE DEF last
  <2> QED BY <2>1 DEF TableNames
<1>3. Start \in PassStates
  BY StartIsState
<1> HIDE DEF last
<1> DEFINE T == {k \in 0 .. last : g[k] \in PassStates /\ (g[k].ok => Pass1Inv(table, g[k], k))}
<1>4. 0 \in T
  <2>1. Pass1Inv(table, Start, 0)
    <3>1. DOMAIN << >> = {} /\ Len(<< >>) = 0 /\ 1 .. 0 = {}
      OBVIOUS
    <3>2. Start.tasks = << >> /\ Start.owner = << >>
      BY DEF Start
    <3>3. \A n \in Declaring(table) : ~(n <= 0)
      BY DEF Declaring, WellFormed, IsTable, TableNames
    <3> QED BY <3>1, <3>2, <3>3 DEF Pass1Inv, TasksInv
  <2>2. 0 \in 0 .. last
    BY <1>2
  <2> QED BY <1>3, <1>1, <2>1, <2>2
<1>5. ASSUME NEW k \in 0 .. last - 1, k \in T PROVE k + 1 \in T
  <2>1. k + 1 \in 1 .. last /\ k + 1 \in 0 .. last /\ (k + 1) - 1 = k
    BY <1>2
  <2>2. g[k + 1] = AssignName(table, g[k], k + 1) /\ k + 1 \in TableNames
    BY <1>2, <1>1, <2>1
  <2>3. g[k] \in PassStates /\ (g[k].ok => Pass1Inv(table, g[k], (k + 1) - 1))
    BY <1>5, <2>1
  <2> HIDE DEF T
  <2>4. /\ g[k + 1] \in PassStates
        /\ g[k + 1].ok => Pass1Inv(table, g[k + 1], k + 1)
    <3> DEFINE j == k + 1
    <3>1. /\ g[j] = AssignName(table, g[k], j) /\ j \in TableNames
          /\ g[k].ok => Pass1Inv(table, g[k], j - 1)
      BY <2>2, <2>3
    <3> HIDE DEF j
    <3>2. g[j] \in PassStates /\ (g[j].ok => Pass1Inv(table, g[j], j))
      BY <2>3, <3>1, AssignKeeps
    <3> QED BY <3>2 DEF j
  <2> QED BY <2>1, <2>4 DEF T
<1> HIDE DEF T
<1>6. \A k \in 0 .. last : k \in T
  BY <1>2, <1>4, <1>5, UpTo
<1>7. last \in T
  BY <1>2, <1>6
<1> QED BY <1>1, <1>7 DEF T, last

\* So does pass 1b.
LEMMA Pass1bVisits ==
    ASSUME NEW table, WellFormed(table)
    PROVE  /\ Max(DOMAIN table) \in TableNames
           /\ \E g :
                  /\ g[0] = Pass1(table) /\ AssignTasks(table) = g[Max(DOMAIN table)]
                  /\ \A k \in 1 .. Max(DOMAIN table) : g[k] = ClaimStray(table, g[k - 1], k)
<1> DEFINE last == Max(DOMAIN table)
<1> DEFINE P == PassStates
<1> DEFINE F == [k \in 1 .. last |-> [s \in P |-> ClaimStray(table, s, k)]]
<1>1. last \in TableNames /\ last \in Nat /\ \A k \in 1 .. last : k \in TableNames
  <2>1. last \in DOMAIN table
    BY LastName DEF WellFormed, IsTable, TableNames
  <2> HIDE DEF last
  <2> QED BY <2>1 DEF WellFormed, IsTable, TableNames
<1>2. Pass1(table) \in P
  BY Pass1Result
<1>3. \A k \in 1 .. last, s \in P : ClaimStray(table, s, k) \in P
  BY <1>1, ClaimKeeps
<1> DEFINE Rec(f) ==
        f = [k \in 0 .. last |-> IF k = 0 THEN Pass1(table) ELSE ClaimStray(table, f[k - 1], k)]
<1> DEFINE g == CHOOSE f : Rec(f)
<1>4. AssignTasks(table) = g[last]
  BY DEF AssignTasks
<1> HIDE DEF last, P
<1>5. F \in [1 .. last -> [P -> P]]
  BY <1>3
<1> HIDE DEF F
<1>6. PICK f \in [0 .. last -> P] : Recurs(f, last, Pass1(table), F)
  BY <1>1, <1>2, <1>5, Recursion
<1>7. \A k \in 0 .. last : f[k] = IF k = 0 THEN Pass1(table) ELSE ClaimStray(table, f[k - 1], k)
  <2>1. \A k \in 0 .. last : k = 0 \/ (k \in 1 .. last /\ k - 1 \in 0 .. last)
    BY <1>1
  <2>2. \A k \in 1 .. last : f[k - 1] \in P
    <3>1. \A k \in 1 .. last : k - 1 \in 0 .. last
      BY <1>1
    <3> QED BY <1>6, <3>1
  <2>3. \A k \in 1 .. last : F[k][f[k - 1]] = ClaimStray(table, f[k - 1], k)
    BY <2>2 DEF F
  <2> QED BY <1>6, <2>1, <2>3 DEF Recurs
<1>8. Rec(f)
  <2>1. f = [k \in 0 .. last |-> f[k]]
    BY <1>6
  <2> QED BY <1>7, <2>1
<1>9. Rec(g)
  BY <1>8
<1> HIDE DEF g
<1>10. g[0] = Pass1(table) /\ \A k \in 1 .. last : g[k] = ClaimStray(table, g[k - 1], k)
  <2>1. 0 \in 0 .. last /\ \A k \in 1 .. last : k \in 0 .. last /\ k # 0
    BY <1>1
  <2>2. \A k \in 0 .. last : g[k] = IF k = 0 THEN Pass1(table) ELSE ClaimStray(table, g[k - 1], k)
    BY <1>9
  <2> QED BY <2>1, <2>2
<1> QED BY <1>1, <1>4, <1>10 DEF last

\* Both passes.
LEMMA PassesResult ==
    ASSUME NEW table, WellFormed(table)
    PROVE  /\ AssignTasks(table) \in PassStates
           /\ AssignTasks(table).ok => Pass2Inv(table, AssignTasks(table), Max(DOMAIN table))
<1> DEFINE last == Max(DOMAIN table)
<1>1. PICK g :
          /\ g[0] = Pass1(table) /\ AssignTasks(table) = g[last]
          /\ \A k \in 1 .. last : g[k] = ClaimStray(table, g[k - 1], k)
  BY Pass1bVisits
<1>2. last \in Nat /\ \A k \in 1 .. last : k \in TableNames
  <2>1. last \in TableNames
    BY Pass1bVisits
  <2> HIDE DEF last
  <2> QED BY <2>1 DEF TableNames
<1>3. Pass1(table) \in PassStates
  BY Pass1Result
<1> HIDE DEF last
<1> DEFINE T == {k \in 0 .. last : g[k] \in PassStates /\ (g[k].ok => Pass2Inv(table, g[k], k))}
<1>4. 0 \in T
  <2>1. Pass1(table).ok => Pass2Inv(table, Pass1(table), 0)
    <3> SUFFICES ASSUME Pass1(table).ok PROVE Pass2Inv(table, Pass1(table), 0)
      OBVIOUS
    <3> DEFINE s == Pass1(table)
    <3>1. Pass1Inv(table, s, Max(DOMAIN table))
      BY Pass1Result
    <3>2. ASSUME NEW n \in DOMAIN s.owner
          PROVE  s.owner[n] \in 1 .. Len(s.tasks) /\ n \in ToSet(Flips(table, s.tasks[s.owner[n]]))
      <4>1. s.owner[n] \in 1 .. Len(s.tasks) /\ n \in CheckedNames(table, s.tasks[s.owner[n]])
        BY <3>1 DEF Pass1Inv
      <4>2. PICK m \in Declaring(table) : IsTaskOf(table, s.tasks[s.owner[n]], m)
        BY <3>1, <4>1 DEF Pass1Inv, TasksInv
      <4> QED BY <4>1, <4>2, FlipsDeclared
    <3>3. ASSUME NEW n \in DOMAIN table, n \in Declaring(table) \/ n <= 0 PROVE n \in DOMAIN s.owner
      <4>1. n <= Max(DOMAIN table) /\ ~(n <= 0)
        BY LastName DEF WellFormed, IsTable, TableNames
      <4> QED BY <3>1, <3>3, <4>1 DEF Pass1Inv
    <3> HIDE DEF s
    <3>4. TasksInv(table, s)
      BY <3>1 DEF Pass1Inv
    <3> QED BY <3>2, <3>3, <3>4 DEF Pass2Inv, s
  <2>2. 0 \in 0 .. last
    BY <1>2
  <2> QED BY <1>3, <1>1, <2>1, <2>2
<1>5. ASSUME NEW k \in 0 .. last - 1, k \in T PROVE k + 1 \in T
  <2>1. k + 1 \in 1 .. last /\ k + 1 \in 0 .. last /\ (k + 1) - 1 = k
    BY <1>2
  <2>2. g[k + 1] = ClaimStray(table, g[k], k + 1) /\ k + 1 \in TableNames
    BY <1>2, <1>1, <2>1
  <2>3. g[k] \in PassStates /\ (g[k].ok => Pass2Inv(table, g[k], (k + 1) - 1))
    BY <1>5, <2>1
  <2> HIDE DEF T
  <2>4. /\ g[k + 1] \in PassStates
        /\ g[k + 1].ok => Pass2Inv(table, g[k + 1], k + 1)
    <3> DEFINE j == k + 1
    <3>1. /\ g[j] = ClaimStray(table, g[k], j) /\ j \in TableNames
          /\ g[k].ok => Pass2Inv(table, g[k], j - 1)
      BY <2>2, <2>3
    <3> HIDE DEF j
    <3>2. g[j] \in PassStates /\ (g[j].ok => Pass2Inv(table, g[j], j))
      BY <2>3, <3>1, ClaimKeeps
    <3> QED BY <3>2 DEF j
  <2> QED BY <2>1, <2>4 DEF T
<1> HIDE DEF T
<1>6. \A k \in 0 .. last : k \in T
  BY <1>2, <1>4, <1>5, UpTo
<1>7. last \in T
  BY <1>2, <1>6
<1> QED BY <1>1, <1>7 DEF T, last

-----------------------------------------------------------------------------
(* The graph. *)

\* What build_graph has of a table when it succeeds.
LEMMA Owned ==
    ASSUME NEW table, WellFormed(table), ~BuildFails(table), NEW s, s = AssignTasks(table)
    PROVE  /\ s \in PassStates /\ TasksInv(table, s)
           /\ Len(s.tasks) \in Nat
           /\ \A t \in 1 .. Len(s.tasks) : s.tasks[t] \in TaskRecs
           /\ \A n \in DOMAIN s.owner :
                  /\ n \in TableNames
                  /\ s.owner[n] \in 1 .. Len(s.tasks)
                  /\ n \in ToSet(Flips(table, s.tasks[s.owner[n]]))
           /\ DOMAIN table \subseteq DOMAIN s.owner
           /\ \A n \in DOMAIN table : UsedConstants(table, n) \subseteq DOMAIN s.owner
<1>1. s \in PassStates /\ s.ok /\ Pass2Inv(table, s, Max(DOMAIN table))
  BY PassesResult DEF BuildFails
<1>2. s.tasks \in Seq(TaskRecs) /\ s.owner \in Owners
  BY <1>1 DEF PassStates
<1>3. Len(s.tasks) \in Nat /\ \A t \in 1 .. Len(s.tasks) : s.tasks[t] \in TaskRecs
  BY <1>2
<1>4. \A n \in DOMAIN s.owner : n \in TableNames
  BY <1>2 DEF Owners
<1>5. \A n \in DOMAIN table : n <= Max(DOMAIN table)
  BY LastName DEF WellFormed, IsTable, TableNames
<1>6. DOMAIN table \subseteq DOMAIN s.owner
  BY <1>1, <1>5 DEF Pass2Inv
<1>7. \A n \in DOMAIN table : UsedConstants(table, n) \subseteq DOMAIN s.owner
  BY DEF BuildFails, Dangling
<1> QED BY <1>1, <1>3, <1>4, <1>6, <1>7 DEF Pass2Inv

\* Different tasks admit different names.
LEMMA FlipsDisjoint ==
    ASSUME NEW table, WellFormed(table), NEW s, TasksInv(table, s),
           NEW t \in 1 .. Len(s.tasks), NEW u \in 1 .. Len(s.tasks),
           NEW x, x \in ToSet(Flips(table, s.tasks[t])), x \in ToSet(Flips(table, s.tasks[u]))
    PROVE  t = u
<1>1. PICK m \in Declaring(table) : IsTaskOf(table, s.tasks[t], m)
  BY DEF TasksInv
<1>2. PICK n \in Declaring(table) : IsTaskOf(table, s.tasks[u], n)
  BY DEF TasksInv
<1>3. x \in Declares(table, m) /\ x \in Declares(table, n)
  BY <1>1, <1>2, FlipsDeclared
<1>4. n \in CheckedNames(table, s.tasks[t]) /\ n \in CheckedNames(table, s.tasks[u])
  BY <1>1, <1>2, <1>3, SharedName, FlipsDeclared
<1> QED BY <1>4 DEF TasksInv

\* One step of Reach.
Following(table, X) == X \cup UNION {UsedConstants(table, n) : n \in X \cap DOMAIN table}

ReachedBy(table, roots, g) ==
    /\ g[0] = roots /\ Reach(table, roots) = g[Cardinality(DOMAIN table)]
    /\ \A k \in 1 .. Cardinality(DOMAIN table) : g[k] = Following(table, g[k - 1])

\* Within a set that contains what its constants use, Reach takes its steps.
LEMMA ReachVisits ==
    ASSUME NEW table, IsFiniteSet(DOMAIN table), NEW C, NEW roots \in SUBSET C,
           \A n \in C \cap DOMAIN table : UsedConstants(table, n) \subseteq C
    PROVE  \E g : ReachedBy(table, roots, g)
<1> DEFINE steps == Cardinality(DOMAIN table)
<1> DEFINE P == SUBSET C
<1> DEFINE F == [k \in 1 .. steps |-> [X \in P |-> Following(table, X)]]
<1> DEFINE Rec(f) == f = [k \in 0 .. steps |-> IF k = 0 THEN roots ELSE Following(table, f[k - 1])]
<1> DEFINE g == CHOOSE f : Rec(f)
<1>1. steps \in Nat
  BY FS_CardinalityType
<1>2. roots \in P
  OBVIOUS
<1>3. \A X \in P : Following(table, X) \in P
  BY DEF Following
<1>4. Reach(table, roots) = g[steps]
  BY DEF Reach, Following
<1> HIDE DEF steps, P
<1>5. F \in [1 .. steps -> [P -> P]]
  BY <1>3
<1> HIDE DEF F
<1>6. PICK f \in [0 .. steps -> P] : Recurs(f, steps, roots, F)
  BY <1>1, <1>2, <1>5, Recursion
<1>7. \A k \in 0 .. steps : f[k] = IF k = 0 THEN roots ELSE Following(table, f[k - 1])
  <2>1. \A k \in 0 .. steps : k = 0 \/ (k \in 1 .. steps /\ k - 1 \in 0 .. steps)
    BY <1>1
  <2>2. \A k \in 1 .. steps : f[k - 1] \in P
    <3>1. \A k \in 1 .. steps : k - 1 \in 0 .. steps
      BY <1>1
    <3> QED BY <1>6, <3>1
  <2>3. \A k \in 1 .. steps : F[k][f[k - 1]] = Following(table, f[k - 1])
    BY <2>2 DEF F
  <2> QED BY <1>6, <2>1, <2>3 DEF Recurs
<1>8. Rec(f)
  <2>1. f = [k \in 0 .. steps |-> f[k]]
    BY <1>6
  <2> QED BY <1>7, <2>1
<1>9. Rec(g)
  BY <1>8
<1> HIDE DEF g
<1>10. g[0] = roots /\ \A k \in 1 .. steps : g[k] = Following(table, g[k - 1])
  <2>1. 0 \in 0 .. steps /\ \A k \in 1 .. steps : k \in 0 .. steps /\ k # 0
    BY <1>1
  <2>2. \A k \in 0 .. steps : g[k] = IF k = 0 THEN roots ELSE Following(table, g[k - 1])
    BY <1>9
  <2> QED BY <2>1, <2>2
<1> QED BY <1>4, <1>10 DEF steps, ReachedBy

\* A set that contains the roots and what its constants use contains
\* everything within reach.
LEMMA ReachInside ==
    ASSUME NEW table, IsFiniteSet(DOMAIN table), NEW C, NEW roots \in SUBSET C,
           \A n \in C \cap DOMAIN table : UsedConstants(table, n) \subseteq C
    PROVE  Reach(table, roots) \subseteq C
<1> DEFINE steps == Cardinality(DOMAIN table)
<1>1. PICK g :
          /\ g[0] = roots /\ Reach(table, roots) = g[steps]
          /\ \A k \in 1 .. steps : g[k] = Following(table, g[k - 1])
  <2>1. \E g : ReachedBy(table, roots, g)
    BY ReachVisits
  <2> QED BY <2>1 DEF ReachedBy
<1>2. steps \in Nat
  BY FS_CardinalityType
<1> HIDE DEF steps
<1> DEFINE T == {k \in 0 .. steps : g[k] \subseteq C}
<1>3. 0 \in T
  BY <1>1, <1>2
<1>4. ASSUME NEW k \in 0 .. steps - 1, k \in T PROVE k + 1 \in T
  <2>1. k + 1 \in 1 .. steps /\ k + 1 \in 0 .. steps /\ (k + 1) - 1 = k
    BY <1>2
  <2>2. g[k + 1] = Following(table, g[k])
    BY <1>1, <2>1
  <2> QED BY <1>4, <2>1, <2>2 DEF Following
<1> HIDE DEF T
<1>5. \A k \in 0 .. steps : k \in T
  BY <1>2, <1>3, <1>4, UpTo
<1>6. steps \in T
  BY <1>2, <1>5
<1> QED BY <1>1, <1>6 DEF T

\* What a constant uses is a set of names.
LEMMA UsedNames ==
    ASSUME NEW table, IsTable(table), NEW n \in DOMAIN table
    PROVE  UsedConstants(table, n) \subseteq TableNames
<1>1. table[n] \in Consts /\ n \in TableNames
  BY DEF IsTable
<1>2. /\ table[n].refs \subseteq TableNames
      /\ table[n].ctors \in Seq(TableNames) /\ table[n].all \in Seq(TableNames)
  BY <1>1 DEF Consts
<1>3. ToSet(table[n].ctors) \subseteq TableNames /\ ToSet(table[n].all) \subseteq TableNames
  BY <1>2 DEF ToSet
<1> QED BY <1>1, <1>2, <1>3 DEF UsedConstants

\* Within reach are the roots and what they use.
LEMMA ReachStarts ==
    ASSUME NEW table, IsTable(table), NEW roots \in SUBSET TableNames
    PROVE  /\ roots \subseteq Reach(table, roots)
           /\ \A n \in roots \cap DOMAIN table :
                  UsedConstants(table, n) \subseteq Reach(table, roots)
<1> DEFINE steps == Cardinality(DOMAIN table)
<1>1. PICK g :
          /\ g[0] = roots /\ Reach(table, roots) = g[steps]
          /\ \A k \in 1 .. steps : g[k] = Following(table, g[k - 1])
  <2>1. \E g : ReachedBy(table, roots, g)
    <3>1. /\ IsFiniteSet(DOMAIN table)
          /\ \A n \in TableNames \cap DOMAIN table : UsedConstants(table, n) \subseteq TableNames
      BY UsedNames DEF IsTable
    <3> QED BY <3>1, ReachVisits
  <2> QED BY <2>1 DEF ReachedBy
<1>2. steps \in Nat /\ steps # 0
  BY FS_CardinalityType, FS_EmptySet DEF IsTable
<1> HIDE DEF steps
<1> DEFINE T == {k \in 1 .. steps : Following(table, roots) \subseteq g[k]}
<1>3. 1 \in T
  BY <1>1, <1>2
<1>4. ASSUME NEW k \in 1 .. steps - 1, k \in T PROVE k + 1 \in T
  <2>1. k + 1 \in 1 .. steps /\ (k + 1) - 1 = k
    BY <1>2
  <2>2. g[k + 1] = Following(table, g[k])
    BY <1>1, <2>1
  <2>3. g[k] \subseteq g[k + 1]
    BY <2>2 DEF Following
  <2> QED BY <1>4, <2>1, <2>3
<1> HIDE DEF T
<1>5. \A k \in 1 .. steps : k \in T
  BY <1>2, <1>3, <1>4, UpTo
<1>6. steps \in T
  BY <1>2, <1>5
<1>7. Following(table, roots) \subseteq Reach(table, roots)
  BY <1>1, <1>6 DEF T
<1> QED BY <1>7 DEF Following

\* The tasks a task depends on are tasks.
LEMMA EdgesAreTasks ==
    ASSUME NEW table, WellFormed(table), ~BuildFails(table), NEW s, s = AssignTasks(table),
           NEW t \in 1 .. Len(s.tasks)
    PROVE  /\ Edges(table, s, t) \subseteq 1 .. Len(s.tasks)
           /\ \A n \in DOMAIN table : \A d \in UsedConstants(table, n) :
                  s.owner[n] = t => s.owner[d] \in Edges(table, s, t) \cup {t}
           /\ s.tasks[t].kind = "quot" =>
                  /\ EqName \in DOMAIN table
                  /\ s.owner[EqName] \in Edges(table, s, t) \cup {t}
<1>1. UseEdges(table, s, t) \subseteq 1 .. Len(s.tasks)
  BY Owned DEF UseEdges
<1>2. ASSUME s.tasks[t].kind = "quot" PROVE EqName \in DOMAIN table
  <2>1. PICK m \in Declaring(table) : IsTaskOf(table, s.tasks[t], m)
    BY Owned DEF TasksInv
  <2>2. table[m].kind \in {"simple", "induct", "quot"}
    BY DEF Declaring, WellFormed, IsTable, Consts, Kinds
  <2> QED BY <1>2, <2>1, <2>2 DEF IsTaskOf
<1>3. EqEdge(s, t) \subseteq 1 .. Len(s.tasks)
  BY <1>2, Owned DEF EqEdge
<1>4. \A n \in DOMAIN table : \A d \in UsedConstants(table, n) :
          s.owner[n] = t => s.owner[d] \in UseEdges(table, s, t) \cup {t}
  BY DEF UseEdges
<1>5. s.tasks[t].kind = "quot" => s.owner[EqName] \in EqEdge(s, t) \cup {t}
  BY DEF EqEdge
<1> QED BY <1>1, <1>2, <1>3, <1>4, <1>5 DEF Edges

\* The fields of the graph made of the tasks of s.
GraphIs(table, s, g) ==
    LET ids == 1 .. Len(s.tasks) IN
    /\ g.size = Len(s.tasks)
    /\ TasksOf(g) = ids
    /\ g.deps = [t \in ids |-> Edges(table, s, t)]
    /\ g.flips = [t \in ids |-> Flips(table, s.tasks[t])]
    /\ g.uses = [t \in ids |-> Lookups(table, s.tasks[t])]
    /\ g.content = [t \in ids |-> Content(table, s.tasks[t])]
    /\ g.quot = [t \in ids |-> s.tasks[t].kind = "quot"]
    /\ g.reduces = [t \in ids |->
             /\ s.tasks[t].kind # "quot"
             /\ \E n \in Lookups(table, s.tasks[t]) \cap DOMAIN table : table[n].kind = "quot"]
    /\ g.units = [t \in ids |-> CheckedCount(s.tasks[t])]

\* build_graph takes each field from the tasks it assigned.
LEMMA GraphFields ==
    ASSUME NEW table
    PROVE  GraphIs(table, AssignTasks(table), BuildGraph(table))
  BY DEF GraphIs, BuildGraph, TasksOf

\* Everything the check of a task looks up belongs to a closed set that
\* contains what the task checks and what its constants use.
LEMMA LookupsInside ==
    ASSUME NEW table, WellFormed(table), ~BuildFails(table), NEW s, s = AssignTasks(table),
           NEW t \in 1 .. Len(s.tasks),
           NEW C, CheckedNames(table, s.tasks[t]) \subseteq C,
           s.tasks[t].kind = "quot" => EqName \in C,
           \A n \in C \cap DOMAIN table : UsedConstants(table, n) \subseteq C
    PROVE  Lookups(table, s.tasks[t]) \subseteq C
<1> DEFINE task1 == s.tasks[t]
<1> DEFINE own == CheckedNames(table, task1)
<1>1. IsFiniteSet(DOMAIN table) /\ task1 \in TaskRecs /\ task1.kind \in TaskKinds
  BY Owned DEF WellFormed, IsTable, TaskRecs
<1>2. PICK m \in Declaring(table) : IsTaskOf(table, task1, m)
  BY Owned DEF TasksInv
<1>3. m \in DOMAIN table /\ table[m].kind \in {"simple", "induct", "quot"}
  BY DEF Declaring, WellFormed, IsTable, Consts, Kinds
<1>4. CASE task1.kind = "simple"
  <2>1. task1.members = <<m>> /\ own = {m}
    <3>1. task1.members = <<m>>
      BY <1>2, <1>3, <1>4 DEF IsTaskOf
    <3> QED BY <1>4, <3>1 DEF CheckedNames, ToSet
  <2>2. table[m].refs \in SUBSET C
    BY <1>3, <2>1 DEF UsedConstants
  <2>3. Reach(table, table[m].refs) \subseteq C
    BY <1>1, <2>2, ReachInside
  <2>4. Lookups(table, task1) = Reach(table, table[m].refs)
    BY <1>4, <2>1 DEF Lookups
  <2> QED BY <2>3, <2>4
<1>5. CASE task1.kind = "block"
  <2>1. Reach(table, own) \subseteq C
    <3>1. own \in SUBSET C
      OBVIOUS
    <3> HIDE DEF own
    <3> QED BY <1>1, <3>1, ReachInside
  <2>2. Lookups(table, task1) = Reach(table, own) \ own
    BY <1>5 DEF Lookups
  <2> QED BY <2>1, <2>2
<1>6. CASE task1.kind = "quot"
  <2>1. Reach(table, own \cup {EqName}) \subseteq C
    <3> DEFINE roots == own \cup {EqName}
    <3>1. roots \in SUBSET C
      BY <1>6
    <3> HIDE DEF roots
    <3>2. Reach(table, roots) \subseteq C
      BY <1>1, <3>1, ReachInside
    <3> QED BY <3>2 DEF roots
  <2>2. Lookups(table, task1) = Reach(table, own \cup {EqName}) \ own
    BY <1>6 DEF Lookups
  <2> QED BY <2>1, <2>2
<1> QED BY <1>1, <1>4, <1>5, <1>6 DEF TaskKinds

\* The ancestors of a task: its dependencies and theirs.
LEMMA AncestorsClosed ==
    ASSUME NEW t \in Tasks
    PROVE  /\ graph.deps[t] \cap Tasks \subseteq Ancestors(t)
           /\ \A u \in Ancestors(t) : graph.deps[u] \cap Tasks \subseteq Ancestors(t)
  BY DEF Ancestors

\* Every lookup of a graph build_graph made is ordered.
LEMMA TableLookups ==
    ASSUME NEW table, WellFormed(table), ~BuildFails(table), graph = BuildGraph(table)
    PROVE  LookupsAreOrdered
<1> DEFINE s == AssignTasks(table)
<1> DEFINE ids == 1 .. Len(s.tasks)
<1>1. /\ Tasks = ids
      /\ \A t \in ids :
            /\ graph.deps[t] = Edges(table, s, t)
            /\ graph.flips[t] = Flips(table, s.tasks[t])
            /\ graph.uses[t] = Lookups(table, s.tasks[t])
            /\ graph.quot[t] = (s.tasks[t].kind = "quot")
            /\ graph.reduces[t] =
                   /\ s.tasks[t].kind # "quot"
                   /\ \E n \in Lookups(table, s.tasks[t]) \cap DOMAIN table : table[n].kind = "quot"
  <2>1. GraphIs(table, s, graph)
    BY GraphFields
  <2> HIDE DEF s
  <2>2. /\ TasksOf(graph) = ids
        /\ graph.deps = [t \in ids |-> Edges(table, s, t)]
        /\ graph.flips = [t \in ids |-> Flips(table, s.tasks[t])]
        /\ graph.uses = [t \in ids |-> Lookups(table, s.tasks[t])]
        /\ graph.quot = [t \in ids |-> s.tasks[t].kind = "quot"]
        /\ graph.reduces = [t \in ids |->
                 /\ s.tasks[t].kind # "quot"
                 /\ \E n \in Lookups(table, s.tasks[t]) \cap DOMAIN table : table[n].kind = "quot"]
    BY <2>1, Zenon DEF GraphIs
  <2>3. Tasks = TasksOf(graph)
    BY DEF Tasks, TasksOf
  <2> HIDE DEF ids
  <2> QED BY <2>2, <2>3
<1>2. /\ \A t \in ids : s.tasks[t] \in TaskRecs
      /\ \A n \in DOMAIN s.owner :
             s.owner[n] \in ids /\ n \in ToSet(Flips(table, s.tasks[s.owner[n]]))
      /\ DOMAIN table \subseteq DOMAIN s.owner /\ TasksInv(table, s)
      /\ \A n \in DOMAIN table : UsedConstants(table, n) \subseteq DOMAIN s.owner
  BY Owned
<1>3. \A t \in ids : NamesOf(graph, t) = ToSet(Flips(table, s.tasks[t]))
  <2> SUFFICES ASSUME NEW t \in ids PROVE NamesOf(graph, t) = ToSet(Flips(table, s.tasks[t]))
    OBVIOUS
  <2>1. PICK m \in Declaring(table) : IsTaskOf(table, s.tasks[t], m)
    BY <1>2 DEF TasksInv
  <2> DEFINE f == Flips(table, s.tasks[t])
  <2>2. f \in Seq(TableNames)
    BY <2>1, FlipsDeclared
  <2>3. graph.flips[t] = f
    BY <1>1
  <2> HIDE DEF f
  <2>4. NamesOf(graph, t) = ToSet(f)
    BY <2>2, <2>3, ToSetElements DEF NamesOf, Elements
  <2> QED BY <2>4 DEF f
<1>4. ASSUME NEW t \in ids
      PROVE  Lookups(table, s.tasks[t]) \subseteq
                 {n \in DOMAIN s.owner : s.owner[n] \in Ancestors(t) \cup {t}}
  <2> DEFINE A == Ancestors(t) \cup {t}
  <2> DEFINE C == {n \in DOMAIN s.owner : s.owner[n] \in A}
  <2>1. \A u \in A : u \in ids /\ Edges(table, s, u) \subseteq A
    <3>1. \A u \in A : u \in ids
      BY <1>1 DEF Ancestors
    <3>2. \A u \in ids : Edges(table, s, u) \subseteq ids
      BY EdgesAreTasks
    <3>3. \A u \in A : Edges(table, s, u) \subseteq A
      BY <1>1, <3>1, <3>2, AncestorsClosed
    <3> QED BY <3>1, <3>3
  <2> HIDE DEF A
  <2>2. t \in A
    BY DEF A
  <2>3. CheckedNames(table, s.tasks[t]) \subseteq C
    BY <1>2, <2>2 DEF TasksInv
  <2>4. ASSUME NEW n \in C \cap DOMAIN table PROVE UsedConstants(table, n) \subseteq C
    <3> SUFFICES ASSUME NEW d \in UsedConstants(table, n) PROVE d \in C
      OBVIOUS
    <3>1. s.owner[n] \in A /\ s.owner[n] \in ids /\ d \in DOMAIN s.owner
      BY <1>2, <2>1
    <3>2. s.owner[d] \in Edges(table, s, s.owner[n]) \cup {s.owner[n]}
      BY <3>1, EdgesAreTasks
    <3> QED BY <2>1, <3>1, <3>2
  <2>5. s.tasks[t].kind = "quot" => EqName \in C
    BY <1>2, <2>1, <2>2, EdgesAreTasks
  <2> HIDE DEF C
  <2>6. Lookups(table, s.tasks[t]) \subseteq C
    BY <2>3, <2>4, <2>5, LookupsInside
  <2> QED BY <2>6 DEF C, A
<1>5. ASSUME NEW t \in Tasks
      PROVE  graph.uses[t] \subseteq UNION {NamesOf(graph, d) : d \in Ancestors(t) \cup {t}}
  <2> SUFFICES ASSUME NEW n \in Lookups(table, s.tasks[t])
               PROVE  \E d \in Ancestors(t) \cup {t} : n \in NamesOf(graph, d)
    BY <1>1
  <2>1. n \in DOMAIN s.owner /\ s.owner[n] \in Ancestors(t) \cup {t}
    BY <1>1, <1>4
  <2> QED BY <1>2, <1>3, <2>1
<1>6. ASSUME NEW t \in Tasks, graph.reduces[t]
      PROVE  \E d \in Ancestors(t) : graph.quot[d]
  <2>1. PICK n \in Lookups(table, s.tasks[t]) \cap DOMAIN table : table[n].kind = "quot"
    BY <1>1, <1>6
  <2>2. n \in DOMAIN s.owner /\ s.owner[n] \in Ancestors(t) \cup {t} /\ s.owner[n] \in ids
    BY <1>1, <1>2, <1>4, <2>1
  <2>3. PICK m \in Declaring(table) : IsTaskOf(table, s.tasks[s.owner[n]], m)
    BY <1>2, <2>2 DEF TasksInv
  <2>4. n \in Declares(table, m)
    BY <1>2, <2>2, <2>3, FlipsDeclared
  <2>5. n \in Declaring(table) /\ n \in Declares(table, n)
    BY <2>1 DEF Declaring, Declares, QuotsOf
  <2>6. table[m].kind = "quot"
    BY <2>1, <2>4, <2>5 DEF WellFormed, SameDeclaration
  <2>7. s.tasks[s.owner[n]].kind = "quot"
    BY <2>3, <2>6 DEF IsTaskOf
  <2>8. s.owner[n] # t
    BY <1>1, <1>6, <2>7
  <2> QED BY <1>1, <2>2, <2>7, <2>8
<1> QED BY <1>5, <1>6 DEF LookupsAreOrdered

\* The graph has the shape the pool relies on.
LEMMA TableGraph ==
    ASSUME NEW table, WellFormed(table), ~BuildFails(table), NEW g, g = BuildGraph(table)
    PROVE  IsGraph(g)
<1> DEFINE s == AssignTasks(table)
<1> DEFINE ids == 1 .. Len(s.tasks)
<1>1. /\ g.size = Len(s.tasks) /\ TasksOf(g) = ids
      /\ g.deps = [t \in ids |-> Edges(table, s, t)]
      /\ g.flips = [t \in ids |-> Flips(table, s.tasks[t])]
      /\ g.uses = [t \in ids |-> Lookups(table, s.tasks[t])]
      /\ g.content = [t \in ids |-> Content(table, s.tasks[t])]
      /\ g.quot \in [ids -> BOOLEAN] /\ g.reduces \in [ids -> BOOLEAN]
      /\ g.units = [t \in ids |-> CheckedCount(s.tasks[t])]
  <2>1. GraphIs(table, s, g)
    BY GraphFields
  <2> HIDE DEF s
  <2>2. /\ g.size = Len(s.tasks) /\ TasksOf(g) = ids
        /\ g.deps = [t \in ids |-> Edges(table, s, t)]
        /\ g.flips = [t \in ids |-> Flips(table, s.tasks[t])]
        /\ g.uses = [t \in ids |-> Lookups(table, s.tasks[t])]
        /\ g.content = [t \in ids |-> Content(table, s.tasks[t])]
        /\ g.quot = [t \in ids |-> s.tasks[t].kind = "quot"]
        /\ g.reduces = [t \in ids |->
                 /\ s.tasks[t].kind # "quot"
                 /\ \E n \in Lookups(table, s.tasks[t]) \cap DOMAIN table : table[n].kind = "quot"]
        /\ g.units = [t \in ids |-> CheckedCount(s.tasks[t])]
    BY <2>1, Zenon DEF GraphIs
  <2> HIDE DEF ids
  <2>3. g.quot \in [ids -> BOOLEAN] /\ g.reduces \in [ids -> BOOLEAN]
    BY <2>2, Zenon
  <2> QED BY <2>2, <2>3
<1>2. /\ Len(s.tasks) \in Nat
      /\ \A t \in ids : s.tasks[t] \in TaskRecs
      /\ TasksInv(table, s)
      /\ DOMAIN s.owner \subseteq TableNames /\ DOMAIN table \subseteq DOMAIN s.owner
      /\ \A n \in DOMAIN table : UsedConstants(table, n) \subseteq DOMAIN s.owner
  BY Owned
<1> HIDE DEF s
<1>3. IsFiniteSet(ids) /\ ids \subseteq Nat
  <2> DEFINE l == Len(s.tasks)
  <2> SUFFICES IsFiniteSet(1 .. l) /\ 1 .. l \subseteq Nat
    OBVIOUS
  <2>1. l \in Nat
    BY <1>2
  <2> HIDE DEF l
  <2> QED BY <2>1, FS_Interval
<1>4. \A t \in ids : Edges(table, s, t) \subseteq ids
  BY EdgesAreTasks DEF s
<1>5. \A t \in ids : Edges(table, s, t) \in SUBSET Nat /\ IsFiniteSet(Edges(table, s, t))
  BY <1>3, <1>4, FS_Subset
<1>6. ASSUME NEW t \in ids
      PROVE  /\ Flips(table, s.tasks[t]) \in Seq(Nat)
             /\ Flips(table, s.tasks[t]) # << >>
             /\ NamesOf(g, t) = ToSet(Flips(table, s.tasks[t]))
  <2>1. PICK m \in Declaring(table) : IsTaskOf(table, s.tasks[t], m)
    BY <1>2 DEF TasksInv
  <2> DEFINE f == Flips(table, s.tasks[t])
  <2>2. f \in Seq(TableNames) /\ m \in ToSet(f)
    BY <2>1, FlipsDeclared
  <2>3. g.flips[t] = f
    BY <1>1
  <2> HIDE DEF f
  <2>4. f # << >>
    BY <2>2 DEF ToSet
  <2>5. f \in Seq(Nat)
    <3>1. f \in [1 .. Len(f) -> TableNames] /\ Len(f) \in Nat
      BY <2>2
    <3>2. f \in [1 .. Len(f) -> Nat]
      BY <3>1 DEF TableNames
    <3> QED BY <3>1, <3>2
  <2>6. NamesOf(g, t) = ToSet(f)
    BY <2>2, <2>3, ToSetElements DEF NamesOf, Elements
  <2> QED BY <2>4, <2>5, <2>6 DEF f
<1>7. \A t, u \in ids : t # u => NamesOf(g, t) \cap NamesOf(g, u) = {}
  <2> SUFFICES ASSUME NEW t \in ids, NEW u \in ids, t # u,
                      NEW n \in NamesOf(g, t), n \in NamesOf(g, u)
               PROVE  FALSE
    OBVIOUS
  <2>1. n \in ToSet(Flips(table, s.tasks[t])) /\ n \in ToSet(Flips(table, s.tasks[u]))
    BY <1>6
  <2> QED BY <1>2, <2>1, FlipsDisjoint
<1>8. \A t \in ids : Lookups(table, s.tasks[t]) \in SUBSET Nat
  <2> SUFFICES ASSUME NEW t \in ids PROVE Lookups(table, s.tasks[t]) \subseteq Nat
    OBVIOUS
  <2> DEFINE C == DOMAIN s.owner
  <2>1. CheckedNames(table, s.tasks[t]) \subseteq C
    BY <1>2 DEF TasksInv
  <2>2. s.tasks[t].kind = "quot" => EqName \in C
    BY <1>2, EdgesAreTasks DEF s
  <2>3. \A n \in C \cap DOMAIN table : UsedConstants(table, n) \subseteq C
    BY <1>2
  <2>4. C \subseteq Nat
    BY <1>2 DEF TableNames
  <2> HIDE DEF C
  <2>5. Lookups(table, s.tasks[t]) \subseteq C
    BY <2>1, <2>2, <2>3, LookupsInside DEF s
  <2> QED BY <2>4, <2>5
<1>9. \A t \in ids : Content(table, s.tasks[t]) \in Contents
  BY DEF Content, Contents
<1>10. \A t \in ids : CheckedCount(s.tasks[t]) \in Nat
  <2> SUFFICES ASSUME NEW t \in ids PROVE CheckedCount(s.tasks[t]) \in Nat
    OBVIOUS
  <2>1. s.tasks[t].members \in Seq(TableNames)
    BY <1>2 DEF TaskRecs
  <2> QED BY <2>1 DEF CheckedCount
<1> HIDE DEF ids
<1>11. /\ g.size \in Nat
       /\ g.deps \in [ids -> SUBSET Nat]
       /\ \A t \in ids : IsFiniteSet(g.deps[t])
       /\ g.flips \in [ids -> Seq(Nat)]
       /\ \A t \in ids : g.flips[t] # << >>
  BY <1>1, <1>2, <1>5, <1>6
<1>12. /\ g.uses \in [ids -> SUBSET Nat]
       /\ g.content \in [ids -> Contents]
       /\ g.units \in [ids -> Nat]
  BY <1>1, <1>8, <1>9, <1>10
<1> QED BY <1>1, <1>7, <1>11, <1>12 DEF IsGraph

\* A failed build has no task, which makes a graph.
LEMMA NoGraphIsGraph == IsGraph(NoGraph)
<1>1. NoGraph.size = 0 /\ TasksOf(NoGraph) = {}
  BY DEF NoGraph, TasksOf
<1>2. << >> \in [{} -> SUBSET Nat] /\ << >> \in [{} -> Seq(Nat)] /\ << >> \in [{} -> Contents]
      /\ << >> \in [{} -> BOOLEAN] /\ << >> \in [{} -> Nat]
  OBVIOUS
<1> QED BY <1>1, <1>2 DEF NoGraph, IsGraph

\* build_graph makes a graph of every table, cyclic and dangling ones
\* included: the pool's assumption on the graphs it is given holds.
THEOREM TablesMakeGraphs ==
    ASSUME NEW table, WellFormed(table)
    PROVE  IsGraph(GraphOf(table))
<1>1. CASE BuildFails(table)
  BY <1>1, NoGraphIsGraph DEF GraphOf
<1>2. CASE ~BuildFails(table)
  BY <1>2, TableGraph DEF GraphOf
<1> QED BY <1>1, <1>2

-----------------------------------------------------------------------------
\* The two checks one after the other: each takes its own steps.
LEMMA BothIsEach == BothSpec => Spec /\ ReplaySpec
<1>1. BothInit => Init /\ ReplayInit
  BY DEF BothInit
<1>2. [BothNext]_<<vars, replayVars>> => [Next]_vars /\ [ReplayNext]_replayVars
  BY DEF BothNext, Replaying, Checking, Rejected
<1> QED BY <1>1, <1>2, PTL DEF BothSpec, Spec, ReplaySpec

\* The graph of a table does not change in a run.
LEMMA LookupsStayOrdered ==
    ASSUME IndInv, [Next]_vars, LookupsAreOrdered
    PROVE  LookupsAreOrdered'
<1>1. graph' = graph /\ Tasks' = Tasks
  BY Writers, Touching
<1>2. \A t \in Tasks : Ancestors(t)' = Ancestors(t)
  BY <1>1 DEF Ancestors
<1> QED BY <1>1, <1>2 DEF LookupsAreOrdered

\* For every table: each constant that a check can look up is declared by a
\* task that its own task transitively waits for, or by its own task.
THEOREM TablesOrderLookups ==
    ASSUME \A table \in Tables : WellFormed(table)
    PROVE  BothSpec => []LookupsAreOrdered
<1>1. BothInit => LookupsAreOrdered
  <2> SUFFICES ASSUME BothInit PROVE LookupsAreOrdered
    OBVIOUS
  <2>1. WellFormed(decoded) /\ graph = GraphOf(decoded)
    BY DEF BothInit, ReplayInit
  <2>2. CASE BuildFails(decoded)
    <3>1. Tasks = {}
      BY <2>1, <2>2 DEF GraphOf, NoGraph, Tasks, TasksOf
    <3> QED BY <3>1 DEF LookupsAreOrdered
  <2>3. CASE ~BuildFails(decoded)
    BY <2>1, <2>3, TableLookups DEF GraphOf
  <2> QED BY <2>2, <2>3
<1>2. IndInv /\ LookupsAreOrdered /\ [Next]_vars => LookupsAreOrdered'
  BY LookupsStayOrdered
<1> QED BY <1>1, <1>2, BothIsEach, Inductive, PTL DEF BothSpec, Spec

\* No declaration needs, for its own check, a name that it declares itself.
NeedsItself(g) == \E t \in TasksOf(g) : g.uses[t] \cap NamesOf(g, t) # {}

\* If no declaration needs itself, every lookup is ordered by a dependency.
LEMMA OrderedLooksBack ==
    ASSUME LookupsAreOrdered, ~NeedsItself(graph)
    PROVE  LooksBack
<1> SUFFICES ASSUME NEW t \in Tasks, NEW n \in graph.uses[t]
             PROVE  \E d \in Ancestors(t) : n \in NamesOf(graph, d)
  BY DEF LookupsAreOrdered, LooksBack
<1>1. PICK d \in Ancestors(t) \cup {t} : n \in NamesOf(graph, d)
  BY DEF LookupsAreOrdered
<1>2. d # t
  BY <1>1 DEF NeedsItself, Tasks
<1> QED BY <1>1, <1>2

\* For every table no declaration of which needs itself: whatever the
\* interleaving, the pool returns the verdict the graph determines, and it
\* behaves as a single thread that takes the tasks in dependency order.
THEOREM TablesAreCheckedExactly ==
    ASSUME \A table \in Tables : WellFormed(table) /\ ~NeedsItself(GraphOf(table))
    PROVE  BothSpec => []VerdictExact /\ ImplementsSequentialCheck
<1>1. BothInit => graph = GraphOf(decoded) /\ ~NeedsItself(graph)
  BY DEF BothInit, ReplayInit
<1>2. IndInv /\ ~NeedsItself(graph) /\ [Next]_vars => ~NeedsItself(graph)'
  BY Writers DEF NeedsItself, TasksOf, NamesOf
<1>3. BothSpec => []~NeedsItself(graph)
  BY <1>1, <1>2, BothIsEach, Inductive, PTL DEF BothSpec, Spec
<1>4. LookupsAreOrdered /\ ~NeedsItself(graph) => LooksBack
  BY OrderedLooksBack
<1>5. BothSpec => []LookupsAreOrdered
  BY TablesOrderLookups
<1> QED BY <1>3, <1>4, <1>5, BothIsEach, VerdictCorrect, PoolIsSequential, PTL

-----------------------------------------------------------------------------
(* Replay: what is given up and what is kept. *)

Stages == {"deps", "block", "quot"}

FrameRecords(table) == [name : DOMAIN table, stage : Stages]

\* What a call under way knows of its name, with the names left to take up.
Knows(table, left, f) ==
    /\ f \in FrameRecords(table)
    /\ f.name \notin left
    /\ f.stage = "block" =>
           /\ table[f.name].kind = "induct"
           /\ ToSet(table[f.name].all) \cap left = {}
           /\ \A m \in ToSet(table[f.name].all) : table[m].kind = "induct"
    /\ f.stage = "quot" => table[f.name].kind = "quot"

Knowing(table, left) == {f \in FrameRecords(table) : Knows(table, left, f)}

StackInv == stack \in Seq(Knowing(decoded, remaining))

\* The constants the comparison at the end reads.
Structural(table) == {n \in DOMAIN table : table[n].kind \in {"ctor", "rec"}}

\* The comments of replay.rs (287-289, 225-231): the lookup of a name that
\* is left always succeeds, and constructors and recursors are never removed
\* because they are read again at the end.
CopiesAreKept == remaining \cup postponed \subseteq constants

KeepInv ==
    /\ remaining \subseteq DOMAIN decoded
    /\ StackInv
    /\ remaining \subseteq constants
    /\ postponed \subseteq Structural(decoded)
    /\ replayed = "running" => Structural(decoded) \subseteq constants
    /\ replayed # "running" => stack = << >> /\ postponed = {}

-----------------------------------------------------------------------------
\* What a call knows stays true as fewer names are left.
LEMMA KnowledgeStays ==
    ASSUME NEW table, NEW left, NEW fewer \in SUBSET left
    PROVE  Knowing(table, left) \subseteq Knowing(table, fewer)
  BY DEF Knowing, Knows

\* Frames of a larger set are frames of the set.
LEMMA SeqGrows ==
    ASSUME NEW S, NEW T, S \subseteq T, NEW s \in Seq(S)
    PROVE  s \in Seq(T)
<1>1. Len(s) \in Nat /\ s \in [1 .. Len(s) -> S]
  OBVIOUS
<1>2. s \in [1 .. Len(s) -> T]
  BY <1>1
<1> QED
  BY <1>1, <1>2, SeqDef

\* A call that is entered or goes on puts its frame before the others.
LEMMA Pushed ==
    ASSUME NEW S, NEW s \in Seq(S), NEW f \in S
    PROVE  <<f>> \o s \in Seq(S)
<1>1. <<f>> \in Seq(S)
  OBVIOUS
<1> QED
  BY <1>1

\* The running call is one of the stack, and so are those below it.
LEMMA Popped ==
    ASSUME NEW S, NEW s \in Seq(S), s # << >>
    PROVE  Head(s) \in S /\ Tail(s) \in Seq(S)
  BY HeadTailProperties

\* The running call, seen through the invariant.
LEMMA CurrentCall ==
    ASSUME StackInv, stack # << >>
    PROVE  /\ Head(stack) \in Knowing(decoded, remaining)
           /\ Tail(stack) \in Seq(Knowing(decoded, remaining))
           /\ Current = Head(stack).name
           /\ Current \in DOMAIN decoded
           /\ Current \notin remaining
           /\ Head(stack).stage \in Stages
<1>1. /\ Head(stack) \in Knowing(decoded, remaining)
      /\ Tail(stack) \in Seq(Knowing(decoded, remaining))
  BY Popped DEF StackInv
<1>2. Head(stack) \in FrameRecords(decoded) /\ Head(stack).name \notin remaining
  BY <1>1 DEF Knowing, Knows
<1> QED
  BY <1>1, <1>2 DEF Current, FrameRecords

-----------------------------------------------------------------------------
\* A call is entered: its name is no longer left.
LEMMA EnterKeeps ==
    ASSUME KeepInv, replayed = "running", NEW n, Enter(n)
    PROVE  KeepInv'
<1>1. /\ n \in remaining /\ remaining' = remaining \ {n}
      /\ stack' = <<Frame(n, "deps")>> \o stack
      /\ decoded' = decoded /\ constants' = constants /\ postponed' = postponed
      /\ replayed' = replayed
  BY DEF Enter
<1>2. Frame(n, "deps") \in Knowing(decoded, remaining')
  BY <1>1 DEF Frame, FrameRecords, Stages, Knowing, Knows, KeepInv
<1>3. Knowing(decoded, remaining) \subseteq Knowing(decoded, remaining')
  BY <1>1, KnowledgeStays
<1>4. stack \in Seq(Knowing(decoded, remaining'))
  BY <1>3, SeqGrows DEF KeepInv, StackInv
<1>5. StackInv'
  BY <1>1, <1>2, <1>4, Pushed DEF StackInv
<1> QED
  BY <1>1, <1>5 DEF KeepInv

\* The running call returns, and only copies go that nobody reads again.
LEMMA ReturnKeeps ==
    ASSUME KeepInv, stack # << >>, stack' = Tail(stack),
           decoded' = decoded, remaining' = remaining, replayed' = replayed,
           postponed' \subseteq Structural(decoded),
           remaining \subseteq constants',
           Structural(decoded) \cap constants \subseteq constants'
    PROVE  KeepInv'
<1>1. StackInv'
  BY CurrentCall DEF KeepInv, StackInv
<1>2. replayed = "running" /\ Structural(decoded) \subseteq constants
  BY DEF KeepInv
<1>3. Structural(decoded) \subseteq constants'
  BY <1>2
<1> QED
  BY <1>1, <1>2, <1>3 DEF KeepInv

\* replay returns and drops everything.
LEMMA DropKeeps ==
    ASSUME NEW verdict \in {"ok", "failed"}, NEW count, Return(verdict, count)
    PROVE  KeepInv'
<1>1. /\ remaining' = {} /\ postponed' = {} /\ stack' = << >> /\ constants' = {}
      /\ replayed' # "running"
  BY DEF Return
<1>2. << >> \in Seq(Knowing(decoded', remaining'))
  OBVIOUS
<1> QED
  BY <1>1, <1>2 DEF KeepInv, StackInv

\* A name is passed over or postponed: no copy goes.
LEMMA SettleKeeps ==
    ASSUME KeepInv, PassOver \/ Postpone
    PROVE  KeepInv'
<1>1. stack # << >> /\ Current \in DOMAIN decoded
  BY CurrentCall DEF PassOver, Postpone, Handles, At, KeepInv
<1>2. CASE PassOver
  BY <1>1, <1>2, ReturnKeeps DEF PassOver, KeepInv
<1>3. CASE Postpone
  <2>1. postponed' \subseteq Structural(decoded)
    BY <1>1, <1>3 DEF Postpone, Handles, Structural, KeepInv
  <2> QED
    BY <1>1, <1>3, <2>1, ReturnKeeps DEF Postpone, KeepInv
<1> QED
  BY <1>2, <1>3

\* The members of a block are taken off the lists together, and the block's
\* call knows it.
LEMMA OpenBlockKeeps ==
    ASSUME KeepInv, OpenBlock
    PROVE  KeepInv'
<1>1. /\ stack # << >> /\ decoded[Current].kind = "induct"
      /\ KeepInv /\ StackInv
  BY DEF OpenBlock, Handles, At, KeepInv
<1>2. CASE GiveUp
  BY <1>2, DropKeeps DEF GiveUp
<1>3. CASE /\ \A m \in Members(Current) : decoded[m].kind = "induct"
           /\ remaining' = remaining \ Members(Current)
           /\ Advance("block")
           /\ UNCHANGED <<decoded, constants, postponed, replayed>>
  <2>1. Frame(Current, "block") \in Knowing(decoded, remaining')
    BY <1>1, <1>3, CurrentCall
    DEF Frame, FrameRecords, Stages, Knowing, Knows, Members
  <2>2. Tail(stack) \in Seq(Knowing(decoded, remaining'))
    BY <1>1, <1>3, CurrentCall, KnowledgeStays, SeqGrows
  <2>3. stack' \in Seq(Knowing(decoded, remaining'))
    BY <1>3, <2>1, <2>2, Pushed DEF Advance
  <2> QED
    BY <1>1, <1>3, <2>3 DEF KeepInv, StackInv
<1> QED
  BY <1>2, <1>3 DEF OpenBlock

\* An inductive block releases its members, which are inductive types and no
\* longer left.
LEMMA AdmitBlockKeeps ==
    ASSUME KeepInv, AdmitBlock
    PROVE  KeepInv'
<1>1. stack # << >> /\ Head(stack).stage = "block" /\ StackInv
  BY DEF AdmitBlock, At, KeepInv
<1>2. CASE GiveUp
  BY <1>2, DropKeeps DEF GiveUp
<1>3. ASSUME NEW declares, Admitted(declares, Members(Current) \cup {Current})
      PROVE  KeepInv'
  <2>1. /\ decoded[Current].kind = "induct" /\ Current \notin remaining
        /\ Members(Current) \cap remaining = {}
        /\ \A m \in Members(Current) : decoded[m].kind = "induct"
    BY <1>1, CurrentCall DEF Knowing, Knows, Members
  <2>2. /\ constants' = constants \ (Members(Current) \cup {Current})
        /\ stack' = Tail(stack) /\ replayed' = replayed
        /\ decoded' = decoded /\ remaining' = remaining /\ postponed' = postponed
    BY <1>3 DEF Admitted
  <2>3. \A n \in Structural(decoded) : n \notin Members(Current) \cup {Current}
    BY <2>1 DEF Structural
  <2>4. /\ Structural(decoded) \cap constants \subseteq constants'
        /\ remaining \subseteq constants'
    BY <2>1, <2>2, <2>3 DEF KeepInv
  <2> QED
    BY <1>1, <2>2, <2>4, ReturnKeeps DEF KeepInv
<1> QED
  BY <1>2, <1>3 DEF AdmitBlock

\* Any other declaration releases its own copy, which is no constructor or
\* recursor.
LEMMA AdmitOneKeeps ==
    ASSUME KeepInv, stack # << >>, decoded[Current].kind \in {"simple", "quot"},
           NEW declares, Admitted(declares, {Current})
    PROVE  KeepInv'
<1>1. Current \notin remaining
  BY CurrentCall DEF KeepInv
<1>2. /\ constants' = constants \ {Current}
      /\ stack' = Tail(stack) /\ replayed' = replayed
      /\ decoded' = decoded /\ remaining' = remaining /\ postponed' = postponed
  BY DEF Admitted
<1>3. Current \notin Structural(decoded)
  BY DEF Structural
<1>4. /\ Structural(decoded) \cap constants \subseteq constants'
      /\ remaining \subseteq constants'
  BY <1>1, <1>2, <1>3 DEF KeepInv
<1> QED
  BY <1>2, <1>4, ReturnKeeps DEF KeepInv

\* A simple declaration is sent.
LEMMA AdmitSimpleKeeps ==
    ASSUME KeepInv, AdmitSimple
    PROVE  KeepInv'
<1>1. stack # << >> /\ decoded[Current].kind = "simple"
  BY DEF AdmitSimple, Handles, At
<1>2. CASE GiveUp
  BY <1>2, DropKeeps DEF GiveUp
<1>3. CASE Admitted({Current}, {Current})
  BY <1>1, <1>3, AdmitOneKeeps
<1> QED
  BY <1>2, <1>3 DEF AdmitSimple

\* The quotient declaration waits for Eq, then it is sent.
LEMMA QuotKeeps ==
    ASSUME KeepInv, OpenQuot \/ AdmitQuot
    PROVE  KeepInv'
<1>1. stack # << >> /\ StackInv
  BY DEF OpenQuot, AdmitQuot, Handles, At, KeepInv
<1>2. CASE OpenQuot
  <2>1. /\ decoded[Current].kind = "quot" /\ Advance("quot")
        /\ decoded' = decoded /\ remaining' = remaining /\ constants' = constants
        /\ postponed' = postponed /\ replayed' = replayed
    BY <1>2 DEF OpenQuot, Handles
  <2>2. Frame(Current, "quot") \in Knowing(decoded, remaining)
    BY <1>1, <2>1, CurrentCall DEF Frame, FrameRecords, Stages, Knowing, Knows
  <2>3. stack' \in Seq(Knowing(decoded, remaining))
    BY <1>1, <2>1, <2>2, CurrentCall, Pushed DEF Advance
  <2> QED
    BY <1>1, <2>1, <2>3 DEF KeepInv, StackInv
<1>3. CASE AdmitQuot
  <2>1. decoded[Current].kind = "quot"
    BY <1>1, <1>3, CurrentCall DEF AdmitQuot, At, Knowing, Knows
  <2>2. CASE GiveUp
    BY <2>2, DropKeeps DEF GiveUp
  <2>3. CASE Admitted(ToSet(QuotNames), {Current})
    BY <1>1, <2>1, <2>3, AdmitOneKeeps
  <2> QED
    BY <1>3, <2>2, <2>3 DEF AdmitQuot
<1> QED
  BY <1>2, <1>3

-----------------------------------------------------------------------------
\* No copy has gone at first.
LEMMA KeepInit == ReplayInit => KeepInv
<1> SUFFICES ASSUME ReplayInit PROVE KeepInv
  OBVIOUS
<1>1. << >> \in Seq(Knowing(decoded, remaining))
  OBVIOUS
<1> QED
  BY <1>1 DEF ReplayInit, KeepInv, StackInv, Structural

\* KeepInv is inductive.
LEMMA KeepStep ==
    ASSUME KeepInv, [ReplayNext]_replayVars
    PROVE  KeepInv'
<1>1. ASSUME NEW n \in remaining, VisitNext(n) PROVE KeepInv'
  BY <1>1, EnterKeeps DEF VisitNext
<1>2. ASSUME NEW n \in remaining, VisitDependency(n) PROVE KeepInv'
  BY <1>2, EnterKeeps DEF VisitDependency, KeepInv
<1>3. CASE PassOver \/ Postpone
  BY <1>3, SettleKeeps
<1>4. CASE AdmitSimple
  BY <1>4, AdmitSimpleKeeps
<1>5. CASE OpenBlock
  BY <1>5, OpenBlockKeeps
<1>6. CASE AdmitBlock
  BY <1>6, AdmitBlockKeeps
<1>7. CASE OpenQuot \/ AdmitQuot
  BY <1>7, QuotKeeps
<1>8. CASE Finish
  BY <1>8, DropKeeps DEF Finish, GiveUp
<1>9. CASE UNCHANGED replayVars
  BY <1>9 DEF replayVars, KeepInv, StackInv
<1> QED
  BY <1>1, <1>2, <1>3, <1>4, <1>5, <1>6, <1>7, <1>8, <1>9 DEF ReplayNext

\* KeepInv holds throughout.
THEOREM CopiesInvariant == ReplaySpec => []KeepInv
  BY KeepInit, KeepStep, PTL DEF ReplaySpec

\* For every table, whatever order its constants are visited in: a name that
\* is left, and a constructor or recursor to be compared, still has its
\* decoded copy, so the fallbacks of replay.rs for a missing one are never
\* taken.
THEOREM DecodedCopiesAreKept == ReplaySpec => []CopiesAreKept
<1>1. KeepInv => CopiesAreKept
  BY DEF KeepInv, CopiesAreKept
<1> QED
  BY <1>1, CopiesInvariant, PTL

-----------------------------------------------------------------------------
(* What replay accepts. *)

\* The declaration of m as it is sent to the kernel, and what it declares.
DeclOf(table, m) ==
    [kind    |-> IF table[m].kind = "induct" THEN "block" ELSE "simple",
     members |-> IF table[m].kind = "induct" THEN table[m].all ELSE <<m>>,
     admits  |-> << >>]

Sends(table, m) == IF table[m].kind = "quot" THEN ToSet(QuotNames) ELSE Declares(table, m)

\* The kernel accepts the declaration of m where the names in S are declared.
SendableDecl(table, m, S) ==
    LET t == DeclOf(table, m) IN
    /\ \A n \in CheckedNames(table, t) : n \in DOMAIN table /\ table[n].good
    /\ Lookups(table, t) \subseteq S
    /\ Lookups(table, t) \cap Sends(table, m) = {}
    /\ table[m].kind = "induct" =>
           \A i \in ToSet(table[m].all) : i \in DOMAIN table /\ table[i].kind = "induct"

Sendable(table, m, S) ==
    IF table[m].kind = "quot" THEN EqName \in S ELSE SendableDecl(table, m, S)

\* Whatever can be sent once S is declared is in S.
ClosedUnderSending(table, S) ==
    \A m \in Declaring(table) : Sendable(table, m, S) => Sends(table, m) \subseteq S

\* Every declared name was sent with its declaration, and replay has declared
\* nothing that could not be sent in some order.
SentInv ==
    \A n \in env : \E m \in Declaring(decoded) :
        n \in Sends(decoded, m) /\ Sends(decoded, m) \subseteq env /\ Sendable(decoded, m, env)

LeastInv == \A S : ClosedUnderSending(decoded, S) => env \subseteq S

\* The names of the calls under way, and those of the blocks they have opened.
CallNames(calls) == {f.name : f \in Elements(calls)}

BlockNames(table, calls) ==
    UNION {ToSet(table[f.name].all) : f \in {g \in Elements(calls) : g.stage = "block"}}

\* No name is lost: each is left, taken up by a call, in an opened block,
\* postponed or declared.
CoverInv ==
    \A n \in DOMAIN decoded :
        \/ n \in remaining \cup opened \cup postponed \cup env \cup BlockNames(decoded, stack)
        \/ decoded[n].kind = "quot" /\ ToSet(QuotNames) \subseteq env

OpenedInv == opened \subseteq CallNames(stack)

StructInv == Structural(decoded) \subseteq remaining \cup opened \cup postponed

RunInv == CoverInv /\ OpenedInv /\ StructInv /\ SentInv /\ LeastInv

\* What replay knows of a table when it returns success: E is what the
\* environment declared.
Declared(table, E) ==
    /\ \A n \in E : \E m \in Declaring(table) :
           n \in Sends(table, m) /\ Sends(table, m) \subseteq E /\ Sendable(table, m, E)
    /\ \A S : ClosedUnderSending(table, S) => E \subseteq S
    /\ \A n \in DOMAIN table :
           n \in E \/ (table[n].kind = "quot" /\ ToSet(QuotNames) \subseteq E)
    /\ \A n \in Structural(table) : n \in E /\ table[n].twin

ReplayInv ==
    /\ KeepInv /\ WellFormed(decoded)
    /\ replayed = "running" => RunInv
    /\ replayed = "ok" => \E E : Declared(decoded, E)

-----------------------------------------------------------------------------
\* More may be sent where more is declared.
LEMMA SendableGrows ==
    ASSUME NEW table, NEW m, NEW S, NEW T, S \subseteq T, Sendable(table, m, S)
    PROVE  Sendable(table, m, T)
  BY DEF Sendable, SendableDecl

\* A call on the stack is the running one or one below it.
LEMMA CallsBelow ==
    ASSUME StackInv, stack # << >>
    PROVE  /\ CallNames(stack) = CallNames(Tail(stack)) \cup {Current}
           /\ BlockNames(decoded, stack) =
                  BlockNames(decoded, Tail(stack)) \cup
                  (IF Head(stack).stage = "block" THEN Members(Current) ELSE {})
<1> DEFINE s == stack
<1> DEFINE K == Knowing(decoded, remaining)
<1>1. s \in Seq(K) /\ s # << >>
  BY DEF StackInv
<1> HIDE DEF s, K
<1>2. Elements(s) = Elements(Tail(s)) \cup {Head(s)}
  <2>1. Len(s) \in Nat /\ Len(s) > 0 /\ Len(Tail(s)) = Len(s) - 1 /\ Head(s) = s[1]
    BY <1>1
  <2>2. \A i \in 1 .. Len(Tail(s)) : Tail(s)[i] = s[i + 1]
    BY <1>1
  <2>3. ASSUME NEW x \in Elements(s) PROVE x \in Elements(Tail(s)) \cup {Head(s)}
    <3>1. PICK i \in 1 .. Len(s) : x = s[i]
      BY DEF Elements
    <3>2. CASE i = 1
      BY <2>1, <3>1, <3>2
    <3>3. CASE i # 1
      <4>1. i - 1 \in 1 .. Len(Tail(s)) /\ (i - 1) + 1 = i
        BY <2>1, <3>3
      <4> QED BY <2>2, <3>1, <4>1 DEF Elements
    <3> QED BY <3>2, <3>3
  <2>4. Head(s) \in Elements(s)
    BY <2>1 DEF Elements
  <2>5. ASSUME NEW x \in Elements(Tail(s)) PROVE x \in Elements(s)
    <3>1. PICK i \in 1 .. Len(Tail(s)) : x = Tail(s)[i]
      BY DEF Elements
    <3>2. i + 1 \in 1 .. Len(s)
      BY <2>1
    <3> QED BY <2>2, <3>1, <3>2 DEF Elements
  <2> QED BY <2>3, <2>4, <2>5
<1>3. Elements(stack) = Elements(Tail(stack)) \cup {Head(stack)}
  BY <1>2 DEF s
<1> QED BY <1>3 DEF CallNames, BlockNames, Current, Members

\* A call put before others.
LEMMA CallsPushed ==
    ASSUME NEW table, NEW S, NEW s \in Seq(S), NEW f \in S
    PROVE  /\ CallNames(<<f>> \o s) = CallNames(s) \cup {f.name}
           /\ BlockNames(table, <<f>> \o s) =
                  BlockNames(table, s) \cup
                  (IF f.stage = "block" THEN ToSet(table[f.name].all) ELSE {})
<1>1. Elements(<<f>> \o s) = Elements(s) \cup {f}
  <2> DEFINE u == <<f>>
  <2>1. u \in Seq(S) /\ Len(u) = 1 /\ u[1] = f
    OBVIOUS
  <2>2. Elements(u) = {f}
    BY <2>1 DEF Elements
  <2> HIDE DEF u
  <2>3. Elements(u \o s) = Elements(s) \cup {f}
    BY <2>1, <2>2, ConcatElements
  <2> QED BY <2>3 DEF u
<1> QED BY <1>1 DEF CallNames, BlockNames

-----------------------------------------------------------------------------
(* The steps of replay. *)

\* What is sent keeps the declarations whole.
LEMMA SendingKeeps ==
    ASSUME SentInv, LeastInv, NEW m \in Declaring(decoded), Sendable(decoded, m, env),
           decoded' = decoded, env' = env \cup Sends(decoded, m)
    PROVE  SentInv' /\ LeastInv'
<1>1. SentInv'
  <2> SUFFICES ASSUME NEW n \in env'
               PROVE  \E i \in Declaring(decoded) :
                          /\ n \in Sends(decoded, i)
                          /\ Sends(decoded, i) \subseteq env'
                          /\ Sendable(decoded, i, env')
    BY DEF SentInv
  <2>1. CASE n \in env
    <3>1. PICK i \in Declaring(decoded) :
              /\ n \in Sends(decoded, i)
              /\ Sends(decoded, i) \subseteq env
              /\ Sendable(decoded, i, env)
      BY <2>1 DEF SentInv
    <3>2. Sendable(decoded, i, env')
      BY <3>1, SendableGrows
    <3> QED BY <3>1, <3>2
  <2>2. CASE n \in Sends(decoded, m)
    <3>1. Sendable(decoded, m, env')
      BY SendableGrows
    <3> QED BY <2>2, <3>1
  <2> QED BY <2>1, <2>2
<1>2. LeastInv'
  <2> SUFFICES ASSUME NEW S, ClosedUnderSending(decoded, S) PROVE env' \subseteq S
    BY DEF LeastInv
  <2>1. env \subseteq S
    BY DEF LeastInv
  <2>2. Sendable(decoded, m, S)
    BY <2>1, SendableGrows
  <2> QED BY <2>1, <2>2 DEF ClosedUnderSending
<1> QED BY <1>1, <1>2

\* Nothing is declared by the other steps.
LEMMA DeclaredStays ==
    ASSUME SentInv, LeastInv, decoded' = decoded, env' = env
    PROVE  SentInv' /\ LeastInv'
  BY DEF SentInv, LeastInv

\* A call is entered.
LEMMA EnterRuns ==
    ASSUME KeepInv, RunInv, NEW n, Enter(n)
    PROVE  RunInv'
<1>1. /\ n \in remaining /\ remaining' = remaining \ {n}
      /\ opened' = opened \cup {n} /\ stack' = <<Frame(n, "deps")>> \o stack
      /\ decoded' = decoded /\ env' = env /\ postponed' = postponed
  BY DEF Enter
<1> DEFINE f == Frame(n, "deps")
<1>2. f \in FrameRecords(decoded) /\ f.name = n /\ f.stage # "block"
  BY <1>1 DEF Frame, FrameRecords, Stages, KeepInv
<1>3. stack \in Seq(FrameRecords(decoded))
  <2>1. Knowing(decoded, remaining) \subseteq FrameRecords(decoded)
    BY DEF Knowing
  <2> QED BY <2>1, SeqGrows DEF KeepInv, StackInv
<1>4. stack' = <<f>> \o stack
  BY <1>1
<1> HIDE DEF f
<1>5. CallNames(stack') = CallNames(stack) \cup {n}
  BY <1>2, <1>3, <1>4, CallsPushed
<1>6. BlockNames(decoded, stack') = BlockNames(decoded, stack)
  <2>1. BlockNames(decoded, <<f>> \o stack) =
            BlockNames(decoded, stack) \cup
            (IF f.stage = "block" THEN ToSet(decoded[f.name].all) ELSE {})
    BY <1>2, <1>3, CallsPushed
  <2> QED BY <1>2, <1>4, <2>1
<1>7. CoverInv'
  BY <1>1, <1>6 DEF RunInv, CoverInv
<1>8. OpenedInv' /\ StructInv'
  BY <1>1, <1>5 DEF RunInv, OpenedInv, StructInv
<1> QED BY <1>1, <1>7, <1>8, DeclaredStays DEF RunInv

\* The running call has nothing to do, or leaves its name to the comparison.
LEMMA SettleRuns ==
    ASSUME KeepInv, RunInv, PassOver \/ Postpone
    PROVE  RunInv'
<1>1. /\ stack # << >> /\ Head(stack).stage = "deps" /\ stack' = Tail(stack)
      /\ decoded' = decoded /\ remaining' = remaining /\ env' = env
  BY DEF PassOver, Postpone, Handles, At
<1>2. /\ CallNames(stack) = CallNames(stack') \cup {Current}
      /\ BlockNames(decoded, stack) = BlockNames(decoded, stack')
  BY <1>1, CallsBelow DEF KeepInv
<1>3. \/ opened' = opened /\ postponed' = postponed /\ Current \notin opened
      \/ opened' = opened \ {Current} /\ postponed' = postponed \cup {Current}
  BY DEF PassOver, Postpone
<1>4. CoverInv'
  BY <1>1, <1>2, <1>3 DEF RunInv, CoverInv
<1>5. OpenedInv' /\ StructInv'
  BY <1>1, <1>2, <1>3 DEF RunInv, OpenedInv, StructInv
<1> QED BY <1>1, <1>4, <1>5, DeclaredStays DEF RunInv

\* The running call goes on to its next stage.
LEMMA AdvanceRuns ==
    ASSUME KeepInv, RunInv, stack # << >>, Head(stack).stage = "deps",
           NEW stage \in Stages, Advance(stage), decoded' = decoded
    PROVE  /\ CallNames(stack') = CallNames(stack)
           /\ BlockNames(decoded, stack') =
                  BlockNames(decoded, stack) \cup (IF stage = "block" THEN Members(Current) ELSE {})
<1> DEFINE f == Frame(Current, stage)
<1> DEFINE r == Tail(stack)
<1>1. r \in Seq(FrameRecords(decoded)) /\ Current \in DOMAIN decoded
  <2>1. Knowing(decoded, remaining) \subseteq FrameRecords(decoded)
    BY DEF Knowing
  <2> QED BY <2>1, CurrentCall, SeqGrows DEF KeepInv
<1>2. f \in FrameRecords(decoded) /\ f.name = Current /\ f.stage = stage
  BY <1>1 DEF Frame, FrameRecords
<1>3. stack' = <<f>> \o r
  BY DEF Advance
<1>4. /\ CallNames(stack) = CallNames(r) \cup {Current}
      /\ BlockNames(decoded, stack) = BlockNames(decoded, r)
  BY CallsBelow DEF KeepInv
<1> HIDE DEF f, r
<1>5. /\ CallNames(stack') = CallNames(r) \cup {Current}
      /\ BlockNames(decoded, stack') =
             BlockNames(decoded, r) \cup
             (IF stage = "block" THEN ToSet(decoded[Current].all) ELSE {})
  <2>1. CallNames(<<f>> \o r) = CallNames(r) \cup {f.name}
    BY <1>1, <1>2, CallsPushed
  <2>2. BlockNames(decoded, <<f>> \o r) =
            BlockNames(decoded, r) \cup
            (IF f.stage = "block" THEN ToSet(decoded[f.name].all) ELSE {})
    BY <1>1, <1>2, CallsPushed
  <2> QED BY <1>2, <1>3, <2>1, <2>2
<1> QED BY <1>4, <1>5 DEF Members

\* A block or the quotient is opened.
LEMMA OpenRuns ==
    ASSUME KeepInv, RunInv, OpenBlock \/ OpenQuot, ~GiveUp
    PROVE  RunInv'
<1>1. stack # << >> /\ Head(stack).stage = "deps"
  BY DEF OpenBlock, OpenQuot, Handles, At
<1>2. CASE OpenBlock
  <2>1. /\ \A m \in Members(Current) : decoded[m].kind = "induct"
        /\ remaining' = remaining \ Members(Current) /\ opened' = opened \ Members(Current)
        /\ Advance("block")
        /\ decoded' = decoded /\ env' = env /\ postponed' = postponed
    BY <1>2 DEF OpenBlock
  <2>2. /\ CallNames(stack') = CallNames(stack)
        /\ BlockNames(decoded, stack') = BlockNames(decoded, stack) \cup Members(Current)
    BY <1>1, <2>1, AdvanceRuns DEF Stages
  <2>3. CoverInv'
    BY <2>1, <2>2 DEF RunInv, CoverInv
  <2>4. \A m \in Members(Current) : m \notin Structural(decoded)
    BY <2>1 DEF Structural
  <2>5. OpenedInv' /\ StructInv'
    BY <2>1, <2>2, <2>4 DEF RunInv, OpenedInv, StructInv
  <2> QED BY <2>1, <2>3, <2>5, DeclaredStays DEF RunInv
<1>3. CASE OpenQuot
  <2>1. /\ remaining' = remaining /\ opened' = opened /\ Advance("quot")
        /\ decoded' = decoded /\ env' = env /\ postponed' = postponed
    BY <1>3 DEF OpenQuot
  <2>2. /\ CallNames(stack') = CallNames(stack)
        /\ BlockNames(decoded, stack') = BlockNames(decoded, stack)
    BY <1>1, <2>1, AdvanceRuns DEF Stages
  <2>3. CoverInv'
    BY <2>1, <2>2 DEF RunInv, CoverInv
  <2>4. OpenedInv' /\ StructInv'
    BY <2>1, <2>2 DEF RunInv, OpenedInv, StructInv
  <2> QED BY <2>1, <2>3, <2>4, DeclaredStays DEF RunInv
<1> QED BY <1>2, <1>3

\* The declaration of the running call is in the environment.
LEMMA AdmittedRuns ==
    ASSUME KeepInv, WellFormed(decoded), RunInv, stack # << >>,
           Current \in Declaring(decoded), Sendable(decoded, Current, env),
           NEW gone, Admitted(Sends(decoded, Current), gone),
           Head(stack).stage = "block" => decoded[Current].kind = "induct"
    PROVE  RunInv'
<1> DEFINE D == Sends(decoded, Current)
<1>1. /\ env' = env \cup D /\ opened' = opened \ {Current} /\ stack' = Tail(stack)
      /\ decoded' = decoded /\ remaining' = remaining /\ postponed' = postponed
  BY DEF Admitted
<1>2. /\ CallNames(stack) = CallNames(stack') \cup {Current}
      /\ BlockNames(decoded, stack) =
             BlockNames(decoded, stack') \cup
             (IF Head(stack).stage = "block" THEN Members(Current) ELSE {})
  BY <1>1, CallsBelow DEF KeepInv
<1>3. Head(stack).stage = "block" => Members(Current) \subseteq D
  BY DEF Sends, Declares, Members
<1>4. Current \in D \/ (decoded[Current].kind = "quot" /\ ToSet(QuotNames) \subseteq D)
  <2>1. CASE decoded[Current].kind = "quot"
    BY <2>1 DEF Sends
  <2>2. CASE decoded[Current].kind = "induct"
    BY <2>2 DEF Sends, Declares, WellFormed, Declaring
  <2>3. CASE decoded[Current].kind \notin {"quot", "induct"}
    BY <2>3 DEF Sends, Declares
  <2> QED BY <2>1, <2>2, <2>3
<1>5. Current \notin Structural(decoded)
  BY DEF Structural, Declaring
<1> HIDE DEF D
<1>6. CoverInv'
  BY <1>1, <1>2, <1>3, <1>4 DEF RunInv, CoverInv
<1>7. OpenedInv' /\ StructInv'
  BY <1>1, <1>2, <1>5 DEF RunInv, OpenedInv, StructInv
<1>8. SentInv' /\ LeastInv'
  BY <1>1, SendingKeeps DEF RunInv, D
<1> QED BY <1>6, <1>7, <1>8 DEF RunInv

\* What the kernel does with a task depends on its kind and its members.
LEMMA SameKernelTask ==
    ASSUME NEW table, NEW t, NEW u, t.kind = u.kind, t.members = u.members
    PROVE  /\ CheckedNames(table, t) = CheckedNames(table, u)
           /\ Lookups(table, t) = Lookups(table, u)
           /\ Survivors(table, t) = Survivors(table, u)
<1>1. CheckedNames(table, t) = CheckedNames(table, u)
  BY DEF CheckedNames
<1>2. Lookups(table, t) = Lookups(table, u)
  BY <1>1 DEF Lookups
<1>3. Survivors(table, t) = Survivors(table, u)
  BY DEF Survivors
<1> QED BY <1>1, <1>2, <1>3

\* A declaration of the kernel is the task of its constant.
LEMMA DeclIsTask ==
    ASSUME NEW table, IsTable(table), NEW m \in Declaring(table), table[m].kind # "quot",
           table[m].kind = "induct" =>
               \A i \in ToSet(table[m].all) : i \in DOMAIN table /\ table[i].kind = "induct"
    PROVE  IsTaskOf(table, DeclOf(table, m), m)
<1> DEFINE t == DeclOf(table, m)
<1>1. m \in DOMAIN table /\ m \in TableNames /\ table[m].all \in Seq(TableNames)
  BY DEF Declaring, IsTable, Consts
<1>2. << >> \in Seq(TableNames) /\ <<m>> \in Seq(TableNames)
  BY <1>1
<1>3. /\ t.kind = (IF table[m].kind = "induct" THEN "block" ELSE "simple")
      /\ t.members = (IF table[m].kind = "induct" THEN table[m].all ELSE <<m>>)
  BY DEF DeclOf
<1>4. t \in TaskRecs
  <2>1. CASE table[m].kind = "induct"
    BY <1>1, <1>2, <2>1 DEF DeclOf, TaskRecs, TaskKinds
  <2>2. CASE table[m].kind # "induct"
    BY <1>1, <1>2, <2>2 DEF DeclOf, TaskRecs, TaskKinds
  <2> QED BY <2>1, <2>2
<1> HIDE DEF t
<1>5. IsTaskOf(table, t, m)
  BY <1>3, <1>4 DEF IsTaskOf
<1> QED BY <1>5 DEF t

\* add_decl accepts a simple declaration.
LEMMA SimpleAccepted ==
    ASSUME NEW m \in Declaring(decoded), decoded[m].kind = "simple",
           NEW t, t.kind = "simple", t.members = <<m>>, Accepts(t, {m})
    PROVE  Sendable(decoded, m, env) /\ Sends(decoded, m) = {m}
<1> DEFINE u == DeclOf(decoded, m)
<1>1. u.kind = "simple" /\ u.members = <<m>>
  BY DEF DeclOf
<1>2. Sends(decoded, m) = {m}
  BY DEF Sends, Declares
<1>3. /\ CheckedNames(decoded, t) = CheckedNames(decoded, u)
      /\ Lookups(decoded, t) = Lookups(decoded, u)
  <2> HIDE DEF u
  <2> QED BY <1>1, SameKernelTask
<1> QED BY <1>2, <1>3 DEF Accepts, Sendable, SendableDecl

\* add_decl accepts a block: it declares the types, the constructors and the
\* recursors of all its members.
LEMMA BlockAccepted ==
    ASSUME WellFormed(decoded), NEW m \in Declaring(decoded), decoded[m].kind = "induct",
           \A i \in ToSet(decoded[m].all) : decoded[i].kind = "induct",
           NEW t, t.kind = "block", t.members = decoded[m].all,
           Accepts(t, ToSet(Survivors(decoded, t)))
    PROVE  /\ Sendable(decoded, m, env)
           /\ Sends(decoded, m) = ToSet(Survivors(decoded, t))
<1> DEFINE u == DeclOf(decoded, m)
<1>1. u.kind = "block" /\ u.members = decoded[m].all
  BY DEF DeclOf
<1>2. \A i \in ToSet(decoded[m].all) : i \in DOMAIN decoded /\ decoded[i].kind = "induct"
  BY DEF Accepts, CheckedNames
<1>3. IsTaskOf(decoded, u, m)
  BY <1>2, DeclIsTask DEF WellFormed
<1>4. /\ CheckedNames(decoded, t) = CheckedNames(decoded, u)
      /\ Lookups(decoded, t) = Lookups(decoded, u)
      /\ Survivors(decoded, t) = Survivors(decoded, u)
  <2> HIDE DEF u
  <2> QED BY <1>1, SameKernelTask
<1>5. ToSet(Survivors(decoded, u)) = Declares(decoded, m)
  <2> HIDE DEF u
  <2> QED BY <1>3, FlipsDeclared
<1>6. Sends(decoded, m) = Declares(decoded, m)
  BY DEF Sends
<1> QED BY <1>2, <1>4, <1>5, <1>6 DEF Accepts, Sendable, SendableDecl

\* A declaration is sent.
LEMMA AdmitRuns ==
    ASSUME KeepInv, WellFormed(decoded), RunInv,
           AdmitSimple \/ AdmitBlock \/ AdmitQuot, ~GiveUp
    PROVE  RunInv'
<1>1. stack # << >> /\ Current = Head(stack).name /\ Current \in DOMAIN decoded
      /\ Head(stack) \in Knowing(decoded, remaining)
  BY CurrentCall DEF AdmitSimple, AdmitBlock, AdmitQuot, Handles, At, KeepInv
<1>2. CASE AdmitSimple
  <2> DEFINE t == [kind |-> "simple", members |-> <<Current>>]
  <2>1. /\ decoded[Current].kind = "simple" /\ Head(stack).stage = "deps"
        /\ Accepts(t, {Current}) /\ Admitted({Current}, {Current})
    BY <1>2 DEF AdmitSimple, Handles, At
  <2>2. Current \in Declaring(decoded) /\ t.kind = "simple" /\ t.members = <<Current>>
    BY <1>1, <2>1 DEF Declaring
  <2> HIDE DEF t
  <2>3. Sendable(decoded, Current, env) /\ Sends(decoded, Current) = {Current}
    BY <2>1, <2>2, SimpleAccepted
  <2> QED BY <1>1, <2>1, <2>2, <2>3, AdmittedRuns
<1>3. CASE AdmitBlock
  <2> DEFINE t == [kind |-> "block", members |-> decoded[Current].all]
  <2> DEFINE gone == Members(Current) \cup {Current}
  <2>1. /\ Head(stack).stage = "block"
        /\ Accepts(t, ToSet(Survivors(decoded, t)))
        /\ Admitted(ToSet(Survivors(decoded, t)), gone)
    BY <1>3 DEF AdmitBlock, At
  <2>2. /\ decoded[Current].kind = "induct"
        /\ \A i \in ToSet(decoded[Current].all) : decoded[i].kind = "induct"
    BY <1>1, <2>1 DEF Knowing, Knows
  <2>3. Current \in Declaring(decoded) /\ t.kind = "block" /\ t.members = decoded[Current].all
    BY <1>1, <2>2 DEF Declaring
  <2> HIDE DEF t, gone
  <2>4. /\ Sendable(decoded, Current, env)
        /\ Sends(decoded, Current) = ToSet(Survivors(decoded, t))
    BY <2>1, <2>2, <2>3, BlockAccepted
  <2> QED BY <1>1, <2>1, <2>2, <2>3, <2>4, AdmittedRuns
<1>4. CASE AdmitQuot
  <2>1. /\ Head(stack).stage = "quot" /\ EqName \in env
        /\ Admitted(ToSet(QuotNames), {Current})
    BY <1>4 DEF AdmitQuot, At
  <2>2. decoded[Current].kind = "quot"
    BY <1>1, <2>1 DEF Knowing, Knows
  <2>3. /\ Current \in Declaring(decoded) /\ Sends(decoded, Current) = ToSet(QuotNames)
        /\ Sendable(decoded, Current, env)
    BY <1>1, <2>1, <2>2 DEF Declaring, Sends, Sendable
  <2> QED BY <1>1, <2>1, <2>3, AdmittedRuns
<1> QED BY <1>2, <1>3, <1>4

\* replay returns success.
LEMMA FinishDeclares ==
    ASSUME KeepInv, RunInv, Finish, ~GiveUp
    PROVE  Declared(decoded, env)
<1>1. /\ stack = << >> /\ remaining = {}
      /\ \A n \in postponed : n \in env /\ decoded[n].twin
  BY DEF Finish
<1>2. CallNames(stack) = {} /\ BlockNames(decoded, stack) = {}
  <2>1. Elements(stack) = {}
    BY <1>1, EmptyElements
  <2> QED BY <2>1 DEF CallNames, BlockNames
<1>3. opened = {}
  BY <1>2 DEF RunInv, OpenedInv
<1>4. \A n \in Structural(decoded) : n \in env /\ decoded[n].twin
  BY <1>1, <1>3 DEF RunInv, StructInv
<1>5. \A n \in DOMAIN decoded :
          n \in env \/ (decoded[n].kind = "quot" /\ ToSet(QuotNames) \subseteq env)
  BY <1>1, <1>2, <1>3 DEF RunInv, CoverInv
<1> QED BY <1>4, <1>5 DEF RunInv, SentInv, LeastInv, Declared

\* replay gives up, and drops everything.
LEMMA GiveUpKeeps ==
    ASSUME WellFormed(decoded), GiveUp
    PROVE  ReplayInv'
<1>1. decoded' = decoded /\ replayed' = "failed"
  BY DEF GiveUp, Return
<1>2. KeepInv'
  BY DropKeeps DEF GiveUp
<1> QED BY <1>1, <1>2 DEF ReplayInv

\* Every step of replay keeps the invariant.
LEMMA ReplayStep ==
    ASSUME ReplayInv, [ReplayNext]_replayVars
    PROVE  ReplayInv'
<1>1. KeepInv /\ WellFormed(decoded)
  BY DEF ReplayInv
<1>2. decoded' = decoded
  BY DEF ReplayNext, VisitNext, VisitDependency, Enter, PassOver, Postpone, AdmitSimple,
         AdmitBlock, AdmitQuot, OpenBlock, OpenQuot, Admitted, Finish, GiveUp, Return, replayVars
<1>3. CASE GiveUp
  BY <1>1, <1>3, GiveUpKeeps
<1>4. CASE UNCHANGED replayVars
  BY <1>4 DEF replayVars, ReplayInv, KeepInv, StackInv, RunInv, CoverInv, OpenedInv, StructInv,
              SentInv, LeastInv
<1>5. CASE ReplayNext /\ ~GiveUp
  <2>1. KeepInv'
    BY <1>1, KeepStep
  <2>2. ASSUME NEW n \in remaining, VisitNext(n) \/ VisitDependency(n) PROVE ReplayInv'
    <3>1. replayed = "running" /\ replayed' = replayed /\ Enter(n)
      BY <1>1, <2>2 DEF VisitNext, VisitDependency, Enter, KeepInv
    <3>2. RunInv'
      BY <1>1, <3>1, EnterRuns DEF ReplayInv
    <3> QED BY <1>1, <1>2, <2>1, <3>1, <3>2 DEF ReplayInv
  <2>3. CASE PassOver \/ Postpone \/ OpenBlock \/ OpenQuot \/ AdmitSimple \/ AdmitBlock \/ AdmitQuot
    <3>1. stack # << >>
      BY <2>3 DEF PassOver, Postpone, OpenBlock, OpenQuot, AdmitSimple, AdmitBlock, AdmitQuot,
                  Handles, At
    <3>2. replayed = "running" /\ RunInv
      BY <1>1, <3>1 DEF ReplayInv, KeepInv
    <3>3. replayed' = replayed
      BY <1>5, <2>3
      DEF PassOver, Postpone, OpenBlock, OpenQuot, AdmitSimple, AdmitBlock, AdmitQuot, Admitted
    <3>4. RunInv'
      BY <1>1, <1>5, <2>3, <3>2, SettleRuns, OpenRuns, AdmitRuns
    <3> QED BY <1>1, <1>2, <2>1, <3>2, <3>3, <3>4 DEF ReplayInv
  <2>4. CASE Finish
    <3>1. replayed = "running" /\ RunInv
      BY <2>4 DEF Finish, ReplayInv
    <3>2. Declared(decoded, env)
      BY <1>1, <1>5, <2>4, <3>1, FinishDeclares
    <3>3. replayed' = "ok"
      BY <1>5, <2>4 DEF Finish, Return
    <3> QED BY <1>1, <1>2, <2>1, <3>2, <3>3 DEF ReplayInv
  <2> QED BY <1>5, <2>2, <2>3, <2>4 DEF ReplayNext
<1> QED BY <1>3, <1>4, <1>5

\* When replay returns success, its environment declared every constant of
\* the table, each with a declaration the kernel accepts.
THEOREM ReplayDeclaresAll ==
    ASSUME \A table \in Tables : WellFormed(table)
    PROVE  ReplaySpec => [](replayed = "ok" => \E E : Declared(decoded, E))
<1>1. ReplayInit => ReplayInv
  <2> SUFFICES ASSUME ReplayInit PROVE ReplayInv
    OBVIOUS
  <2>1. KeepInv
    BY KeepInit
  <2>2. /\ WellFormed(decoded) /\ remaining = DOMAIN decoded /\ opened = {} /\ env = {}
        /\ replayed = "running"
    BY DEF ReplayInit
  <2>3. CoverInv /\ OpenedInv /\ StructInv
    BY <2>2 DEF CoverInv, OpenedInv, StructInv, Structural
  <2>4. SentInv /\ LeastInv
    BY <2>2 DEF SentInv, LeastInv
  <2> QED BY <2>1, <2>2, <2>3, <2>4 DEF ReplayInv, RunInv
<1>2. ReplayInv /\ [ReplayNext]_replayVars => ReplayInv'
  BY ReplayStep
<1>3. ReplayInv => (replayed = "ok" => \E E : Declared(decoded, E))
  BY DEF ReplayInv
<1> QED BY <1>1, <1>2, <1>3, PTL DEF ReplaySpec

-----------------------------------------------------------------------------
(* The graph of a table on which replay succeeds. *)

\* A table that was exported whole and of which replay accepts all.
Acceptable(table, E) ==
    WellFormed(table) /\ Regenerated(table) /\ IsExported(table) /\ Declared(table, E)

\* A declaration declares its own constant.
LEMMA OwnDeclaration ==
    ASSUME NEW table, WellFormed(table), NEW m \in Declaring(table)
    PROVE  m \in Declares(table, m)
<1>1. m \in DOMAIN table
  BY DEF Declaring
<1>2. CASE table[m].kind = "quot"
  BY <1>1, <1>2 DEF Declares, QuotsOf
<1>3. CASE table[m].kind = "induct"
  BY <1>1, <1>3 DEF Declares, WellFormed
<1>4. CASE table[m].kind \notin {"quot", "induct"}
  BY <1>4 DEF Declares
<1> QED BY <1>2, <1>3, <1>4

\* Two constants that one declaration declares are declared the same way.
LEMMA OneDeclaration ==
    ASSUME NEW table, WellFormed(table), NEW m \in Declaring(table), NEW n \in Declaring(table),
           NEW x, x \in Declares(table, m), x \in Declares(table, n)
    PROVE  /\ SameDeclaration(table, m, n)
           /\ table[m].kind = table[n].kind
           /\ Declares(table, m) = Declares(table, n)
           /\ Sends(table, m) = Sends(table, n)
           /\ \A S : Sendable(table, m, S) <=> Sendable(table, n, S)
<1>1. SameDeclaration(table, m, n)
  BY DEF WellFormed
<1>2. CASE m = n
  BY <1>1, <1>2
<1>3. CASE table[m].kind = "induct" /\ table[n].kind = "induct" /\ table[m].all = table[n].all
  <2>1. Declares(table, m) = Declares(table, n)
    BY <1>3 DEF Declares
  <2>2. DeclOf(table, m) = DeclOf(table, n)
    BY <1>3 DEF DeclOf
  <2>3. Sends(table, m) = Sends(table, n)
    BY <1>3, <2>1 DEF Sends
  <2> QED BY <1>1, <1>3, <2>1, <2>2, <2>3 DEF Sendable, SendableDecl
<1>4. CASE table[m].kind = "quot" /\ table[n].kind = "quot"
  BY <1>1, <1>4 DEF Declares, Sends, Sendable
<1> QED BY <1>1, <1>2, <1>3, <1>4 DEF SameDeclaration

\* Every declaration is one that the kernel accepted, and together they
\* declare the table.
LEMMA AllDeclared ==
    ASSUME NEW table, NEW E, Acceptable(table, E)
    PROVE  /\ E = DOMAIN table
           /\ \A m \in Declaring(table) :
                  /\ Sendable(table, m, E)
                  /\ Sends(table, m) = Declares(table, m)
                  /\ Declares(table, m) \subseteq E
           /\ \A n \in DOMAIN table : \E m \in Declaring(table) : n \in Declares(table, m)
           /\ QuotsOf(table) # {} => ToSet(QuotNames) = QuotsOf(table)
<1>1. WellFormed(table) /\ Regenerated(table) /\ IsExported(table) /\ Declared(table, E)
  BY DEF Acceptable
<1>2. ASSUME NEW m \in Declaring(table), table[m].kind = "quot"
      PROVE  m \in ToSet(QuotNames) /\ ToSet(QuotNames) \subseteq DOMAIN table
  <2>1. m \in DOMAIN table /\ table[m].twin /\ ToSet(QuotNames) \subseteq DOMAIN table
    BY <1>1, <1>2 DEF Declaring, IsExported
  <2>2. m \in Declares(table, m) \cap DOMAIN table
    BY <1>1, <2>1, OwnDeclaration
  <2> QED BY <1>1, <1>2, <2>1, <2>2 DEF Regenerated
<1>3. QuotsOf(table) \subseteq ToSet(QuotNames)
  BY <1>2 DEF QuotsOf, Declaring
<1>4. \A m \in Declaring(table) : Sends(table, m) = Declares(table, m)
  BY <1>3 DEF Sends, Declares
<1>5. ASSUME NEW m \in Declaring(table)
      PROVE  Sendable(table, m, E) /\ Sends(table, m) \subseteq E
  <2>1. PICK x : x \in E /\ x \in Declares(table, m)
    <3>1. m \in DOMAIN table /\ m \in Declares(table, m)
      BY <1>1, OwnDeclaration DEF Declaring
    <3>2. CASE m \in E
      BY <3>1, <3>2
    <3>3. CASE table[m].kind = "quot" /\ ToSet(QuotNames) \subseteq E
      BY <1>2, <3>1, <3>3
    <3> QED BY <1>1, <3>1, <3>2, <3>3 DEF Declared
  <2>2. PICK i \in Declaring(table) :
            x \in Sends(table, i) /\ Sends(table, i) \subseteq E /\ Sendable(table, i, E)
    BY <1>1, <2>1 DEF Declared
  <2>3. x \in Declares(table, i)
    BY <1>4, <2>2
  <2> QED BY <1>1, <2>1, <2>2, <2>3, OneDeclaration
<1>6. \A m \in Declaring(table) : Declares(table, m) \subseteq DOMAIN table
  <2> SUFFICES ASSUME NEW m \in Declaring(table) PROVE Declares(table, m) \subseteq DOMAIN table
    OBVIOUS
  <2>0. m \in DOMAIN table
    BY DEF Declaring
  <2>1. CASE table[m].kind = "quot"
    BY <1>2, <1>4, <2>1 DEF Sends
  <2>2. CASE table[m].kind = "induct"
    <3> DEFINE t == DeclOf(table, m)
    <3>1. /\ t.kind = "block" /\ t.members = table[m].all
          /\ \A i \in ToSet(table[m].all) : i \in DOMAIN table /\ table[i].kind = "induct"
          /\ \A n \in CheckedNames(table, t) : n \in DOMAIN table
      BY <1>5, <2>2 DEF Sendable, SendableDecl, DeclOf
    <3>2. ToSet(CtorsOf(table, table[m].all)) \subseteq DOMAIN table
      BY <3>1 DEF CheckedNames
    <3>3. table[m].all \in Seq(TableNames)
      BY <1>1, <2>0 DEF WellFormed, IsTable, Consts
    <3>4. ToSet(CtorsOf(table, table[m].all)) =
              UNION {ToSet(table[i].ctors) : i \in ToSet(table[m].all)}
      BY <1>1, <3>1, <3>3, CtorsElements DEF WellFormed
    <3>5. \A i \in ToSet(table[m].all) : ToSet(table[i].recs) \subseteq DOMAIN table
      BY <1>1, <3>1 DEF IsExported
    <3> QED BY <2>2, <3>1, <3>2, <3>4, <3>5 DEF Declares
  <2>3. CASE table[m].kind \notin {"quot", "induct"}
    BY <2>0, <2>3 DEF Declares
  <2> QED BY <2>1, <2>2, <2>3
<1>7. E = DOMAIN table
  <2>1. ASSUME NEW n \in E PROVE n \in DOMAIN table
    <3>1. PICK i \in Declaring(table) : n \in Sends(table, i)
      BY <1>1 DEF Declared
    <3> QED BY <1>4, <1>6, <3>1
  <2>2. ASSUME NEW n \in DOMAIN table PROVE n \in E
    <3>1. n \in E \/ (table[n].kind = "quot" /\ ToSet(QuotNames) \subseteq E)
      BY <1>1 DEF Declared
    <3>2. CASE table[n].kind = "quot" /\ ToSet(QuotNames) \subseteq E
      <4>1. n \in Declaring(table)
        BY <3>2 DEF Declaring
      <4> QED BY <1>2, <3>2, <4>1
    <3> QED BY <3>1, <3>2
  <2> QED BY <2>1, <2>2
<1>8. ASSUME NEW n \in DOMAIN table PROVE \E m \in Declaring(table) : n \in Declares(table, m)
  <2>1. PICK i \in Declaring(table) : n \in Sends(table, i)
    BY <1>1, <1>7 DEF Declared
  <2> QED BY <1>4, <2>1
<1>9. ASSUME QuotsOf(table) # {} PROVE ToSet(QuotNames) \subseteq QuotsOf(table)
  <2>1. PICK q \in QuotsOf(table) : TRUE
    BY <1>9
  <2>2. q \in DOMAIN table /\ q \in Declaring(table) /\ table[q].kind = "quot"
    BY DEF QuotsOf, Declaring
  <2> SUFFICES ASSUME NEW n \in ToSet(QuotNames) PROVE n \in QuotsOf(table)
    OBVIOUS
  <2>3. n \in Declares(table, q) /\ n \in DOMAIN table
    BY <1>2, <2>2 DEF Declares
  <2>4. CASE n \in Declaring(table)
    BY <1>1, <2>2, <2>3, <2>4, OwnDeclaration, OneDeclaration DEF QuotsOf
  <2>5. CASE n \notin Declaring(table)
    <3>1. table[n].kind \in {"ctor", "rec"} /\ n \in Structural(table)
      BY <2>3, <2>5 DEF Declaring, Structural
    <3>2. table[n].twin
      BY <1>1, <3>1 DEF Declared
    <3>3. table[q].kind = "induct"
      BY <1>1, <2>2, <2>3, <3>1, <3>2 DEF Regenerated
    <3> QED BY <2>2, <3>3
  <2> QED BY <2>4, <2>5
<1> QED BY <1>3, <1>4, <1>5, <1>6, <1>7, <1>8, <1>9

\* What a sent block consists of.
LEMMA BlockDeclaration ==
    ASSUME NEW table, NEW E, Acceptable(table, E),
           NEW m \in Declaring(table), table[m].kind = "induct"
    PROVE  /\ \A i \in ToSet(table[m].all) : i \in DOMAIN table /\ table[i].kind = "induct"
           /\ CheckedNames(table, DeclOf(table, m)) = TypesAndCtors(table, m)
           /\ TypesAndCtors(table, m) \subseteq Declares(table, m)
           /\ TypesAndCtors(table, m) \subseteq TableNames
           /\ table[m].all # << >> /\ table[m].all[1] \in TypesAndCtors(table, m)
<1> DEFINE t == DeclOf(table, m)
<1>1. WellFormed(table) /\ IsTable(table) /\ m \in DOMAIN table /\ table[m].all \in Seq(TableNames)
  BY DEF Acceptable, WellFormed, Declaring, IsTable, Consts
<1>2. \A i \in ToSet(table[m].all) : i \in DOMAIN table /\ table[i].kind = "induct"
  BY AllDeclared DEF Sendable, SendableDecl
<1>3. t.kind = "block" /\ t.members = table[m].all
  BY DEF DeclOf
<1>4. ToSet(CtorsOf(table, table[m].all)) =
          UNION {ToSet(table[i].ctors) : i \in ToSet(table[m].all)}
  BY <1>1, <1>2, CtorsElements
<1>5. CheckedNames(table, t) = ToSet(table[m].all) \cup ToSet(CtorsOf(table, table[m].all))
  BY <1>3 DEF CheckedNames
<1>6. CheckedNames(table, t) = TypesAndCtors(table, m)
  BY <1>2, <1>4, <1>5 DEF TypesAndCtors
<1>7. TypesAndCtors(table, m) \subseteq Declares(table, m)
  BY DEF TypesAndCtors, Declares
<1>8. TypesAndCtors(table, m) \subseteq TableNames
  BY <1>1, <1>7, AllDeclared DEF IsTable
<1>9. table[m].all # << >> /\ table[m].all[1] \in ToSet(table[m].all)
  <2> DEFINE q == table[m].all
  <2>1. m \in ToSet(q) /\ q \in Seq(TableNames)
    BY <1>1 DEF WellFormed
  <2> HIDE DEF q
  <2>2. Len(q) \in Nat /\ Len(q) # 0 /\ 1 \in DOMAIN q
    BY <2>1 DEF ToSet
  <2>3. q # << >> /\ q[1] \in ToSet(q)
    BY <2>1, <2>2 DEF ToSet
  <2> QED BY <2>3 DEF q
<1> QED BY <1>2, <1>6, <1>7, <1>8, <1>9 DEF TypesAndCtors

\* The constants a declaration declares are of the kinds it declares.
LEMMA DeclaredKinds ==
    ASSUME NEW table, NEW E, Acceptable(table, E),
           NEW m \in Declaring(table), NEW n \in Declares(table, m)
    PROVE  /\ n \in DOMAIN table
           /\ table[m].kind = "simple" => n = m
           /\ table[m].kind = "quot" => table[n].kind = "quot" /\ n \in ToSet(QuotNames)
           /\ table[m].kind = "induct" =>
                  /\ table[n].twin
                  /\ \/ n \in TypesAndCtors(table, m)
                     \/ table[n].kind = "rec"
<1>1. WellFormed(table) /\ Regenerated(table) /\ IsExported(table) /\ Declared(table, E)
  BY DEF Acceptable
<1>2. n \in DOMAIN table
  BY AllDeclared
<1>3. table[m].kind = "simple" => n = m
  BY DEF Declares
<1>4. ASSUME table[m].kind = "quot" PROVE table[n].kind = "quot" /\ n \in ToSet(QuotNames)
  <2>1. m \in QuotsOf(table)
    BY <1>4 DEF QuotsOf, Declaring
  <2>2. n \in QuotsOf(table) /\ n \in ToSet(QuotNames)
    BY <1>4, <2>1, AllDeclared DEF Declares
  <2> QED BY <2>2 DEF QuotsOf
<1>5. ASSUME table[m].kind = "induct"
      PROVE  table[n].twin /\ (n \in TypesAndCtors(table, m) \/ table[n].kind = "rec")
  <2>1. CASE n \in Declaring(table)
    <3>1. n \in Declares(table, n)
      BY <1>1, <2>1, OwnDeclaration
    <3>2. table[n].kind = "induct" /\ SameDeclaration(table, m, n)
      BY <1>1, <1>5, <2>1, <3>1, OneDeclaration
    <3>3. n \in ToSet(table[m].all)
      BY <1>1, <1>2, <1>5, <3>2 DEF SameDeclaration, WellFormed
    <3> QED BY <1>1, <1>2, <3>2, <3>3 DEF IsExported, TypesAndCtors
  <2>2. CASE n \notin Declaring(table)
    <3>1. table[n].kind \in {"ctor", "rec"} /\ n \in Structural(table)
      BY <1>2, <2>2 DEF Declaring, Structural
    <3>2. table[n].twin
      BY <1>1, <3>1 DEF Declared
    <3>3. CASE table[n].kind = "ctor"
      BY <1>1, <1>2, <3>2, <3>3 DEF Regenerated
    <3> QED BY <3>1, <3>2, <3>3
  <2> QED BY <2>1, <2>2
<1> QED BY <1>2, <1>3, <1>4, <1>5

\* What the constants of a declaration use it declares itself, or it must be
\* declared for the kernel to accept it.
LEMMA UsesInside ==
    ASSUME NEW table, NEW E, Acceptable(table, E),
           NEW m \in Declaring(table), NEW S, Sendable(table, m, S),
           NEW n \in Declares(table, m)
    PROVE  UsedConstants(table, n) \subseteq Declares(table, m) \cup S
<1>1. WellFormed(table) /\ IsTable(table) /\ Regenerated(table) /\ IsExported(table)
  BY DEF Acceptable, WellFormed
<1>2. n \in DOMAIN table /\ m \in DOMAIN table
  BY DeclaredKinds DEF Declaring
<1>3. CASE table[m].kind = "simple"
  <2> DEFINE t == DeclOf(table, m)
  <2> DEFINE refs == table[m].refs
  <2>1. n = m /\ t.kind = "simple" /\ t.members = <<m>>
    BY <1>3, DeclaredKinds DEF DeclOf
  <2>2. Lookups(table, t) \subseteq S
    BY <1>3 DEF Sendable, SendableDecl
  <2>3. Lookups(table, t) = Reach(table, refs)
    BY <2>1 DEF Lookups
  <2>4. refs \in SUBSET TableNames
    BY <1>1, <1>2 DEF IsTable, Consts
  <2>5. UsedConstants(table, n) = refs
    BY <1>3, <2>1 DEF UsedConstants
  <2> HIDE DEF t, refs
  <2>6. refs \subseteq Reach(table, refs)
    BY <1>1, <2>4, ReachStarts
  <2> QED BY <2>2, <2>3, <2>5, <2>6
<1>4. CASE table[m].kind = "induct"
  <2> DEFINE t == DeclOf(table, m)
  <2> DEFINE own == TypesAndCtors(table, m)
  <2>1. /\ own \in SUBSET TableNames /\ own \subseteq Declares(table, m)
        /\ CheckedNames(table, t) = own
    BY <1>4, BlockDeclaration
  <2>2. t.kind = "block"
    BY <1>4 DEF DeclOf
  <2>3. Lookups(table, t) \subseteq S
    BY <1>4 DEF Sendable, SendableDecl
  <2>4. Lookups(table, t) = Reach(table, own) \ own
    BY <2>1, <2>2 DEF Lookups
  <2>5. Reach(table, own) \subseteq Declares(table, m) \cup S
    BY <2>1, <2>3, <2>4
  <2>6. CASE n \in own
    <3> HIDE DEF own
    <3> QED BY <1>1, <1>2, <2>1, <2>5, <2>6, ReachStarts
  <2>7. CASE table[n].kind = "rec"
    <3>1. table[n].twin
      BY <1>4, DeclaredKinds
    <3>2. UsedConstants(table, n) \subseteq Declares(table, m) \cup Reach(table, own)
      BY <1>1, <1>2, <2>7, <3>1 DEF Regenerated
    <3> QED BY <2>5, <3>2
  <2> QED BY <1>4, <2>6, <2>7, DeclaredKinds
<1>5. CASE table[m].kind = "quot"
  <2>1. table[n].kind = "quot" /\ EqName \in S
    BY <1>5, DeclaredKinds DEF Sendable
  <2>2. table[n].twin
    BY <1>1, <1>2, <2>1 DEF IsExported
  <2>3. table[n].refs \subseteq ToSet(QuotNames) \cup {EqName}
    BY <1>1, <1>2, <2>1, <2>2 DEF Regenerated
  <2>4. UsedConstants(table, n) = table[n].refs
    BY <2>1 DEF UsedConstants
  <2> QED BY <1>5, <2>1, <2>3, <2>4 DEF Declares
<1>6. table[m].kind \in {"simple", "induct", "quot"}
  BY <1>1 DEF Declaring, IsTable, Consts, Kinds
<1> QED BY <1>3, <1>4, <1>5, <1>6

\* A visit of pass 1 succeeds.
LEMMA AssignSucceeds ==
    ASSUME NEW table, NEW E, Acceptable(table, E), NEW s \in PassStates, s.ok,
           NEW k \in TableNames
    PROVE  AssignName(table, s, k).ok
<1>1. \A t, names : AddTask(s, t, names).ok
  BY DEF AddTask, PassStates
<1>2. CASE k \in Declaring(table) /\ table[k].kind = "induct" /\ k \notin DOMAIN s.owner
  <2>1. \A i \in ToSet(table[k].all) : i \in DOMAIN table /\ table[i].kind = "induct"
    BY <1>2, BlockDeclaration
  <2>2. AssignName(table, s, k) = AddBlock(table, s, k)
    BY <1>2 DEF AssignName, Declaring
  <2> QED BY <1>1, <2>1, <2>2 DEF AddBlock
<1>3. CASE k \in Declaring(table) /\ table[k].kind = "quot" /\ k \notin DOMAIN s.owner
  <2>1. EqName \in DOMAIN table
    BY <1>3, AllDeclared DEF Sendable
  <2>2. AssignName(table, s, k) = AddQuot(table, s)
    BY <1>3 DEF AssignName, Declaring
  <2> QED BY <1>1, <2>1, <2>2 DEF AddQuot
<1>4. CASE k \in Declaring(table) /\ table[k].kind = "simple" /\ k \notin DOMAIN s.owner
  <2>1. AssignName(table, s, k) = AddSimple(s, k)
    BY <1>4 DEF AssignName, Declaring
  <2> QED BY <1>1, <2>1 DEF AddSimple
<1>5. CASE k \notin Declaring(table) \/ k \in DOMAIN s.owner
  BY <1>5 DEF AssignName, Declaring
<1>6. k \in Declaring(table) => table[k].kind \in {"simple", "induct", "quot"}
  BY DEF Declaring, Acceptable, WellFormed, IsTable, Consts, Kinds
<1> QED BY <1>2, <1>3, <1>4, <1>5, <1>6

\* Pass 1 succeeds.
LEMMA Pass1Succeeds ==
    ASSUME NEW table, NEW E, Acceptable(table, E)
    PROVE  Pass1(table).ok
<1> DEFINE last == Max(DOMAIN table)
<1>1. WellFormed(table)
  BY DEF Acceptable
<1>2. PICK g :
          /\ g[0] = Start /\ Pass1(table) = g[last]
          /\ \A k \in 1 .. last : g[k] = AssignName(table, g[k - 1], k)
  BY <1>1, Pass1Visits
<1>3. last \in Nat /\ \A k \in 1 .. last : k \in TableNames
  <2>1. last \in TableNames
    BY <1>1, Pass1Visits
  <2> HIDE DEF last
  <2> QED BY <2>1 DEF TableNames
<1> HIDE DEF last
<1> DEFINE T == {k \in 0 .. last : g[k] \in PassStates /\ g[k].ok}
<1>4. 0 \in T
  BY <1>2, <1>3, StartIsState DEF Start
<1>5. ASSUME NEW k \in 0 .. last - 1, k \in T PROVE k + 1 \in T
  <2> DEFINE j == k + 1
  <2>1. j \in 1 .. last /\ j \in 0 .. last /\ j - 1 = k
    BY <1>3
  <2> HIDE DEF j
  <2>2. g[j] = AssignName(table, g[k], j) /\ j \in TableNames /\ g[k] \in PassStates /\ g[k].ok
    BY <1>2, <1>3, <1>5, <2>1
  <2>3. g[j] \in PassStates /\ g[j].ok
    BY <1>1, <2>2, AssignKeeps, AssignSucceeds
  <2>4. j \in T
    BY <2>1, <2>3
  <2> QED BY <2>4 DEF j
<1> HIDE DEF T
<1>6. \A k \in 0 .. last : k \in T
  BY <1>3, <1>4, <1>5, UpTo
<1>7. last \in T
  BY <1>3, <1>6
<1> QED BY <1>2, <1>7 DEF T

\* Every declaration has a task, and so have the types and constructors of
\* the blocks.
Assigned(table, s) ==
    /\ Declaring(table) \subseteq DOMAIN s.owner
    /\ \A m \in Declaring(table) :
           table[m].kind = "induct" => TypesAndCtors(table, m) \subseteq DOMAIN s.owner

\* Pass 1 leaves recursors only.
LEMMA Pass1Assigns ==
    ASSUME NEW table, NEW E, Acceptable(table, E)
    PROVE  Assigned(table, Pass1(table))
<1> DEFINE s == Pass1(table)
<1>1. WellFormed(table) /\ IsTable(table)
  BY DEF Acceptable, WellFormed
<1>2. Pass1Inv(table, s, Max(DOMAIN table))
  BY <1>1, Pass1Result, Pass1Succeeds
<1>3. \A n \in DOMAIN table : n <= Max(DOMAIN table)
  BY <1>1, LastName DEF IsTable, TableNames
<1> HIDE DEF s
<1>4. Declaring(table) \subseteq DOMAIN s.owner
  BY <1>2, <1>3 DEF Pass1Inv, Declaring
<1>5. ASSUME NEW m \in Declaring(table), table[m].kind = "induct"
      PROVE  TypesAndCtors(table, m) \subseteq DOMAIN s.owner
  <2> DEFINE t == s.owner[m]
  <2>1. t \in 1 .. Len(s.tasks) /\ m \in CheckedNames(table, s.tasks[t])
    BY <1>2, <1>4 DEF Pass1Inv
  <2>2. PICK i \in Declaring(table) : IsTaskOf(table, s.tasks[t], i)
    BY <1>2, <2>1 DEF Pass1Inv, TasksInv
  <2>3. m \in Declares(table, i) /\ m \in Declares(table, m)
    BY <1>1, <2>1, <2>2, FlipsDeclared, OwnDeclaration
  <2>4. SameDeclaration(table, i, m) /\ table[i].kind = "induct"
    BY <1>1, <1>5, <2>3, OneDeclaration
  <2>5. table[i].all = table[m].all
    BY <1>5, <2>4 DEF SameDeclaration
  <2>6. s.tasks[t].kind = "block" /\ s.tasks[t].members = table[m].all
    BY <2>2, <2>4, <2>5 DEF IsTaskOf
  <2>7. CheckedNames(table, s.tasks[t]) = CheckedNames(table, DeclOf(table, m))
    BY <1>5, <2>6 DEF CheckedNames, DeclOf
  <2>8. CheckedNames(table, s.tasks[t]) = TypesAndCtors(table, m)
    BY <1>5, <2>7, BlockDeclaration
  <2> QED BY <1>2, <2>1, <2>8 DEF Pass1Inv, TasksInv
<1> QED BY <1>4, <1>5 DEF Assigned, s

\* A visit of pass 1b succeeds.
LEMMA ClaimSucceeds ==
    ASSUME NEW table, NEW E, Acceptable(table, E), NEW s \in PassStates, s.ok, Assigned(table, s),
           NEW k \in TableNames, NEW r, r = ClaimStray(table, s, k)
    PROVE  r.ok /\ Assigned(table, r)
<1>1. WellFormed(table) /\ Regenerated(table)
  BY DEF Acceptable
<1>2. CASE k \notin DOMAIN table \/ k \in DOMAIN s.owner
  BY <1>2 DEF ClaimStray
<1>3. CASE k \in DOMAIN table /\ k \notin DOMAIN s.owner
  <2> DEFINE h == BlockHead(table, k)
  <2>1. PICK m \in Declaring(table) : k \in Declares(table, m)
    BY <1>3, AllDeclared
  <2>2. k \notin Declaring(table)
    BY <1>3 DEF Assigned
  <2>3. table[m].kind = "induct"
    <3>1. table[m].kind \in {"simple", "induct", "quot"}
      BY <1>1 DEF Declaring, WellFormed, IsTable, Consts, Kinds
    <3>2. table[m].kind # "simple"
      BY <2>1, <2>2, DeclaredKinds
    <3>3. table[m].kind # "quot"
      BY <1>3, <2>1, <2>2, DeclaredKinds DEF Declaring
    <3> QED BY <3>1, <3>2, <3>3
  <2>4. k \notin TypesAndCtors(table, m)
    BY <1>3, <2>3 DEF Assigned
  <2>5. table[k].kind = "rec" /\ table[k].twin
    BY <2>1, <2>3, <2>4, DeclaredKinds
  <2>6. table[k].all = table[m].all
    BY <1>1, <1>3, <2>1, <2>5 DEF Regenerated
  <2>7. h \in TypesAndCtors(table, m)
    BY <2>3, <2>5, <2>6, BlockDeclaration DEF BlockHead
  <2>8. h \in DOMAIN s.owner
    BY <2>3, <2>7 DEF Assigned
  <2> DEFINE o == s.owner[h]
  <2>9. r = [s EXCEPT !.owner = Claimed(@, {k}, o), !.tasks[o].admits = Append(@, k)]
    BY <1>3, <2>8 DEF ClaimStray
  <2>10. r.ok /\ r.owner = Claimed(s.owner, {k}, o)
    BY <2>9 DEF PassStates
  <2>11. DOMAIN s.owner \subseteq DOMAIN r.owner
    BY <2>10 DEF Claimed
  <2> QED BY <2>10, <2>11 DEF Assigned
<1> QED BY <1>2, <1>3

\* Both passes succeed.
LEMMA PassesSucceed ==
    ASSUME NEW table, NEW E, Acceptable(table, E)
    PROVE  AssignTasks(table).ok
<1> DEFINE last == Max(DOMAIN table)
<1>1. WellFormed(table)
  BY DEF Acceptable
<1>2. PICK g :
          /\ g[0] = Pass1(table) /\ AssignTasks(table) = g[last]
          /\ \A k \in 1 .. last : g[k] = ClaimStray(table, g[k - 1], k)
  BY <1>1, Pass1bVisits
<1>3. last \in Nat /\ \A k \in 1 .. last : k \in TableNames
  <2>1. last \in TableNames
    BY <1>1, Pass1bVisits
  <2> HIDE DEF last
  <2> QED BY <2>1 DEF TableNames
<1> HIDE DEF last
<1> DEFINE T == {k \in 0 .. last : g[k] \in PassStates /\ g[k].ok /\ Assigned(table, g[k])}
<1>4. 0 \in T
  BY <1>1, <1>2, <1>3, Pass1Result, Pass1Succeeds, Pass1Assigns
<1>5. ASSUME NEW k \in 0 .. last - 1, k \in T PROVE k + 1 \in T
  <2> DEFINE j == k + 1
  <2>1. j \in 1 .. last /\ j \in 0 .. last /\ j - 1 = k
    BY <1>3
  <2> HIDE DEF j
  <2>2. /\ g[j] = ClaimStray(table, g[k], j) /\ j \in TableNames
        /\ g[k] \in PassStates /\ g[k].ok /\ Assigned(table, g[k])
    BY <1>2, <1>3, <1>5, <2>1
  <2>3. g[j] \in PassStates /\ g[j].ok /\ Assigned(table, g[j])
    BY <1>1, <2>2, ClaimKeeps, ClaimSucceeds
  <2>4. j \in T
    BY <2>1, <2>3
  <2> QED BY <2>4 DEF j
<1> HIDE DEF T
<1>6. \A k \in 0 .. last : k \in T
  BY <1>3, <1>4, <1>5, UpTo
<1>7. last \in T
  BY <1>3, <1>6
<1> QED BY <1>2, <1>7 DEF T

\* build_graph accepts the table.
LEMMA BuildSucceeds ==
    ASSUME NEW table, NEW E, Acceptable(table, E)
    PROVE  ~BuildFails(table)
<1> DEFINE s == AssignTasks(table)
<1>1. WellFormed(table) /\ IsTable(table)
  BY DEF Acceptable, WellFormed
<1>2. s.ok /\ Pass2Inv(table, s, Max(DOMAIN table))
  BY <1>1, PassesResult, PassesSucceed
<1>3. \A n \in DOMAIN table : n <= Max(DOMAIN table)
  BY <1>1, LastName DEF IsTable, TableNames
<1> HIDE DEF s
<1>4. DOMAIN table \subseteq DOMAIN s.owner
  BY <1>2, <1>3 DEF Pass2Inv
<1>5. ASSUME NEW n \in DOMAIN table PROVE UsedConstants(table, n) \subseteq DOMAIN s.owner
  <2>1. PICK m \in Declaring(table) : n \in Declares(table, m)
    BY AllDeclared
  <2>2. Sendable(table, m, E) /\ Declares(table, m) \subseteq E /\ E = DOMAIN table
    BY AllDeclared
  <2>3. UsedConstants(table, n) \subseteq Declares(table, m) \cup E
    BY <2>1, <2>2, UsesInside
  <2> QED BY <1>4, <2>2, <2>3
<1>6. ~Dangling(table, s)
  BY <1>5 DEF Dangling
<1> QED BY <1>2, <1>6 DEF BuildFails, s

\* The tasks of a table on which replay succeeds: the comparison finds no
\* difference, and no check looks up what its own task declares.
LEMMA TasksAreGood ==
    ASSUME NEW table, NEW E, Acceptable(table, E),
           NEW m \in Declaring(table), NEW t, IsTaskOf(table, t, m)
    PROVE  /\ Content(table, t) = "ok"
           /\ Lookups(table, t) \cap ToSet(Flips(table, t)) = {}
<1>1. WellFormed(table) /\ Regenerated(table) /\ IsExported(table) /\ IsTable(table)
  BY DEF Acceptable, WellFormed
<1>2. /\ ToSet(Flips(table, t)) = Declares(table, m)
      /\ ToSet(Survivors(table, t)) \subseteq Declares(table, m)
      /\ CheckedNames(table, t) \subseteq Declares(table, m)
  BY <1>1, FlipsDeclared
<1>3. Sendable(table, m, E) /\ Sends(table, m) = Declares(table, m)
  BY AllDeclared
<1>4. CASE table[m].kind = "quot"
  <2>1. t.kind = "quot" /\ ToSet(t.members) = QuotsOf(table) /\ m \in QuotsOf(table)
    BY <1>4 DEF IsTaskOf, QuotsOf, Declaring
  <2>2. CheckedNames(table, t) = QuotsOf(table)
    BY <2>1 DEF CheckedNames
  <2>3. Declares(table, m) = QuotsOf(table)
    BY <1>4, <2>1, AllDeclared DEF Declares
  <2>4. \A n \in Declares(table, m) : n \in DOMAIN table /\ table[n].twin /\ table[n].good
    <3> SUFFICES ASSUME NEW n \in Declares(table, m)
                 PROVE  n \in DOMAIN table /\ table[n].twin /\ table[n].good
      OBVIOUS
    <3>1. n \in DOMAIN table /\ table[n].kind = "quot"
      BY <1>4, DeclaredKinds
    <3>2. table[n].twin
      BY <1>1, <3>1 DEF IsExported
    <3> QED BY <1>1, <3>1, <3>2 DEF Regenerated
  <2>5. Content(table, t) = "ok"
    BY <1>2, <2>4 DEF Content
  <2>6. Lookups(table, t) \cap QuotsOf(table) = {}
    BY <2>1, <2>2 DEF Lookups
  <2> QED BY <1>2, <2>3, <2>5, <2>6
<1>5. CASE table[m].kind # "quot"
  <2> DEFINE u == DeclOf(table, m)
  <2>1. t.kind = u.kind /\ t.members = u.members
    <3>1. table[m].kind \in {"simple", "induct", "quot"}
      BY <1>1 DEF Declaring, IsTable, Consts, Kinds
    <3> QED BY <1>5, <3>1 DEF IsTaskOf, DeclOf
  <2>2. SendableDecl(table, m, E)
    BY <1>3, <1>5 DEF Sendable
  <2>3. /\ \A n \in CheckedNames(table, u) : n \in DOMAIN table /\ table[n].good
        /\ Lookups(table, u) \cap Sends(table, m) = {}
    BY <2>2 DEF SendableDecl
  <2> HIDE DEF u
  <2>4. /\ CheckedNames(table, t) = CheckedNames(table, u)
        /\ Lookups(table, t) = Lookups(table, u)
    BY <2>1, SameKernelTask
  <2>5. \A n \in ToSet(Survivors(table, t)) : n \in DOMAIN table /\ table[n].twin
    <3>1. CASE table[m].kind = "induct"
      BY <1>2, <3>1, DeclaredKinds
    <3>2. CASE table[m].kind # "induct"
      <4>1. t.kind = "simple"
        BY <1>5, <2>1, <3>2 DEF u, DeclOf
      <4>2. ToSet(Survivors(table, t)) = {}
        BY <4>1 DEF Survivors, ToSet
      <4> QED BY <4>2
    <3> QED BY <3>1, <3>2
  <2>6. Content(table, t) = "ok"
    BY <2>3, <2>4, <2>5 DEF Content
  <2> QED BY <1>2, <1>3, <2>3, <2>4, <2>6
<1> QED BY <1>4, <1>5

\* Each task owns all that its declaration declares.
LEMMA TaskOwns ==
    ASSUME NEW table, NEW E, Acceptable(table, E), NEW s, s = AssignTasks(table),
           NEW t \in 1 .. Len(s.tasks), NEW m \in Declaring(table), IsTaskOf(table, s.tasks[t], m),
           NEW n \in Declares(table, m)
    PROVE  n \in DOMAIN s.owner /\ s.owner[n] = t
<1>1. WellFormed(table) /\ ~BuildFails(table)
  BY BuildSucceeds DEF Acceptable
<1>2. n \in DOMAIN s.owner
  BY <1>1, DeclaredKinds, Owned
<1>3. s.owner[n] \in 1 .. Len(s.tasks) /\ n \in ToSet(Flips(table, s.tasks[s.owner[n]]))
  BY <1>1, <1>2, Owned
<1>4. n \in ToSet(Flips(table, s.tasks[t]))
  BY <1>1, FlipsDeclared
<1> QED BY <1>1, <1>2, <1>3, <1>4, FlipsDisjoint, Owned

\* A set of tasks that contains every task whose dependencies it contains
\* contains them all: what its tasks declare is closed under sending.
LEMMA TasksAreCheckable ==
    ASSUME NEW table, NEW E, Acceptable(table, E), NEW s, s = AssignTasks(table),
           NEW S, S \subseteq 1 .. Len(s.tasks),
           \A t \in 1 .. Len(s.tasks) : Edges(table, s, t) \subseteq S => t \in S
    PROVE  S = 1 .. Len(s.tasks)
<1> DEFINE N == {n \in DOMAIN table : s.owner[n] \in S}
<1>1. WellFormed(table) /\ ~BuildFails(table)
  BY BuildSucceeds DEF Acceptable
<1>2. ASSUME NEW m \in Declaring(table), Sendable(table, m, N)
      PROVE  Sends(table, m) \subseteq N
  <2> DEFINE t == s.owner[m]
  <2>1. m \in DOMAIN table /\ m \in Declares(table, m)
    BY <1>1, OwnDeclaration DEF Declaring
  <2>2. t \in 1 .. Len(s.tasks) /\ m \in ToSet(Flips(table, s.tasks[t]))
    BY <1>1, <2>1, Owned
  <2>3. PICK i \in Declaring(table) : IsTaskOf(table, s.tasks[t], i)
    BY <1>1, <2>2, Owned DEF TasksInv
  <2>4. m \in Declares(table, i)
    BY <1>1, <2>2, <2>3, FlipsDeclared
  <2>5. /\ Declares(table, m) = Declares(table, i) /\ table[m].kind = table[i].kind
    BY <1>1, <2>1, <2>4, OneDeclaration
  <2> HIDE DEF t
  <2>6. \A n \in Declares(table, m) : n \in DOMAIN table /\ n \in DOMAIN s.owner /\ s.owner[n] = t
    BY <2>2, <2>3, <2>5, TaskOwns, DeclaredKinds
  <2>7. ASSUME NEW n \in DOMAIN table, s.owner[n] = t PROVE n \in Declares(table, m)
    <3>1. n \in DOMAIN s.owner /\ n \in ToSet(Flips(table, s.tasks[t]))
      BY <1>1, <2>7, Owned
    <3> QED BY <1>1, <2>3, <2>5, <3>1, FlipsDeclared
  <2>8. UseEdges(table, s, t) \subseteq S
    <3> SUFFICES ASSUME NEW n \in DOMAIN table, s.owner[n] = t,
                        NEW d \in UsedConstants(table, n), s.owner[d] # t
                 PROVE  s.owner[d] \in S
      BY DEF UseEdges
    <3>1. n \in Declares(table, m)
      BY <2>7
    <3>2. UsedConstants(table, n) \subseteq Declares(table, m) \cup N
      <4> HIDE DEF N
      <4> QED BY <1>2, <3>1, UsesInside
    <3> QED BY <2>6, <3>2
  <2>9. EqEdge(s, t) \subseteq S
    <3>1. CASE s.tasks[t].kind = "quot"
      <4>1. table[i].kind \in {"simple", "induct", "quot"}
        BY <1>1 DEF Declaring, WellFormed, IsTable, Consts, Kinds
      <4>2. table[m].kind = "quot"
        BY <2>3, <2>5, <3>1, <4>1 DEF IsTaskOf
      <4>3. EqName \in N
        BY <1>2, <4>2 DEF Sendable
      <4> QED BY <3>1, <4>3 DEF EqEdge
    <3>2. CASE s.tasks[t].kind # "quot"
      BY <3>2 DEF EqEdge
    <3> QED BY <3>1, <3>2
  <2>10. t \in S
    BY <2>2, <2>8, <2>9 DEF Edges
  <2> QED BY <2>6, <2>10, AllDeclared
<1>3. E \subseteq N /\ E = DOMAIN table
  <2> HIDE DEF N
  <2> QED BY <1>2, AllDeclared DEF ClosedUnderSending, Acceptable, Declared
<1>4. ASSUME NEW t \in 1 .. Len(s.tasks) PROVE t \in S
  <2>1. PICK i \in Declaring(table) : IsTaskOf(table, s.tasks[t], i)
    BY <1>1, Owned DEF TasksInv
  <2>2. i \in DOMAIN table /\ s.owner[i] = t
    BY <1>1, <2>1, OwnDeclaration, TaskOwns DEF Declaring
  <2> QED BY <1>3, <2>2
<1> QED BY <1>4

\* The graph of a table on which replay succeeds: everything can be checked,
\* and nothing in it can be rejected.
LEMMA GraphIsAccepted ==
    ASSUME NEW E, Acceptable(decoded, E), graph = GraphOf(decoded)
    PROVE  /\ ~BuildFails(decoded) /\ ~NeedsItself(graph)
           /\ Checkable = Tasks /\ \A t \in Tasks : graph.content[t] = "ok"
<1> DEFINE table == decoded
<1> DEFINE s == AssignTasks(table)
<1> DEFINE ids == 1 .. Len(s.tasks)
<1>1. WellFormed(table) /\ ~BuildFails(table)
  BY BuildSucceeds DEF Acceptable
<1>2. GraphIs(table, s, graph)
  BY <1>1, GraphFields DEF GraphOf
<1> HIDE DEF s
<1>3. /\ Tasks = ids /\ TasksOf(graph) = ids
      /\ graph.deps = [t \in ids |-> Edges(table, s, t)]
      /\ graph.flips = [t \in ids |-> Flips(table, s.tasks[t])]
      /\ graph.uses = [t \in ids |-> Lookups(table, s.tasks[t])]
      /\ graph.content = [t \in ids |-> Content(table, s.tasks[t])]
  BY <1>2, Zenon DEF GraphIs, Tasks
<1>4. ASSUME NEW t \in ids
      PROVE  graph.content[t] = "ok" /\ graph.uses[t] \cap NamesOf(graph, t) = {}
  <2>1. PICK m \in Declaring(table) : IsTaskOf(table, s.tasks[t], m)
    BY <1>1, Owned DEF TasksInv, s
  <2>2. /\ Content(table, s.tasks[t]) = "ok"
        /\ Lookups(table, s.tasks[t]) \cap ToSet(Flips(table, s.tasks[t])) = {}
    BY <2>1, TasksAreGood
  <2>3. Flips(table, s.tasks[t]) \in Seq(TableNames)
    BY <1>1, <2>1, FlipsDeclared
  <2>4. ToSet(Flips(table, s.tasks[t])) = Elements(Flips(table, s.tasks[t]))
    BY <2>3, ToSetElements
  <2>5. NamesOf(graph, t) = ToSet(Flips(table, s.tasks[t]))
    BY <1>3, <2>4 DEF NamesOf, Elements
  <2> QED BY <1>3, <2>2, <2>5
<1>5. ~NeedsItself(graph)
  BY <1>3, <1>4 DEF NeedsItself
<1>6. ASSUME NEW S \in SUBSET Tasks, ClosedUnderChecking(S) PROVE S = Tasks
  <2>1. S \subseteq ids /\ \A t \in ids : Edges(table, s, t) \subseteq S => t \in S
    BY <1>3, <1>4, <1>6 DEF ClosedUnderChecking
  <2>2. S = ids
    BY <2>1, TasksAreCheckable DEF s
  <2> QED BY <1>3, <2>2
<1>7. Checkable = Tasks
  BY <1>6 DEF Checkable
<1> QED BY <1>1, <1>3, <1>4, <1>5, <1>7

\* For every table in which what equals its twin is what the kernel makes:
\* in whatever order replay visits the constants, and however the pool
\* interleaves, the parallel check rejects no fully exported table that
\* the sequential one accepts.
THEOREM PoolIsNoStricter ==
    ASSUME \A table \in Tables : WellFormed(table) /\ Regenerated(table)
    PROVE  BothSpec => []NoStricterThanReplay
<1> DEFINE Fixed == decoded \in Tables /\ graph = GraphOf(decoded)
<1> DEFINE Right == LooksBack => VerdictExact
<1> DEFINE AllSent == replayed = "ok" => \E E : Declared(decoded, E)
<1>1. BothInit => Fixed
  BY DEF BothInit, ReplayInit
<1>2. Fixed /\ IndInv /\ [BothNext]_<<vars, replayVars>> => Fixed'
  <2> SUFFICES ASSUME Fixed, IndInv, [BothNext]_<<vars, replayVars>> PROVE Fixed'
    OBVIOUS
  <2>1. graph' = graph
    <3>1. [Next]_vars
      BY DEF BothNext, Replaying, Checking, Rejected
    <3> QED BY <3>1, Writers
  <2>2. decoded' = decoded
    BY DEF BothNext, Replaying, Checking, Rejected, ReplayNext, VisitNext, VisitDependency, Enter,
           PassOver, Postpone, AdmitSimple, AdmitBlock, AdmitQuot, OpenBlock, OpenQuot, Admitted,
           Finish, GiveUp, Return, replayVars
  <2> QED BY <2>1, <2>2
<1>3. BothSpec => []Fixed
  BY <1>1, <1>2, BothIsEach, Inductive, PTL DEF BothSpec
<1>4. ASSUME Fixed, Right, LookupsAreOrdered, AllSent PROVE NoStricterThanReplay
  <2> SUFFICES ASSUME PoolRejects, IsExported(decoded), replayed = "ok" PROVE FALSE
    BY DEF NoStricterThanReplay
  <2>1. PICK E : Acceptable(decoded, E)
    BY <1>4 DEF Acceptable
  <2>2. /\ ~BuildFails(decoded) /\ ~NeedsItself(graph)
        /\ Checkable = Tasks /\ \A t \in Tasks : graph.content[t] = "ok"
    BY <1>4, <2>1, GraphIsAccepted
  <2>3. VerdictExact
    BY <1>4, <2>2, OrderedLooksBack
  <2>4. result # Running /\ result.verdict # "ok"
    BY <2>2 DEF PoolRejects
  <2>5. Rejectable = {}
    BY <2>2 DEF Rejectable
  <2> QED BY <2>2, <2>3, <2>4, <2>5 DEF VerdictExact
<1>5. BothSpec => []AllSent
  <2>1. ReplaySpec => []AllSent
    BY ReplayDeclaresAll
  <2> QED BY <2>1, BothIsEach, PTL
<1>6. BothSpec => []Right
  BY BothIsEach, VerdictCorrect, PTL
<1>7. BothSpec => []LookupsAreOrdered
  BY TablesOrderLookups
<1> QED BY <1>3, <1>4, <1>5, <1>6, <1>7, PTL

=============================================================================
