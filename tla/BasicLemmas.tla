----------------------------- MODULE BasicLemmas -----------------------------
(***************************************************************************)
(* What the proofs about the pools and the build need of queues and of     *)
(* numbers: the elements of sequences that hold each of them once, and     *)
(* induction, iteration and recursion on sets of numbers.  The library's   *)
(* theorems take an operator; these take the set of the numbers for which  *)
(* something holds, or the function of the steps.                          *)
(***************************************************************************)
EXTENDS Naturals, Sequences, WellFoundedInduction, TLAPS

Elements(s) == {s[i] : i \in 1 .. Len(s)}

Injective(s) == \A i, j \in 1 .. Len(s) : s[i] = s[j] => i = j

\* The tail of a queue without repetitions has lost exactly its head.
LEMMA TailElements ==
    ASSUME NEW S, NEW s \in Seq(S), s # << >>, Injective(s)
    PROVE  /\ Tail(s) \in Seq(S) /\ Head(s) \in S
           /\ Injective(Tail(s))
           /\ Head(s) \in Elements(s)
           /\ Elements(Tail(s)) = Elements(s) \ {Head(s)}
<1>1. Tail(s) \in Seq(S) /\ Len(Tail(s)) = Len(s) - 1 /\ Len(s) \in Nat \ {0}
  OBVIOUS
<1>2. \A i \in 1 .. Len(Tail(s)) : Tail(s)[i] = s[i + 1]
  OBVIOUS
<1>3. Head(s) = s[1] /\ Head(s) \in S
  OBVIOUS
<1>4. Injective(Tail(s))
  BY <1>1, <1>2 DEF Injective
<1>5. Elements(Tail(s)) \subseteq Elements(s) \ {Head(s)}
  BY <1>1, <1>2, <1>3 DEF Elements, Injective
<1>6. ASSUME NEW i \in 1 .. Len(s), s[i] # Head(s)
      PROVE  s[i] \in Elements(Tail(s))
  <2>1. i # 1 /\ i - 1 \in 1 .. Len(Tail(s)) /\ Tail(s)[i - 1] = s[(i - 1) + 1]
    BY <1>1, <1>2, <1>3, <1>6
  <2>2. s[(i - 1) + 1] = s[i]
    OBVIOUS
  <2> QED BY <2>1, <2>2 DEF Elements
<1>7. Elements(s) \ {Head(s)} \subseteq Elements(Tail(s))
  BY <1>6 DEF Elements
<1>8. Head(s) \in Elements(s)
  BY <1>1, <1>3 DEF Elements
<1> QED BY <1>1, <1>3, <1>4, <1>5, <1>7, <1>8

\* Appending a new element keeps the elements distinct.
LEMMA AppendElements ==
    ASSUME NEW S, NEW s \in Seq(S), NEW e \in S
    PROVE  /\ Append(s, e) \in Seq(S)
           /\ Elements(Append(s, e)) = Elements(s) \cup {e}
           /\ Injective(s) /\ e \notin Elements(s) => Injective(Append(s, e))
<1>1. /\ Append(s, e) \in Seq(S) /\ Len(s) \in Nat /\ Len(Append(s, e)) = Len(s) + 1
      /\ Append(s, e)[Len(s) + 1] = e
      /\ \A i \in 1 .. Len(s) : Append(s, e)[i] = s[i]
  OBVIOUS
<1>2. Elements(Append(s, e)) = Elements(s) \cup {e}
  BY <1>1 DEF Elements
<1>3. Injective(s) /\ e \notin Elements(s) => Injective(Append(s, e))
  BY <1>1 DEF Elements, Injective
<1> QED BY <1>1, <1>2, <1>3

\* Concatenating disjoint sequences keeps the elements distinct.
LEMMA ConcatElements ==
    ASSUME NEW S, NEW s \in Seq(S), NEW r \in Seq(S)
    PROVE  /\ s \o r \in Seq(S)
           /\ Elements(s \o r) = Elements(s) \cup Elements(r)
           /\ Injective(s) /\ Injective(r) /\ Elements(s) \cap Elements(r) = {}
                => Injective(s \o r)
<1>1. /\ s \o r \in Seq(S) /\ Len(s) \in Nat /\ Len(r) \in Nat
      /\ Len(s \o r) = Len(s) + Len(r)
      /\ \A i \in 1 .. Len(s) : (s \o r)[i] = s[i]
      /\ \A i \in Len(s) + 1 .. Len(s) + Len(r) : (s \o r)[i] = r[i - Len(s)]
  OBVIOUS
<1>2. Elements(s \o r) \subseteq Elements(s) \cup Elements(r)
  BY <1>1 DEF Elements
<1>3. Elements(s) \subseteq Elements(s \o r)
  BY <1>1 DEF Elements
<1>4. ASSUME NEW i \in 1 .. Len(r) PROVE r[i] \in Elements(s \o r)
  <2>1. Len(s) + i \in 1 .. Len(s \o r) /\ (s \o r)[Len(s) + i] = r[i]
    BY <1>1
  <2> QED BY <2>1 DEF Elements
<1>5. ASSUME Injective(s), Injective(r), Elements(s) \cap Elements(r) = {},
             NEW i \in 1 .. Len(s \o r), NEW j \in 1 .. Len(s \o r),
             (s \o r)[i] = (s \o r)[j]
      PROVE  i = j
  <2>1. CASE i <= Len(s) /\ j <= Len(s)
    BY <1>1, <1>5, <2>1 DEF Injective
  <2>2. CASE i > Len(s) /\ j > Len(s)
    BY <1>1, <1>5, <2>2 DEF Injective
  <2>3. CASE i <= Len(s) /\ j > Len(s)
    <3>1. (s \o r)[i] \in Elements(s)
      BY <1>1, <2>3 DEF Elements
    <3>2. (s \o r)[j] = r[j - Len(s)] /\ j - Len(s) \in 1 .. Len(r)
      BY <1>1, <2>3
    <3>3. (s \o r)[j] \in Elements(r)
      BY <3>2 DEF Elements
    <3> QED BY <1>5, <3>1, <3>3
  <2>4. CASE i > Len(s) /\ j <= Len(s)
    <3>1. (s \o r)[j] \in Elements(s)
      BY <1>1, <2>4 DEF Elements
    <3>2. (s \o r)[i] = r[i - Len(s)] /\ i - Len(s) \in 1 .. Len(r)
      BY <1>1, <2>4
    <3>3. (s \o r)[i] \in Elements(r)
      BY <3>2 DEF Elements
    <3> QED BY <1>5, <3>1, <3>3
  <2> QED BY <1>1, <2>1, <2>2, <2>3, <2>4
<1> QED BY <1>1, <1>2, <1>3, <1>4, <1>5 DEF Elements, Injective

\* The elements of a sequence over S are in S.
LEMMA ElementsInside ==
    ASSUME NEW S, NEW s \in Seq(S)
    PROVE  Elements(s) \subseteq S
  BY DEF Elements

\* Nothing is in the empty sequence.
LEMMA EmptyElements == Elements(<< >>) = {} /\ Injective(<< >>)
  BY DEF Elements, Injective

-----------------------------------------------------------------------------
(* Induction and iteration. *)

\* A set of numbers has a least one.
LEMMA Least ==
    ASSUME NEW S, S \subseteq Nat, S # {}
    PROVE  \E n \in S : \A m \in S : n <= m
<1> DEFINE R == {ss \in Nat \X Nat : ss[1] < ss[2]}
<1>1. IsWellFoundedOn(R, Nat)
  BY NatLessThanWellFounded DEF OpToRel
<1>2. \A x, y \in Nat : <<y, x>> \in R <=> y < x
  OBVIOUS
<1> HIDE DEF R
<1>3. PICK n \in S : \A m \in S : ~ (<<m, n>> \in R)
  BY <1>1, WFMin
<1>4. ASSUME NEW m \in S PROVE n <= m
  <2>1. n \in Nat /\ m \in Nat
    OBVIOUS
  <2>2. ~(m < n)
    BY <1>2, <1>3, <2>1
  <2> QED BY <2>1, <2>2
<1> QED BY <1>4

\* Induction from m up to n.
LEMMA UpTo ==
    ASSUME NEW m \in Nat, NEW n \in Nat, NEW S, m \in S,
           \A k \in m .. n - 1 : k \in S => k + 1 \in S
    PROVE  \A k \in m .. n : k \in S
<1> DEFINE T == {k \in m .. n : k \notin S}
<1> SUFFICES ASSUME T # {} PROVE FALSE
  OBVIOUS
<1>1. T \subseteq Nat
  OBVIOUS
<1> HIDE DEF T
<1>2. PICK k \in T : \A l \in T : k <= l
  BY <1>1, Least
<1>3. k \in m .. n /\ k \notin S /\ k # m
  BY <1>2 DEF T
<1>4. k - 1 \in m .. n - 1 /\ k - 1 \in m .. n /\ ~(k <= k - 1) /\ (k - 1) + 1 = k
  BY <1>3
<1>5. k - 1 \notin T
  BY <1>2, <1>4
<1>6. k - 1 \in S
  BY <1>4, <1>5 DEF T
<1>7. k \in S
  BY <1>4, <1>6
<1> QED BY <1>3, <1>7

\* f[k] is F applied k - m times to a.
Iteration(f, m, n, a, F) == \A k \in m .. n : f[k] = IF k = m THEN a ELSE F[f[k - 1]]

\* Every function can be iterated.
LEMMA Iterates ==
    ASSUME NEW S, NEW a \in S, NEW F \in [S -> S], NEW m \in Nat, NEW n \in Nat, m <= n
    PROVE  \E f \in [m .. n -> S] : Iteration(f, m, n, a, F)
<1> DEFINE Up(k, f) == \A j \in m .. k : f[j] = IF j = m THEN a ELSE F[f[j - 1]]
<1> DEFINE T == {k \in m .. n : \E f \in [m .. k -> S] : Up(k, f)}
<1>1. m \in T
  <2> DEFINE f == [j \in m .. m |-> a]
  <2>1. f \in [m .. m -> S]
    OBVIOUS
  <2>2. \A j \in m .. m : j = m
    OBVIOUS
  <2>3. Up(m, f)
    BY <2>2
  <2>4. m \in m .. n
    OBVIOUS
  <2> HIDE DEF f, Up
  <2> QED BY <2>1, <2>3, <2>4
<1>2. ASSUME NEW k \in m .. n - 1, k \in T PROVE k + 1 \in T
  <2>1. PICK f \in [m .. k -> S] : Up(k, f)
    BY <1>2
  <2>2. \A j \in m .. k : f[j] = IF j = m THEN a ELSE F[f[j - 1]]
    BY <2>1
  <2> DEFINE g == [j \in m .. k + 1 |-> IF j = k + 1 THEN F[f[k]] ELSE f[j]]
  <2>3. k \in m .. k /\ m .. k \subseteq m .. k + 1 /\ k + 1 # m /\ (k + 1) - 1 = k /\ k # k + 1
    OBVIOUS
  <2>4. \A j \in m .. k + 1 : j = k + 1 \/ (j \in m .. k /\ j # k + 1)
    OBVIOUS
  <2>5. \A j \in m .. k : j # m => j - 1 \in m .. k /\ j - 1 # k + 1
    OBVIOUS
  <2>6. g \in [m .. k + 1 -> S]
    BY <2>3, <2>4
  <2>7. \A j \in m .. k : g[j] = f[j]
    BY <2>3, <2>4
  <2>8. ASSUME NEW j \in m .. k + 1 PROVE g[j] = IF j = m THEN a ELSE F[g[j - 1]]
    <3>1. CASE j = k + 1
      BY <2>3, <2>7, <3>1
    <3>2. CASE j \in m .. k
      BY <2>2, <2>5, <2>7, <3>2
    <3> QED BY <2>4, <3>1, <3>2
  <2> HIDE DEF g
  <2>9. Up(k + 1, g)
    BY <2>8
  <2>10. k + 1 \in m .. n
    OBVIOUS
  <2> QED BY <2>6, <2>9, <2>10
<1> HIDE DEF Up
<1>3. \A k \in m .. n : k \in T
  <2> HIDE DEF T
  <2> QED BY <1>1, <1>2, UpTo
<1>4. n \in m .. n
  OBVIOUS
<1> QED BY <1>3, <1>4 DEF Up, Iteration

\* f starts at a, and step k makes f[k] of the value before it.
Recurs(f, n, a, F) == f[0] = a /\ \A k \in 1 .. n : f[k] = F[k][f[k - 1]]

\* A function on numbers is defined by its value at zero and its steps.
LEMMA Recursion ==
    ASSUME NEW S, NEW a \in S, NEW n \in Nat, NEW F \in [1 .. n -> [S -> S]]
    PROVE  \E f \in [0 .. n -> S] : Recurs(f, n, a, F)
<1> DEFINE Up(k, f) == \A j \in 0 .. k : f[j] = IF j = 0 THEN a ELSE F[j][f[j - 1]]
<1> DEFINE T == {k \in 0 .. n : \E f \in [0 .. k -> S] : Up(k, f)}
<1>1. 0 \in T
  <2> DEFINE f == [j \in 0 .. 0 |-> a]
  <2>1. f \in [0 .. 0 -> S] /\ 0 \in 0 .. n
    OBVIOUS
  <2>2. \A j \in 0 .. 0 : j = 0
    OBVIOUS
  <2>3. Up(0, f)
    BY <2>2
  <2> HIDE DEF f, Up
  <2> QED BY <2>1, <2>3
<1>2. ASSUME NEW k \in 0 .. n - 1, k \in T PROVE k + 1 \in T
  <2>1. PICK f \in [0 .. k -> S] : Up(k, f)
    BY <1>2
  <2>2. \A j \in 0 .. k : f[j] = IF j = 0 THEN a ELSE F[j][f[j - 1]]
    BY <2>1
  <2> DEFINE g == [j \in 0 .. k + 1 |-> IF j = k + 1 THEN F[k + 1][f[k]] ELSE f[j]]
  <2>3. k \in 0 .. k /\ 0 .. k \subseteq 0 .. k + 1 /\ k + 1 # 0 /\ (k + 1) - 1 = k
        /\ k # k + 1 /\ k + 1 \in 1 .. n /\ k + 1 \in 0 .. n
    OBVIOUS
  <2>4. \A j \in 0 .. k + 1 : j = k + 1 \/ (j \in 0 .. k /\ j # k + 1)
    OBVIOUS
  <2>5. \A j \in 0 .. k : j # 0 => j - 1 \in 0 .. k /\ j - 1 # k + 1
    OBVIOUS
  <2>6. F[k + 1][f[k]] \in S
    BY <2>3
  <2>7. g \in [0 .. k + 1 -> S]
    BY <2>3, <2>4, <2>6
  <2>8. \A j \in 0 .. k : g[j] = f[j]
    BY <2>3, <2>4
  <2>9. ASSUME NEW j \in 0 .. k + 1 PROVE g[j] = IF j = 0 THEN a ELSE F[j][g[j - 1]]
    <3>1. CASE j = k + 1
      BY <2>3, <2>8, <3>1
    <3>2. CASE j \in 0 .. k
      BY <2>2, <2>5, <2>8, <3>2
    <3> QED BY <2>4, <3>1, <3>2
  <2> HIDE DEF g
  <2>10. Up(k + 1, g)
    BY <2>9
  <2> QED BY <2>3, <2>7, <2>10
<1> HIDE DEF Up
<1>3. \A k \in 0 .. n : k \in T
  <2> HIDE DEF T
  <2> QED BY <1>1, <1>2, UpTo
<1>4. PICK f \in [0 .. n -> S] : Up(n, f)
  BY <1>3
<1>5. \A j \in 0 .. n : f[j] = IF j = 0 THEN a ELSE F[j][f[j - 1]]
  BY <1>4 DEF Up
<1>6. 0 \in 0 .. n /\ \A k \in 1 .. n : k \in 0 .. n /\ k # 0
  OBVIOUS
<1>7. Recurs(f, n, a, F)
  BY <1>5, <1>6 DEF Recurs
<1> QED BY <1>7

=============================================================================
