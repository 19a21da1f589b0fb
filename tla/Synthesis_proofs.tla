--------------------------- MODULE Synthesis_proofs ---------------------------
(***************************************************************************)
(* That no answer is lost or delivered twice by the tabled search, for any *)
(* instances, any goal and any way terms unify.  The invariant follows the *)
(* waiters of each entry: they are the stored consumers whose next premise *)
(* is its goal, once each, so what an answer is sent to when it comes and  *)
(* what a consumer finds when it comes are together all that is due.       *)
(*                                                                         *)
(* And that no answer is wrong: its ground instances are in the least      *)
(* model.  The invariant says of a consumer what it has proved: under any  *)
(* grounding that makes its open premises true, its target is true.  A     *)
(* unification composes with the grounding, so try_resolve and try_answer  *)
(* keep that, and a consumer with no open premise makes a true answer.     *)
(***************************************************************************)
EXTENDS Synthesis, BasicLemmas, FiniteSetTheorems, TLAPS

-----------------------------------------------------------------------------
(* Sequences of anything. *)

Sequence(s) == \E S : s \in Seq(S)

\* The indices and elements of a sequence.
LEMMA SequenceElements ==
    ASSUME NEW s, Sequence(s)
    PROVE  /\ Len(s) \in Nat /\ DOMAIN s = 1 .. Len(s)
           /\ ToSet(s) = Elements(s)
           /\ IsInjective(s) <=> Injective(s)
<1>1. PICK S : s \in Seq(S)
  BY DEF Sequence
<1>2. Len(s) \in Nat /\ DOMAIN s = 1 .. Len(s)
  BY <1>1
<1> QED BY <1>2 DEF ToSet, Elements, IsInjective, Injective

\* One element more at the end.
LEMMA SequenceAppend ==
    ASSUME NEW s, Sequence(s), NEW e
    PROVE  /\ Sequence(Append(s, e))
           /\ Len(Append(s, e)) = Len(s) + 1
           /\ Append(s, e)[Len(s) + 1] = e
           /\ \A i \in 1 .. Len(s) : Append(s, e)[i] = s[i]
           /\ Elements(Append(s, e)) = Elements(s) \cup {e}
           /\ Injective(s) /\ e \notin Elements(s) => Injective(Append(s, e))
<1>1. PICK S : s \in Seq(S)
  BY DEF Sequence
<1> DEFINE T == S \cup {e}
<1>2. s \in Seq(T) /\ e \in T
  BY <1>1
<1> HIDE DEF T
<1>3. Append(s, e) \in Seq(T)
  BY <1>2
<1>4. /\ Len(Append(s, e)) = Len(s) + 1
      /\ Append(s, e)[Len(s) + 1] = e
      /\ \A i \in 1 .. Len(s) : Append(s, e)[i] = s[i]
  BY <1>2
<1> QED BY <1>2, <1>3, <1>4, AppendElements DEF Sequence

\* Two sequences one after the other.
LEMMA SequenceConcat ==
    ASSUME NEW s, Sequence(s), NEW r, Sequence(r)
    PROVE  /\ Sequence(s \o r)
           /\ Elements(s \o r) = Elements(s) \cup Elements(r)
           /\ Injective(s) /\ Injective(r) /\ Elements(s) \cap Elements(r) = {}
                => Injective(s \o r)
<1>1. PICK S : s \in Seq(S)
  BY DEF Sequence
<1>2. PICK R : r \in Seq(R)
  BY DEF Sequence
<1> DEFINE T == S \cup R
<1>3. s \in Seq(T) /\ r \in Seq(T)
  BY <1>1, <1>2
<1> HIDE DEF T
<1>4. s \o r \in Seq(T)
  BY <1>3
<1> QED BY <1>3, <1>4, ConcatElements DEF Sequence

\* A sequence without its last element.
LEMMA SequenceFront ==
    ASSUME NEW s, Sequence(s), s # << >>
    PROVE  /\ Sequence(Front(s))
           /\ Last(s) \in Elements(s)
           /\ Elements(s) = Elements(Front(s)) \cup {Last(s)}
           /\ Injective(s) => Injective(Front(s)) /\ Last(s) \notin Elements(Front(s))
<1>1. PICK S : s \in Seq(S)
  BY DEF Sequence
<1>2. Len(s) \in Nat \ {0}
  BY <1>1
<1>3. /\ Front(s) \in Seq(S) /\ Len(Front(s)) = Len(s) - 1
      /\ \A i \in 1 .. Len(s) - 1 : Front(s)[i] = s[i]
  <2>1. PICK n \in Nat : Len(s) = n + 1
    BY <1>2
  <2>2. Front(s) = SubSeq(s, 1, n)
    BY <2>1 DEF Front
  <2>3. /\ SubSeq(s, 1, n) \in Seq(S) /\ Len(SubSeq(s, 1, n)) = n
        /\ \A i \in 1 .. n : SubSeq(s, 1, n)[i] = s[i]
    BY <1>1, <2>1
  <2> QED BY <2>1, <2>2, <2>3
<1>4. Last(s) = s[Len(s)]
  BY DEF Last
<1>5. Elements(Front(s)) = {s[i] : i \in 1 .. Len(s) - 1}
  BY <1>3 DEF Elements
<1>6. 1 .. Len(s) = (1 .. Len(s) - 1) \cup {Len(s)} /\ Len(s) \in 1 .. Len(s)
  BY <1>2
<1>7. Elements(s) = Elements(Front(s)) \cup {Last(s)} /\ Last(s) \in Elements(s)
  BY <1>4, <1>5, <1>6 DEF Elements
<1>8. Injective(s) => Injective(Front(s)) /\ Last(s) \notin Elements(Front(s))
  BY <1>2, <1>3, <1>4, <1>5 DEF Injective
<1> QED BY <1>3, <1>7, <1>8 DEF Sequence

\* What is left of a queue without repetitions when one element is removed.
LEMMA SequenceRemove ==
    ASSUME NEW s, Sequence(s), Injective(s), NEW e
    PROVE  /\ Sequence(RemoveFirst(s, e))
           /\ Injective(RemoveFirst(s, e))
           /\ Elements(RemoveFirst(s, e)) = Elements(s) \ {e}
<1>1. PICK S : s \in Seq(S)
  BY DEF Sequence
<1>2. CASE ~ \E i \in 1 .. Len(s) : s[i] = e
  <2>1. RemoveFirst(s, e) = s
    BY <1>2 DEF RemoveFirst
  <2> QED BY <1>2, <2>1 DEF Elements
<1>3. CASE \E i \in 1 .. Len(s) : s[i] = e
  <2>1. PICK j \in 1 .. Len(s) : s[j] = e
    BY <1>3
  <2>2. {i \in 1 .. Len(s) : s[i] = e} = {j}
    BY <2>1 DEF Injective
  <2>3. j \in Nat /\ Len(s) \in Nat
    BY <1>1
  <2>4. Min({j}) = j
    BY <2>3 DEF Min
  <2>5. RemoveFirst(s, e) = SubSeq(s, 1, j - 1) \o SubSeq(s, j + 1, Len(s))
    BY <1>3, <2>2, <2>4 DEF RemoveFirst, RemoveAt, SelectInSeq
  <2> DEFINE l == SubSeq(s, 1, j - 1)
  <2> DEFINE r == SubSeq(s, j + 1, Len(s))
  <2>6. /\ l \in Seq(S) /\ Len(l) = j - 1
        /\ \A i \in 1 .. j - 1 : l[i] = s[i]
    BY <1>1, <2>3
  <2>7. /\ r \in Seq(S) /\ Len(r) = Len(s) - j
        /\ \A i \in 1 .. Len(s) - j : r[i] = s[j + i]
    BY <1>1, <2>3
  <2> HIDE DEF l, r
  <2>8. Elements(l) = {s[i] : i \in 1 .. j - 1}
    BY <2>6 DEF Elements
  <2>9. Elements(r) = {s[i] : i \in j + 1 .. Len(s)}
    <3>1. ASSUME NEW i \in 1 .. Len(r) PROVE r[i] \in {s[m] : m \in j + 1 .. Len(s)}
      BY <2>3, <2>7, <3>1
    <3>2. ASSUME NEW i \in j + 1 .. Len(s) PROVE s[i] \in Elements(r)
      <4>1. i - j \in 1 .. Len(r) /\ r[i - j] = s[j + (i - j)] /\ j + (i - j) = i
        BY <2>3, <2>7, <3>2
      <4> QED BY <4>1 DEF Elements
    <3> QED BY <3>1, <3>2 DEF Elements
  <2>10. Injective(l) /\ Injective(r) /\ Elements(l) \cap Elements(r) = {}
    <3>1. Injective(l)
      BY <2>3, <2>6 DEF Injective
    <3>2. Injective(r)
      <4> SUFFICES ASSUME NEW a \in 1 .. Len(r), NEW b \in 1 .. Len(r), r[a] = r[b] PROVE a = b
        BY DEF Injective
      <4>1. j + a \in 1 .. Len(s) /\ j + b \in 1 .. Len(s) /\ s[j + a] = s[j + b]
        BY <2>3, <2>7
      <4>2. j + a = j + b
        BY <4>1 DEF Injective
      <4> QED BY <2>3, <4>2
    <3>3. Elements(l) \cap Elements(r) = {}
      BY <2>3, <2>8, <2>9 DEF Injective
    <3> QED BY <3>1, <3>2, <3>3
  <2>11. Elements(l) \cup Elements(r) = Elements(s) \ {e}
    <3>1. \A i \in 1 .. Len(s) : i = j \/ i \in 1 .. j - 1 \/ i \in j + 1 .. Len(s)
      BY <2>3
    <3>2. \A i \in 1 .. Len(s) : s[i] = e => i = j
      BY <2>2
    <3>3. \A i \in (1 .. j - 1) \cup (j + 1 .. Len(s)) : i \in 1 .. Len(s) /\ i # j
      BY <2>3
    <3> QED BY <2>1, <2>8, <2>9, <3>1, <3>2, <3>3 DEF Elements
  <2>12. Sequence(l) /\ Sequence(r)
    BY <2>6, <2>7 DEF Sequence
  <2>13. RemoveFirst(s, e) = l \o r
    BY <2>5 DEF l, r
  <2> QED BY <2>10, <2>11, <2>12, <2>13, SequenceConcat
<1> QED BY <1>2, <1>3

\* A function on the indices of a sequence.
LEMMA SequenceMapped ==
    ASSUME NEW s, Sequence(s), NEW m, m = [i \in DOMAIN s |-> m[i]]
    PROVE  Sequence(m) /\ Len(m) = Len(s) /\ Elements(m) = {m[i] : i \in 1 .. Len(s)}
<1>1. Len(s) \in Nat /\ DOMAIN s = 1 .. Len(s)
  BY SequenceElements
<1> DEFINE T == {m[i] : i \in 1 .. Len(s)}
<1>2. m \in [1 .. Len(s) -> T]
  BY <1>1
<1>3. m \in Seq(T) /\ Len(m) = Len(s)
  BY <1>1, <1>2
<1> QED BY <1>1, <1>3 DEF Sequence, Elements

\* The resumptions of some consumers with one answer.
LEMMA WokenElements ==
    ASSUME NEW w, Sequence(w), Injective(w), NEW a
    PROVE  LET r == [i \in DOMAIN w |-> [idx |-> w[i], answer |-> a]]
           IN  /\ Sequence(r) /\ Injective(r)
               /\ Elements(r) = {[idx |-> i, answer |-> a] : i \in Elements(w)}
<1> DEFINE r == [i \in DOMAIN w |-> [idx |-> w[i], answer |-> a]]
<1>1. Len(w) \in Nat /\ DOMAIN w = 1 .. Len(w)
  BY SequenceElements
<1>2. r = [i \in DOMAIN w |-> r[i]]
  OBVIOUS
<1>3. \A i \in 1 .. Len(w) : r[i] = [idx |-> w[i], answer |-> a]
  BY <1>1
<1> HIDE DEF r
<1>4. Sequence(r) /\ Len(r) = Len(w) /\ Elements(r) = {r[i] : i \in 1 .. Len(w)}
  BY <1>2, SequenceMapped
<1>5. Elements(r) = {[idx |-> i, answer |-> a] : i \in Elements(w)}
  BY <1>3, <1>4 DEF Elements
<1>6. ASSUME NEW i \in 1 .. Len(w) PROVE r[i].idx = w[i]
  <2>1. r[i] = [idx |-> w[i], answer |-> a]
    BY <1>3
  <2> QED BY <2>1
<1>7. Injective(r)
  BY <1>4, <1>6 DEF Injective
<1> QED BY <1>4, <1>5, <1>7 DEF r

\* The resumptions of one consumer with some answers.
LEMMA ReplayedElements ==
    ASSUME NEW w, Sequence(w), Injective(w), NEW a
    PROVE  LET r == [i \in DOMAIN w |-> [idx |-> a, answer |-> w[i]]]
           IN  /\ Sequence(r) /\ Injective(r)
               /\ Elements(r) = {[idx |-> a, answer |-> i] : i \in Elements(w)}
<1> DEFINE r == [i \in DOMAIN w |-> [idx |-> a, answer |-> w[i]]]
<1>1. Len(w) \in Nat /\ DOMAIN w = 1 .. Len(w)
  BY SequenceElements
<1>2. r = [i \in DOMAIN w |-> r[i]]
  OBVIOUS
<1>3. \A i \in 1 .. Len(w) : r[i] = [idx |-> a, answer |-> w[i]]
  BY <1>1
<1> HIDE DEF r
<1>4. Sequence(r) /\ Len(r) = Len(w) /\ Elements(r) = {r[i] : i \in 1 .. Len(w)}
  BY <1>2, SequenceMapped
<1>5. Elements(r) = {[idx |-> a, answer |-> w[i]] : i \in 1 .. Len(w)}
  BY <1>3, <1>4
<1>6. Elements(r) = {[idx |-> a, answer |-> i] : i \in Elements(w)}
  BY <1>5 DEF Elements
<1>7. ASSUME NEW i \in 1 .. Len(w) PROVE r[i].answer = w[i]
  <2>1. r[i] = [idx |-> a, answer |-> w[i]]
    BY <1>3
  <2> QED BY <2>1
<1>8. Injective(r)
  BY <1>4, <1>7 DEF Injective
<1> QED BY <1>4, <1>6, <1>8 DEF r

-----------------------------------------------------------------------------
(* The table, the consumers and the pending resumptions. *)

Fields(s) ==
    DOMAIN s = {"answers", "generators", "consumers", "resume_stack", "result", "resumed",
                "dropped"}

IsNode(c) ==
    DOMAIN c = {"key", "target", "inst", "next", "size", "fresh", "vals", "subgoals"}

\* Two answers of one entry differ in what add_answer compares.
Distinct(found) ==
    \A i, j \in 1 .. Len(found) :
        found[i].args = found[j].args /\ found[i].open = found[j].open => i = j

IsEntry(e) ==
    /\ DOMAIN e = {"answers", "waiters"}
    /\ Sequence(e.answers) /\ Distinct(e.answers)
    /\ Sequence(e.waiters) /\ Injective(e.waiters)

\* A generator works on an entry, and only a goal that has candidates gets one.
GeneratorsInv(s) ==
    /\ Sequence(s.generators)
    /\ \A i \in 1 .. Len(s.generators) :
           /\ DOMAIN s.generators[i] = {"key", "remaining"}
           /\ s.generators[i].key \in DOMAIN s.answers
    /\ \A k \in DOMAIN s.answers : GetInstances(k) # << >>

\* A consumer answers an entry, and waits for another unless the goal it
\* asks for has no candidates.
ConsumersInv(s) ==
    /\ Sequence(s.consumers)
    /\ \A i \in 1 .. Len(s.consumers) :
           /\ IsNode(s.consumers[i])
           /\ s.consumers[i].key \in DOMAIN s.answers
           /\ \/ WaitsAt(s.consumers[i]) \in DOMAIN s.answers
              \/ GetInstances(WaitsAt(s.consumers[i])) = << >>

WaitingAt(s, k) == {i \in 1 .. Len(s.consumers) : WaitsAt(s.consumers[i]) = k}

\* The waiters of an entry are the consumers that wait at its goal.
WaitersInv(s) ==
    \A k \in DOMAIN s.answers :
        /\ IsEntry(s.answers[k])
        /\ Elements(s.answers[k].waiters) \ {Root} = WaitingAt(s, k)

DueOf(s) ==
    UNION {{[idx |-> i, answer |-> a] :
                a \in Elements(s.answers[WaitsAt(s.consumers[i])].answers)} :
              i \in {j \in 1 .. Len(s.consumers) : WaitsAt(s.consumers[j]) \in DOMAIN s.answers}}

\* What is due is pending or was resumed, and not both.
ResumedInv(s) ==
    /\ Sequence(s.resume_stack) /\ Injective(s.resume_stack)
    /\ s.resumed \cap Elements(s.resume_stack) = {}
    /\ s.resumed \cup Elements(s.resume_stack) = DueOf(s)

SearchInv(s) ==
    Fields(s) /\ GeneratorsInv(s) /\ ConsumersInv(s) /\ WaitersInv(s) /\ ResumedInv(s)

-----------------------------------------------------------------------------
(* The operations keep the invariant. *)

\* A resumption is due if its consumer waits at the goal of its answer.
LEMMA DueMembers ==
    ASSUME NEW s, NEW x
    PROVE  x \in DueOf(s) <=>
               \E i \in 1 .. Len(s.consumers) :
                   /\ WaitsAt(s.consumers[i]) \in DOMAIN s.answers
                   /\ \E a \in Elements(s.answers[WaitsAt(s.consumers[i])].answers) :
                          x = [idx |-> i, answer |-> a]
  BY DEF DueOf

\* An answer that add_answer takes for new is new.
LEMMA NewAnswer ==
    ASSUME NEW found, Sequence(found), Distinct(found), NEW a,
           \A i \in 1 .. Len(found) : ~(found[i].args = a.args /\ found[i].open = a.open)
    PROVE  /\ Sequence(Append(found, a)) /\ Distinct(Append(found, a))
           /\ Elements(Append(found, a)) = Elements(found) \cup {a}
           /\ a \notin Elements(found)
<1>1. a \notin Elements(found)
  BY DEF Elements
<1>2. Len(found) \in Nat
  BY SequenceElements
<1> DEFINE more == Append(found, a)
<1>3. /\ Sequence(more) /\ Elements(more) = Elements(found) \cup {a}
      /\ Len(more) = Len(found) + 1 /\ more[Len(found) + 1] = a
      /\ \A i \in 1 .. Len(found) : more[i] = found[i]
  BY SequenceAppend
<1> HIDE DEF more
<1>4. \A i \in 1 .. Len(more) : i \in 1 .. Len(found) \/ i = Len(found) + 1
  BY <1>2, <1>3
<1>5. ASSUME NEW i \in 1 .. Len(more), NEW j \in 1 .. Len(more),
             more[i].args = more[j].args, more[i].open = more[j].open
      PROVE  i = j
  <2>1. CASE i \in 1 .. Len(found) /\ j \in 1 .. Len(found)
    BY <1>3, <1>5, <2>1 DEF Distinct
  <2>2. CASE i \in 1 .. Len(found) /\ j = Len(found) + 1
    BY <1>3, <1>5, <2>2
  <2>3. CASE i = Len(found) + 1 /\ j \in 1 .. Len(found)
    BY <1>3, <1>5, <2>3
  <2> QED BY <1>4, <2>1, <2>2, <2>3
<1>6. Distinct(more)
  BY <1>5 DEF Distinct
<1> QED BY <1>1, <1>3, <1>6 DEF more

\* What wake_up adds to the pending resumptions.
Woken(ws, a) ==
    LET woken == RemoveFirst(ws, Root)
    IN  [i \in DOMAIN woken |-> [idx |-> woken[i], answer |-> a]]

\* Every waiter but the root is woken once.
LEMMA WokenOnce ==
    ASSUME NEW ws, Sequence(ws), Injective(ws), NEW a
    PROVE  /\ Sequence(Woken(ws, a)) /\ Injective(Woken(ws, a))
           /\ Elements(Woken(ws, a)) = {[idx |-> i, answer |-> a] : i \in Elements(ws) \ {Root}}
<1> DEFINE woken == RemoveFirst(ws, Root)
<1>1. Sequence(woken) /\ Injective(woken) /\ Elements(woken) = Elements(ws) \ {Root}
  BY SequenceRemove
<1>2. Woken(ws, a) = [i \in DOMAIN woken |-> [idx |-> woken[i], answer |-> a]]
  BY DEF Woken
<1> HIDE DEF woken
<1> QED BY <1>1, <1>2, WokenElements

\* From s to t the answer a was handed to the waiters.
Handed(s, t, a, ws) ==
    /\ Fields(t)
    /\ t.answers = s.answers /\ t.generators = s.generators
    /\ t.consumers = s.consumers /\ t.resumed = s.resumed
    /\ t.resume_stack = s.resume_stack \o Woken(ws, a)

\* Waking the waiters of an entry changes the pending resumptions and the result.
LEMMA WakeUpFields ==
    ASSUME NEW s, Fields(s), NEW a, NEW ws
    PROVE  Handed(s, WakeUp(s, a, ws), a, ws)
<1> DEFINE r == Woken(ws, a)
<1> DEFINE res == IF Root \in ToSet(ws) /\ a.open = 0 THEN <<a>> ELSE s.result
<1> DEFINE t == WakeUp(s, a, ws)
<1>1. t = [s EXCEPT !.resume_stack = s.resume_stack \o r, !.result = res]
  BY DEF WakeUp, Woken, Fields
<1> HIDE DEF r, res, t
<1>2. /\ t.answers = s.answers /\ t.generators = s.generators /\ t.consumers = s.consumers
      /\ t.resume_stack = s.resume_stack \o r /\ t.resumed = s.resumed
      /\ Fields(t)
  BY <1>1 DEF Fields
<1> QED BY <1>2 DEF r, t, Handed

\* The invariant is about five of the fields.
LEMMA SameSearch ==
    ASSUME NEW s, SearchInv(s), NEW t, Fields(t),
           t.answers = s.answers, t.generators = s.generators, t.consumers = s.consumers,
           t.resume_stack = s.resume_stack, t.resumed = s.resumed
    PROVE  SearchInv(t)
<1>1. GeneratorsInv(t)
  BY DEF SearchInv, GeneratorsInv
<1>2. ConsumersInv(t)
  BY DEF SearchInv, ConsumersInv
<1>3. WaitersInv(t)
  BY DEF SearchInv, WaitersInv, WaitingAt
<1>4. ResumedInv(t)
  BY DEF SearchInv, ResumedInv, DueOf
<1> QED BY <1>1, <1>2, <1>3, <1>4 DEF SearchInv

\* A new answer of an entry is due to the consumers that wait there.
LEMMA AnswerDue ==
    ASSUME NEW s, NEW t, NEW k \in DOMAIN s.answers, NEW a,
           t.consumers = s.consumers, DOMAIN t.answers = DOMAIN s.answers,
           Elements(t.answers[k].answers) = Elements(s.answers[k].answers) \cup {a},
           \A j \in DOMAIN s.answers \ {k} : t.answers[j] = s.answers[j]
    PROVE  DueOf(t) = DueOf(s) \cup {[idx |-> i, answer |-> a] : i \in WaitingAt(s, k)}
<1> DEFINE New == {[idx |-> i, answer |-> a] : i \in WaitingAt(s, k)}
<1>1. ASSUME NEW x \in DueOf(t) PROVE x \in DueOf(s) \cup New
  <2>1. PICK i \in 1 .. Len(t.consumers) :
            /\ WaitsAt(t.consumers[i]) \in DOMAIN t.answers
            /\ \E b \in Elements(t.answers[WaitsAt(t.consumers[i])].answers) :
                   x = [idx |-> i, answer |-> b]
    BY <1>1, DueMembers
  <2> DEFINE g == WaitsAt(s.consumers[i])
  <2>2. PICK b \in Elements(t.answers[g].answers) : x = [idx |-> i, answer |-> b]
    BY <2>1
  <2>3. CASE b \in Elements(s.answers[g].answers)
    BY <2>1, <2>2, <2>3, DueMembers
  <2>4. CASE b \notin Elements(s.answers[g].answers)
    <3>1. g = k /\ b = a
      BY <2>1, <2>2, <2>4
    <3>2. i \in WaitingAt(s, k)
      BY <2>1, <3>1 DEF WaitingAt
    <3> QED BY <2>2, <3>1, <3>2
  <2> QED BY <2>3, <2>4
<1>2. ASSUME NEW x \in DueOf(s) PROVE x \in DueOf(t)
  <2>1. PICK i \in 1 .. Len(s.consumers) :
            /\ WaitsAt(s.consumers[i]) \in DOMAIN s.answers
            /\ \E b \in Elements(s.answers[WaitsAt(s.consumers[i])].answers) :
                   x = [idx |-> i, answer |-> b]
    BY <1>2, DueMembers
  <2> DEFINE g == WaitsAt(s.consumers[i])
  <2>2. PICK b \in Elements(s.answers[g].answers) : x = [idx |-> i, answer |-> b]
    BY <2>1
  <2>3. b \in Elements(t.answers[g].answers)
    BY <2>1, <2>2
  <2> QED BY <2>1, <2>2, <2>3, DueMembers
<1>3. ASSUME NEW x \in New PROVE x \in DueOf(t)
  <2>1. PICK i \in WaitingAt(s, k) : x = [idx |-> i, answer |-> a]
    BY <1>3
  <2>2. i \in 1 .. Len(s.consumers) /\ WaitsAt(s.consumers[i]) = k
    BY <2>1 DEF WaitingAt
  <2> QED BY <2>1, <2>2, DueMembers
<1> QED BY <1>1, <1>2, <1>3

\* add_answer keeps the invariant.
LEMMA AddAnswerKeeps ==
    ASSUME NEW s, SearchInv(s), NEW c, c.key \in DOMAIN s.answers
    PROVE  SearchInv(AddAnswer(s, c))
<1> DEFINE k == c.key
<1> DEFINE a == MkAnswer(c)
<1> DEFINE entry == s.answers[k]
<1> DEFINE s1 == [s EXCEPT !.answers[k].answers = Append(@, a)]
<1> DEFINE t == AddAnswer(s, c)
<1>1. Fields(s) /\ k \in DOMAIN s.answers /\ IsEntry(entry)
  BY DEF SearchInv, WaitersInv
<1>2. CASE c.size >= MaxResultSize
  <2>1. t = [s EXCEPT !.dropped = TRUE]
    BY <1>2 DEF AddAnswer
  <2> HIDE DEF t
  <2>2. /\ Fields(t) /\ t.answers = s.answers /\ t.generators = s.generators
        /\ t.consumers = s.consumers /\ t.resume_stack = s.resume_stack /\ t.resumed = s.resumed
    BY <1>1, <2>1 DEF Fields
  <2>3. SearchInv(t)
    BY <2>2, SameSearch
  <2> QED BY <2>3 DEF t
<1>3. CASE ~(c.size >= MaxResultSize) /\ ~IsNewAnswer(entry, a)
  <2>1. t = s
    BY <1>3 DEF AddAnswer
  <2> QED BY <2>1
<1>4. CASE ~(c.size >= MaxResultSize) /\ IsNewAnswer(entry, a)
  <2>1. t = WakeUp(s1, a, entry.waiters)
    BY <1>4 DEF AddAnswer
  <2>2. /\ Sequence(entry.answers) /\ Distinct(entry.answers) /\ DOMAIN entry = {"answers", "waiters"}
        /\ Sequence(entry.waiters) /\ Injective(entry.waiters)
    BY <1>1 DEF IsEntry
  <2>3. \A i \in 1 .. Len(entry.answers) :
            ~(entry.answers[i].args = a.args /\ entry.answers[i].open = a.open)
    <3>1. DOMAIN entry.answers = 1 .. Len(entry.answers)
      BY <2>2, SequenceElements
    <3> HIDE DEF entry, a
    <3> QED BY <1>4, <3>1 DEF IsNewAnswer
  <2> DEFINE more == Append(entry.answers, a)
  <2>4. /\ Sequence(more) /\ Distinct(more) /\ Elements(more) = Elements(entry.answers) \cup {a}
        /\ a \notin Elements(entry.answers)
    <3> HIDE DEF entry, a
    <3> QED BY <2>2, <2>3, NewAnswer
  <2>5. s1 = [s EXCEPT !.answers = [s.answers EXCEPT ![k] = [entry EXCEPT !.answers = more]]]
    OBVIOUS
  <2> HIDE DEF more, a, s1, t
  <2>6. /\ Fields(s1) /\ s1.generators = s.generators /\ s1.consumers = s.consumers
        /\ s1.resume_stack = s.resume_stack /\ s1.resumed = s.resumed
        /\ s1.answers = [s.answers EXCEPT ![k] = [entry EXCEPT !.answers = more]]
    BY <1>1, <2>5 DEF Fields
  <2>7. /\ DOMAIN s1.answers = DOMAIN s.answers
        /\ s1.answers[k].answers = more /\ s1.answers[k].waiters = entry.waiters
        /\ DOMAIN s1.answers[k] = {"answers", "waiters"}
        /\ \A j \in DOMAIN s.answers \ {k} : s1.answers[j] = s.answers[j]
    BY <1>1, <2>2, <2>6
  <2> DEFINE r == Woken(entry.waiters, a)
  <2>8. /\ Sequence(r) /\ Injective(r)
        /\ Elements(r) = {[idx |-> i, answer |-> a] : i \in Elements(entry.waiters) \ {Root}}
    <3> HIDE DEF entry
    <3> QED BY <2>2, WokenOnce
  <2>9. /\ Fields(t) /\ t.answers = s1.answers /\ t.generators = s.generators
        /\ t.consumers = s.consumers /\ t.resumed = s.resumed
        /\ t.resume_stack = s.resume_stack \o r
    <3>1. t = WakeUp(s1, a, entry.waiters) /\ r = Woken(entry.waiters, a)
      BY <2>1 DEF r
    <3> DEFINE ws == entry.waiters
    <3>2. t = WakeUp(s1, a, ws) /\ r = Woken(ws, a)
      BY <3>1
    <3> HIDE DEF ws, r
    <3>3. Handed(s1, t, a, ws)
      BY <2>6, <3>2, WakeUpFields
    <3> QED BY <2>6, <3>2, <3>3 DEF Handed
  <2> HIDE DEF r
  <2>10. Elements(entry.waiters) \ {Root} = WaitingAt(s, k)
    BY <1>1 DEF SearchInv, WaitersInv
  <2>11. DueOf(t) = DueOf(s) \cup Elements(r)
    <3>1. Elements(t.answers[k].answers) = Elements(s.answers[k].answers) \cup {a}
      BY <2>4, <2>7, <2>9
    <3>2. /\ t.consumers = s.consumers /\ DOMAIN t.answers = DOMAIN s.answers
          /\ \A j \in DOMAIN s.answers \ {k} : t.answers[j] = s.answers[j]
      BY <2>7, <2>9
    <3> HIDE DEF entry, k
    <3>3. DueOf(t) = DueOf(s) \cup {[idx |-> i, answer |-> a] : i \in WaitingAt(s, k)}
      BY <1>1, <3>1, <3>2, AnswerDue
    <3> QED BY <2>8, <2>10, <3>3
  <2>12. DueOf(s) \cap Elements(r) = {}
    <3> SUFFICES ASSUME NEW i \in WaitingAt(s, k), [idx |-> i, answer |-> a] \in DueOf(s)
                 PROVE  FALSE
      BY <2>8, <2>10
    <3>1. PICK j \in 1 .. Len(s.consumers) :
              \E b \in Elements(s.answers[WaitsAt(s.consumers[j])].answers) :
                  [idx |-> i, answer |-> a] = [idx |-> j, answer |-> b]
      BY DueMembers
    <3>2. PICK b \in Elements(s.answers[WaitsAt(s.consumers[j])].answers) :
              [idx |-> i, answer |-> a] = [idx |-> j, answer |-> b]
      BY <3>1
    <3>3. i = j /\ a = b
      BY <3>2
    <3>4. WaitsAt(s.consumers[i]) = k
      BY DEF WaitingAt
    <3> QED BY <2>4, <3>2, <3>3, <3>4
  <2>13. ResumedInv(t)
    <3>1. /\ Sequence(s.resume_stack) /\ Injective(s.resume_stack)
          /\ s.resumed \cap Elements(s.resume_stack) = {}
          /\ s.resumed \cup Elements(s.resume_stack) = DueOf(s)
      BY DEF SearchInv, ResumedInv
    <3>2. t.resume_stack = s.resume_stack \o r
      BY <2>9
    <3>3. /\ Sequence(t.resume_stack) /\ Injective(t.resume_stack)
          /\ Elements(t.resume_stack) = Elements(s.resume_stack) \cup Elements(r)
      BY <2>8, <2>12, <3>1, <3>2, SequenceConcat
    <3> QED BY <2>9, <2>11, <2>12, <3>1, <3>3 DEF ResumedInv
  <2>14. GeneratorsInv(t) /\ ConsumersInv(t)
    BY <2>7, <2>9 DEF SearchInv, GeneratorsInv, ConsumersInv
  <2>15. WaitersInv(t)
    <3>1. ASSUME NEW j \in DOMAIN t.answers
          PROVE  IsEntry(t.answers[j]) /\ t.answers[j].waiters = s.answers[j].waiters
      <4>1. CASE j = k
        BY <2>2, <2>4, <2>7, <2>9, <4>1 DEF IsEntry
      <4>2. CASE j # k
        <5>1. t.answers[j] = s.answers[j] /\ j \in DOMAIN s.answers
          BY <2>7, <2>9, <3>1, <4>2
        <5> QED BY <5>1 DEF SearchInv, WaitersInv
      <4> QED BY <4>1, <4>2
    <3>2. ASSUME NEW j \in DOMAIN t.answers
          PROVE  Elements(t.answers[j].waiters) \ {Root} = WaitingAt(t, j)
      <4>1. j \in DOMAIN s.answers
        BY <2>7, <2>9
      <4>2. WaitingAt(t, j) = WaitingAt(s, j)
        BY <2>9 DEF WaitingAt
      <4> QED BY <3>1, <4>1, <4>2 DEF SearchInv, WaitersInv
    <3> QED BY <3>1, <3>2 DEF WaitersInv
  <2>16. SearchInv(t)
    BY <2>9, <2>13, <2>14, <2>15 DEF SearchInv
  <2> QED BY <2>16 DEF t
<1> QED BY <1>2, <1>3, <1>4

\* One consumer more: what it changes whatever it waits for.
LEMMA StoredConsumer ==
    ASSUME NEW s, SearchInv(s), NEW c
    PROVE  LET m == Append(s.consumers, c)
               n == Len(s.consumers) + 1
           IN  /\ Sequence(m) /\ Len(m) = n /\ n \in Nat /\ m[n] = c
               /\ 1 .. n = (1 .. Len(s.consumers)) \cup {n}
               /\ n \notin 1 .. Len(s.consumers) /\ n # Root
               /\ \A i \in 1 .. Len(s.consumers) : m[i] = s.consumers[i]
<1>1. Sequence(s.consumers)
  BY DEF SearchInv, ConsumersInv
<1>2. Len(s.consumers) \in Nat
  BY <1>1, SequenceElements
<1> QED BY <1>1, <1>2, SequenceAppend DEF Root

\* Where the consumers wait once c is stored, and what they are due.
LEMMA StoredWaits ==
    ASSUME NEW s, SearchInv(s), NEW c, NEW t, t.consumers = Append(s.consumers, c),
           DOMAIN s.answers \subseteq DOMAIN t.answers,
           \A k \in DOMAIN s.answers : t.answers[k].answers = s.answers[k].answers,
           \A k \in DOMAIN t.answers \ DOMAIN s.answers :
               k = WaitsAt(c) /\ t.answers[k].answers = << >> /\ GetInstances(k) # << >>
    PROVE  LET n == Len(s.consumers) + 1
           IN  /\ \A k : WaitingAt(t, k) = WaitingAt(s, k) \cup (IF k = WaitsAt(c) THEN {n} ELSE {})
               /\ DueOf(t) = DueOf(s) \cup
                      (IF WaitsAt(c) \in DOMAIN s.answers
                       THEN {[idx |-> n, answer |-> a] : a \in Elements(s.answers[WaitsAt(c)].answers)}
                       ELSE {})
               /\ \A x \in DueOf(s) : x.idx # n
<1> DEFINE n == Len(s.consumers) + 1
<1> DEFINE key == WaitsAt(c)
<1> DEFINE New == IF key \in DOMAIN s.answers
                  THEN {[idx |-> n, answer |-> a] : a \in Elements(s.answers[key].answers)}
                  ELSE {}
<1>1. /\ Len(t.consumers) = n /\ t.consumers[n] = c
      /\ 1 .. n = (1 .. Len(s.consumers)) \cup {n} /\ n \notin 1 .. Len(s.consumers)
      /\ \A i \in 1 .. Len(s.consumers) : t.consumers[i] = s.consumers[i]
  BY StoredConsumer
<1> HIDE DEF n
<1>2. ASSUME NEW k
      PROVE  WaitingAt(t, k) = WaitingAt(s, k) \cup (IF k = key THEN {n} ELSE {})
  BY <1>1 DEF WaitingAt
<1>3. ASSUME NEW x \in DueOf(t) PROVE x \in DueOf(s) \cup New
  <2>1. PICK i \in 1 .. n :
            /\ WaitsAt(t.consumers[i]) \in DOMAIN t.answers
            /\ \E a \in Elements(t.answers[WaitsAt(t.consumers[i])].answers) :
                   x = [idx |-> i, answer |-> a]
    BY <1>1, <1>3, DueMembers
  <2> DEFINE g == WaitsAt(t.consumers[i])
  <2>2. PICK a \in Elements(t.answers[g].answers) : x = [idx |-> i, answer |-> a]
    BY <2>1
  <2>3. g \in DOMAIN s.answers /\ a \in Elements(s.answers[g].answers)
    <3>1. Elements(<< >>) = {}
      BY EmptyElements
    <3> QED BY <2>1, <2>2, <3>1
  <2>4. CASE i \in 1 .. Len(s.consumers)
    BY <1>1, <2>2, <2>3, <2>4, DueMembers
  <2>5. CASE i = n
    BY <1>1, <2>2, <2>3, <2>5
  <2> QED BY <1>1, <2>4, <2>5
<1>4. ASSUME NEW x \in DueOf(s) PROVE x \in DueOf(t) /\ x.idx # n
  <2>1. PICK i \in 1 .. Len(s.consumers) :
            /\ WaitsAt(s.consumers[i]) \in DOMAIN s.answers
            /\ \E a \in Elements(s.answers[WaitsAt(s.consumers[i])].answers) :
                   x = [idx |-> i, answer |-> a]
    BY <1>4, DueMembers
  <2> DEFINE g == WaitsAt(s.consumers[i])
  <2>2. PICK a \in Elements(s.answers[g].answers) : x = [idx |-> i, answer |-> a]
    BY <2>1
  <2>3. i \in 1 .. Len(t.consumers) /\ i # n /\ t.consumers[i] = s.consumers[i]
    BY <1>1
  <2>4. x.idx = i
    BY <2>2
  <2>5. g \in DOMAIN t.answers /\ a \in Elements(t.answers[g].answers)
    BY <2>1, <2>2
  <2> QED BY <2>2, <2>3, <2>4, <2>5, DueMembers
<1>5. ASSUME NEW x \in New PROVE x \in DueOf(t)
  <2>1. key \in DOMAIN s.answers
    BY <1>5
  <2>2. PICK a \in Elements(s.answers[key].answers) : x = [idx |-> n, answer |-> a]
    BY <1>5, <2>1
  <2>3. n \in 1 .. Len(t.consumers) /\ WaitsAt(t.consumers[n]) = key
    BY <1>1
  <2>4. key \in DOMAIN t.answers /\ a \in Elements(t.answers[key].answers)
    BY <2>1, <2>2
  <2> HIDE DEF key
  <2> QED BY <2>2, <2>3, <2>4, DueMembers
<1>6. DueOf(t) = DueOf(s) \cup New
  BY <1>3, <1>4, <1>5
<1> QED BY <1>2, <1>4, <1>6 DEF n

\* A consumer that joins an entry is due the answers the entry has.
LEMMA AddWaiterKeeps ==
    ASSUME NEW s, SearchInv(s), NEW c, IsNode(c), c.key \in DOMAIN s.answers,
           WaitsAt(c) \in DOMAIN s.answers
    PROVE  SearchInv(AddWaiter([s EXCEPT !.consumers = Append(@, c)], WaitsAt(c),
                               Len(Append(s.consumers, c))))
<1> DEFINE key == WaitsAt(c)
<1> DEFINE m == Append(s.consumers, c)
<1> DEFINE n == Len(s.consumers) + 1
<1> DEFINE s1 == [s EXCEPT !.consumers = m]
<1> DEFINE entry == s.answers[key]
<1> DEFINE known == entry.answers
<1> DEFINE r == [i \in DOMAIN known |-> [idx |-> n, answer |-> known[i]]]
<1> DEFINE more == Append(entry.waiters, n)
<1> DEFINE t == AddWaiter(s1, key, Len(m))
<1> HIDE DEF key
<1>1. /\ Sequence(m) /\ Len(m) = n /\ n \in Nat /\ m[n] = c
      /\ 1 .. n = (1 .. Len(s.consumers)) \cup {n}
      /\ n \notin 1 .. Len(s.consumers) /\ n # Root
      /\ \A i \in 1 .. Len(s.consumers) : m[i] = s.consumers[i]
  BY StoredConsumer
<1> HIDE DEF m, n
<1>2. /\ Fields(s) /\ key \in DOMAIN s.answers /\ IsEntry(entry)
      /\ Elements(entry.waiters) \ {Root} = WaitingAt(s, key)
  BY DEF SearchInv, WaitersInv, key
<1>3. /\ Fields(s1) /\ s1.answers = s.answers /\ s1.generators = s.generators
      /\ s1.consumers = m /\ s1.resume_stack = s.resume_stack /\ s1.resumed = s.resumed
  BY <1>2 DEF Fields
<1> HIDE DEF s1
<1>4. t = [s1 EXCEPT !.answers = [s.answers EXCEPT ![key] = [entry EXCEPT !.waiters = more]],
                     !.resume_stack = s.resume_stack \o r]
  BY <1>1, <1>3 DEF AddWaiter
<1>5. /\ DOMAIN entry = {"answers", "waiters"}
      /\ Sequence(known) /\ Distinct(known) /\ Sequence(entry.waiters) /\ Injective(entry.waiters)
  BY <1>2 DEF IsEntry
<1> HIDE DEF t
<1>6. /\ Fields(t) /\ t.generators = s.generators /\ t.consumers = m /\ t.resumed = s.resumed
      /\ t.resume_stack = s.resume_stack \o r
      /\ t.answers = [s.answers EXCEPT ![key] = [entry EXCEPT !.waiters = more]]
  BY <1>3, <1>4 DEF Fields
<1>7. /\ DOMAIN t.answers = DOMAIN s.answers
      /\ t.answers[key].answers = known /\ t.answers[key].waiters = more
      /\ DOMAIN t.answers[key] = {"answers", "waiters"}
      /\ \A k \in DOMAIN s.answers \ {key} : t.answers[k] = s.answers[k]
  BY <1>2, <1>5, <1>6
<1>8. \A k \in DOMAIN s.answers : t.answers[k].answers = s.answers[k].answers
  BY <1>7
<1>9. n \notin Elements(entry.waiters)
  BY <1>1, <1>2 DEF WaitingAt
<1>10. Sequence(more) /\ Injective(more) /\ Elements(more) = Elements(entry.waiters) \cup {n}
  <2> DEFINE ws == entry.waiters
  <2>1. Sequence(ws) /\ Injective(ws) /\ n \notin Elements(ws)
    BY <1>5, <1>9
  <2> HIDE DEF ws
  <2>2. /\ Sequence(Append(ws, n)) /\ Injective(Append(ws, n))
        /\ Elements(Append(ws, n)) = Elements(ws) \cup {n}
    BY <2>1, SequenceAppend
  <2> QED BY <2>2 DEF ws
<1>11. Injective(known)
  BY <1>5 DEF Distinct, Injective
<1>12. /\ Sequence(r) /\ Injective(r)
       /\ Elements(r) = {[idx |-> n, answer |-> a] : a \in Elements(known)}
  <2> HIDE DEF known
  <2> QED BY <1>5, <1>11, ReplayedElements
<1> HIDE DEF r, more
<1>13. /\ \A k : WaitingAt(t, k) = WaitingAt(s, k) \cup (IF k = key THEN {n} ELSE {})
       /\ DueOf(t) = DueOf(s) \cup Elements(r)
       /\ \A x \in DueOf(s) : x.idx # n
  <2>1. t.consumers = Append(s.consumers, c)
    BY <1>6 DEF m
  <2>2. /\ \A k : WaitingAt(t, k) = WaitingAt(s, k) \cup (IF k = key THEN {n} ELSE {})
        /\ DueOf(t) = DueOf(s) \cup (IF key \in DOMAIN s.answers
                                    THEN {[idx |-> n, answer |-> a] : a \in Elements(known)}
                                    ELSE {})
        /\ \A x \in DueOf(s) : x.idx # n
    BY <1>7, <1>8, <2>1, StoredWaits DEF key, n
  <2> QED BY <1>2, <1>12, <2>2
<1>14. ResumedInv(t)
  <2>1. /\ Sequence(s.resume_stack) /\ Injective(s.resume_stack)
        /\ s.resumed \cap Elements(s.resume_stack) = {}
        /\ s.resumed \cup Elements(s.resume_stack) = DueOf(s)
    BY DEF SearchInv, ResumedInv
  <2>2. DueOf(s) \cap Elements(r) = {}
    <3> SUFFICES ASSUME NEW a, [idx |-> n, answer |-> a] \in DueOf(s) PROVE FALSE
      BY <1>12
    <3> QED BY <1>13
  <2>3. /\ Sequence(t.resume_stack) /\ Injective(t.resume_stack)
        /\ Elements(t.resume_stack) = Elements(s.resume_stack) \cup Elements(r)
    BY <1>6, <1>12, <2>1, <2>2, SequenceConcat
  <2> QED BY <1>6, <1>13, <2>1, <2>2, <2>3 DEF ResumedInv
<1>15. GeneratorsInv(t)
  BY <1>6, <1>7 DEF SearchInv, GeneratorsInv
<1>16. ConsumersInv(t)
  <2>1. ASSUME NEW i \in 1 .. n
        PROVE  /\ IsNode(m[i]) /\ m[i].key \in DOMAIN s.answers
               /\ WaitsAt(m[i]) \in DOMAIN s.answers \/ GetInstances(WaitsAt(m[i])) = << >>
    BY <1>1 DEF SearchInv, ConsumersInv
  <2> QED BY <1>1, <1>6, <1>7, <2>1 DEF ConsumersInv
<1>17. WaitersInv(t)
  <2> SUFFICES ASSUME NEW k \in DOMAIN s.answers
               PROVE  IsEntry(t.answers[k]) /\ Elements(t.answers[k].waiters) \ {Root} = WaitingAt(t, k)
    BY <1>7 DEF WaitersInv
  <2>1. CASE k = key
    <3>1. IsEntry(t.answers[k])
      BY <1>5, <1>7, <1>10, <2>1 DEF IsEntry
    <3>2. Elements(t.answers[k].waiters) \ {Root} = (Elements(entry.waiters) \ {Root}) \cup {n}
      BY <1>1, <1>7, <1>10, <2>1
    <3> QED BY <1>2, <1>13, <2>1, <3>1, <3>2
  <2>2. CASE k # key
    <3>1. t.answers[k] = s.answers[k] /\ WaitingAt(t, k) = WaitingAt(s, k)
      BY <1>7, <1>13, <2>2
    <3> QED BY <3>1 DEF SearchInv, WaitersInv
  <2> QED BY <2>1, <2>2
<1>18. SearchInv(t)
  BY <1>6, <1>14, <1>15, <1>16, <1>17 DEF SearchInv
<1> QED BY <1>18 DEF t, s1, m, key

\* A goal without an entry gets one that the consumer waits for, or has no candidates.
LEMMA NewSubgoalKeeps ==
    ASSUME NEW s, SearchInv(s), NEW c, IsNode(c), c.key \in DOMAIN s.answers,
           WaitsAt(c) \notin DOMAIN s.answers
    PROVE  SearchInv(NewSubgoal([s EXCEPT !.consumers = Append(@, c)], WaitsAt(c),
                                Len(Append(s.consumers, c))))
<1> DEFINE key == WaitsAt(c)
<1> DEFINE m == Append(s.consumers, c)
<1> DEFINE n == Len(s.consumers) + 1
<1> DEFINE s1 == [s EXCEPT !.consumers = m]
<1> DEFINE candidates == GetInstances(key)
<1> DEFINE gen == [key |-> key, remaining |-> candidates]
<1> DEFINE t == NewSubgoal(s1, key, Len(m))
<1> HIDE DEF key
<1>1. /\ Sequence(m) /\ Len(m) = n /\ n \in Nat /\ m[n] = c
      /\ 1 .. n = (1 .. Len(s.consumers)) \cup {n}
      /\ n \notin 1 .. Len(s.consumers) /\ n # Root
      /\ \A i \in 1 .. Len(s.consumers) : m[i] = s.consumers[i]
  BY StoredConsumer
<1> HIDE DEF m, n
<1>2. Fields(s) /\ key \notin DOMAIN s.answers
  BY DEF SearchInv, key
<1>3. /\ Fields(s1) /\ s1.answers = s.answers /\ s1.generators = s.generators
      /\ s1.consumers = m /\ s1.resume_stack = s.resume_stack /\ s1.resumed = s.resumed
  BY <1>2 DEF Fields
<1>4. /\ Sequence(s.resume_stack) /\ Injective(s.resume_stack)
      /\ s.resumed \cap Elements(s.resume_stack) = {}
      /\ s.resumed \cup Elements(s.resume_stack) = DueOf(s)
  BY DEF SearchInv, ResumedInv
<1> HIDE DEF s1
<1>5. ASSUME NEW i \in 1 .. n
      PROVE  /\ IsNode(m[i]) /\ m[i].key \in DOMAIN s.answers
             /\ \/ WaitsAt(m[i]) \in DOMAIN s.answers
                \/ GetInstances(WaitsAt(m[i])) = << >>
                \/ WaitsAt(m[i]) = key
  BY <1>1 DEF SearchInv, ConsumersInv, key
<1>6. CASE candidates = << >>
  <2>1. t = s1
    BY <1>6 DEF NewSubgoal
  <2> HIDE DEF t
  <2>2. /\ Fields(t) /\ t.answers = s.answers /\ t.generators = s.generators
        /\ t.consumers = m /\ t.resume_stack = s.resume_stack /\ t.resumed = s.resumed
    BY <1>3, <2>1
  <2>3. /\ \A k : WaitingAt(t, k) = WaitingAt(s, k) \cup (IF k = key THEN {n} ELSE {})
        /\ DueOf(t) = DueOf(s)
    <3>1. t.consumers = Append(s.consumers, c)
      BY <2>2 DEF m
    <3>2. /\ \A k : WaitingAt(t, k) = WaitingAt(s, k) \cup (IF k = key THEN {n} ELSE {})
          /\ DueOf(t) = DueOf(s) \cup (IF key \in DOMAIN s.answers
                                      THEN {[idx |-> n, answer |-> a] : a \in Elements(s.answers[key].answers)}
                                      ELSE {})
      BY <2>2, <3>1, StoredWaits DEF key, n
    <3> QED BY <1>2, <3>2
  <2>4. ResumedInv(t)
    BY <1>4, <2>2, <2>3 DEF ResumedInv
  <2>5. GeneratorsInv(t)
    BY <2>2 DEF SearchInv, GeneratorsInv
  <2>6. ConsumersInv(t)
    BY <1>1, <1>5, <1>6, <2>2 DEF ConsumersInv
  <2>7. WaitersInv(t)
    <3>1. \A k \in DOMAIN s.answers : WaitingAt(t, k) = WaitingAt(s, k)
      BY <1>2, <2>3
    <3> QED BY <2>2, <3>1 DEF SearchInv, WaitersInv
  <2>8. SearchInv(t)
    BY <2>2, <2>4, <2>5, <2>6, <2>7 DEF SearchInv
  <2> QED BY <2>8 DEF t, s1, m, key
<1>7. CASE candidates # << >>
  <2> DEFINE fresh == [answers |-> << >>, waiters |-> <<n>>]
  <2> DEFINE gens == Append(s.generators, gen)
  <2> DEFINE table == [k \in DOMAIN s.answers \cup {key} |-> IF k = key THEN fresh ELSE s.answers[k]]
  <2>1. t = [s1 EXCEPT !.generators = gens, !.answers = table]
    BY <1>1, <1>3, <1>7 DEF NewSubgoal, Fields
  <2>2. GetInstances(key) # << >>
    BY <1>7
  <2> HIDE DEF t, gens, table, gen
  <2>3. /\ Fields(t) /\ t.answers = table /\ t.generators = gens
        /\ t.consumers = m /\ t.resume_stack = s.resume_stack /\ t.resumed = s.resumed
    BY <1>3, <2>1 DEF Fields
  <2>4. /\ DOMAIN t.answers = DOMAIN s.answers \cup {key}
        /\ t.answers[key] = fresh
        /\ \A k \in DOMAIN s.answers : t.answers[k] = s.answers[k]
    BY <1>2, <2>3 DEF table
  <2>5. t.answers[key].answers = << >> /\ t.answers[key].waiters = <<n>>
    BY <2>4
  <2>6. IsEntry(t.answers[key]) /\ Elements(<<n>>) = {n}
    <3>1. Sequence(<< >>) /\ Distinct(<< >>)
      BY DEF Sequence, Distinct
    <3>2. Sequence(<<n>>) /\ Injective(<<n>>) /\ Elements(<<n>>) = {n}
      <4>1. <<n>> \in Seq({n}) /\ Len(<<n>>) = 1 /\ <<n>>[1] = n /\ 1 .. 1 = {1}
        OBVIOUS
      <4> QED BY <4>1 DEF Sequence, Injective, Elements
    <3> QED BY <2>4, <3>1, <3>2 DEF IsEntry
  <2>7. /\ \A k : WaitingAt(t, k) = WaitingAt(s, k) \cup (IF k = key THEN {n} ELSE {})
        /\ DueOf(t) = DueOf(s)
    <3>1. t.consumers = Append(s.consumers, c)
      BY <2>3 DEF m
    <3> HIDE DEF fresh
    <3>2. /\ \A k : WaitingAt(t, k) = WaitingAt(s, k) \cup (IF k = key THEN {n} ELSE {})
          /\ DueOf(t) = DueOf(s) \cup (IF key \in DOMAIN s.answers
                                      THEN {[idx |-> n, answer |-> a] : a \in Elements(s.answers[key].answers)}
                                      ELSE {})
      BY <2>2, <2>4, <2>5, <3>1, StoredWaits DEF key, n
    <3> QED BY <1>2, <3>2
  <2>8. WaitingAt(s, key) = {}
    BY <1>2, <2>2 DEF SearchInv, ConsumersInv, WaitingAt
  <2>9. ResumedInv(t)
    BY <1>4, <2>3, <2>7 DEF ResumedInv
  <2>10. GeneratorsInv(t)
    <3>1. Sequence(s.generators)
      BY DEF SearchInv, GeneratorsInv
    <3>2. /\ Sequence(gens) /\ Len(gens) = Len(s.generators) + 1
          /\ gens[Len(s.generators) + 1] = gen
          /\ \A i \in 1 .. Len(s.generators) : gens[i] = s.generators[i]
      BY <3>1, SequenceAppend DEF gens
    <3>3. \A i \in 1 .. Len(gens) : i \in 1 .. Len(s.generators) \/ i = Len(s.generators) + 1
      BY <3>1, <3>2, SequenceElements
    <3>4. DOMAIN gen = {"key", "remaining"} /\ gen.key = key
      BY DEF gen
    <3>5. ASSUME NEW i \in 1 .. Len(gens)
          PROVE  DOMAIN gens[i] = {"key", "remaining"} /\ gens[i].key \in DOMAIN t.answers
      <4>1. CASE i \in 1 .. Len(s.generators)
        BY <2>4, <3>2, <4>1 DEF SearchInv, GeneratorsInv
      <4>2. CASE i = Len(s.generators) + 1
        BY <2>4, <3>2, <3>4, <4>2
      <4> QED BY <3>3, <4>1, <4>2
    <3>6. \A k \in DOMAIN t.answers : GetInstances(k) # << >>
      BY <2>2, <2>4 DEF SearchInv, GeneratorsInv
    <3> QED BY <2>3, <3>2, <3>5, <3>6 DEF GeneratorsInv
  <2>11. ConsumersInv(t)
    BY <1>1, <1>5, <2>3, <2>4 DEF ConsumersInv
  <2>12. WaitersInv(t)
    <3> SUFFICES ASSUME NEW k \in DOMAIN t.answers
                 PROVE  IsEntry(t.answers[k]) /\ Elements(t.answers[k].waiters) \ {Root} = WaitingAt(t, k)
      BY DEF WaitersInv
    <3>1. CASE k = key
      BY <1>1, <2>5, <2>6, <2>7, <2>8, <3>1
    <3>2. CASE k # key
      <4>1. k \in DOMAIN s.answers /\ t.answers[k] = s.answers[k] /\ WaitingAt(t, k) = WaitingAt(s, k)
        BY <2>4, <2>7, <3>2
      <4> QED BY <4>1 DEF SearchInv, WaitersInv
    <3> QED BY <3>1, <3>2
  <2>13. SearchInv(t)
    BY <2>3, <2>9, <2>10, <2>11, <2>12 DEF SearchInv
  <2> QED BY <2>13 DEF t, s1, m, key
<1> QED BY <1>6, <1>7

\* consume keeps the invariant.
LEMMA ConsumeKeeps ==
    ASSUME NEW s, SearchInv(s), NEW c, IsNode(c), c.key \in DOMAIN s.answers
    PROVE  SearchInv(Consume(s, c))
<1> DEFINE open == {i \in c.next..Len(c.subgoals) : IsVar(c.subgoals[i].ev)}
<1>1. CASE open = {}
  <2>1. Consume(s, c) = AddAnswer(s, c)
    BY <1>1 DEF Consume
  <2> QED BY <2>1, AddAnswerKeeps
<1>2. CASE open # {}
  <2> DEFINE next == CHOOSE i \in open : \A j \in open : i <= j
  <2> DEFINE key == GoalKey(c.subgoals[next].cls, c.subgoals[next].args)
  <2> DEFINE d == [c EXCEPT !.next = next]
  <2> DEFINE s1 == [s EXCEPT !.consumers = Append(@, d)]
  <2>1. Consume(s, c) = IF key \in DOMAIN s1.answers THEN AddWaiter(s1, key, Len(s1.consumers))
                        ELSE NewSubgoal(s1, key, Len(s1.consumers))
    BY <1>2 DEF Consume
  <2> HIDE DEF next
  <2>2. IsNode(d) /\ d.key = c.key /\ d.next = next /\ d.subgoals = c.subgoals
    BY DEF IsNode
  <2>3. WaitsAt(d) = key
    <3> HIDE DEF d
    <3> QED BY <2>2 DEF WaitsAt
  <2> HIDE DEF d, key
  <2>4. s1.answers = s.answers /\ s1.consumers = Append(s.consumers, d)
    BY DEF SearchInv, Fields
  <2>5. CASE key \in DOMAIN s.answers
    <3>1. Consume(s, c) = AddWaiter(s1, WaitsAt(d), Len(Append(s.consumers, d)))
      BY <2>1, <2>3, <2>4, <2>5
    <3> QED BY <2>2, <2>3, <2>5, <3>1, AddWaiterKeeps
  <2>6. CASE key \notin DOMAIN s.answers
    <3>1. Consume(s, c) = NewSubgoal(s1, WaitsAt(d), Len(Append(s.consumers, d)))
      BY <2>1, <2>3, <2>4, <2>6
    <3> QED BY <2>2, <2>3, <2>6, <3>1, NewSubgoalKeeps
  <2> QED BY <2>5, <2>6
<1> QED BY <1>1, <1>2

-----------------------------------------------------------------------------
(* The steps. *)

\* The search starts with one entry, or with none if the goal has no candidates.
LEMMA SearchStarts == Init => SearchInv(st)
<1> SUFFICES ASSUME Init PROVE SearchInv(st)
  OBVIOUS
<1> DEFINE key == SearchGoal(goal)
<1> DEFINE s == [answers |-> << >>, generators |-> << >>, consumers |-> << >>,
                 resume_stack |-> << >>, result |-> << >>, resumed |-> {}, dropped |-> FALSE]
<1> DEFINE gen == [key |-> key, remaining |-> GetInstances(key)]
<1> DEFINE fresh == [answers |-> << >>, waiters |-> <<Root>>]
<1>1. st = NewSubgoal(s, key, Root)
  BY DEF Init
<1> HIDE DEF key
<1>2. /\ Sequence(<< >>) /\ Distinct(<< >>) /\ Injective(<< >>) /\ Elements(<< >>) = {}
      /\ Len(<< >>) = 0 /\ 1 .. 0 = {} /\ DOMAIN << >> = {}
  BY EmptyElements DEF Sequence, Distinct
<1>3. /\ Fields(s) /\ s.answers = << >> /\ s.generators = << >> /\ s.consumers = << >>
      /\ s.resume_stack = << >> /\ s.resumed = {}
  BY DEF Fields
<1>4. ASSUME NEW t, Fields(t), t.consumers = << >>, t.resume_stack = << >>, t.resumed = {},
             GeneratorsInv(t),
             \A k \in DOMAIN t.answers : IsEntry(t.answers[k]) /\ t.answers[k].waiters = <<Root>>
      PROVE  SearchInv(t)
  <2>1. ConsumersInv(t)
    BY <1>2, <1>4 DEF ConsumersInv
  <2>2. \A k : WaitingAt(t, k) = {}
    BY <1>2, <1>4 DEF WaitingAt
  <2>3. Elements(<<Root>>) \ {Root} = {}
    <3>1. Len(<<Root>>) = 1 /\ <<Root>>[1] = Root /\ 1 .. 1 = {1}
      OBVIOUS
    <3> QED BY <3>1 DEF Elements
  <2>4. WaitersInv(t)
    BY <1>4, <2>2, <2>3 DEF WaitersInv
  <2>5. DueOf(t) = {}
    BY <1>2, <1>4, DueMembers
  <2>6. ResumedInv(t)
    BY <1>2, <1>4, <2>5 DEF ResumedInv
  <2> QED BY <1>4, <2>1, <2>4, <2>6 DEF SearchInv
<1> HIDE DEF s
<1>5. CASE GetInstances(key) = << >>
  <2>1. st = s
    BY <1>1, <1>5 DEF NewSubgoal
  <2>2. GeneratorsInv(st)
    BY <1>2, <1>3, <2>1 DEF GeneratorsInv
  <2> QED BY <1>2, <1>3, <1>4, <2>1, <2>2
<1>6. CASE GetInstances(key) # << >>
  <2> DEFINE table == [k \in {key} |-> fresh]
  <2>1. st = [s EXCEPT !.generators = Append(<< >>, gen), !.answers = table]
    <3>1. [k \in DOMAIN s.answers \cup {key} |-> IF k = key THEN fresh ELSE s.answers[k]] = table
      BY <1>2, <1>3
    <3>2. st = [s EXCEPT !.generators = Append(s.generators, gen),
                         !.answers = [k \in DOMAIN s.answers \cup {key} |->
                                          IF k = key THEN fresh ELSE s.answers[k]]]
      BY <1>1, <1>3, <1>6 DEF NewSubgoal, Fields
    <3> QED BY <1>3, <3>1, <3>2
  <2> HIDE DEF gen
  <2>2. /\ Fields(st) /\ st.answers = table /\ st.generators = Append(<< >>, gen)
        /\ st.consumers = << >> /\ st.resume_stack = << >> /\ st.resumed = {}
    BY <1>3, <2>1 DEF Fields
  <2>3. \A k \in DOMAIN st.answers : k = key /\ st.answers[k] = fresh
    BY <2>2
  <2>4. IsEntry(fresh) /\ fresh.waiters = <<Root>>
    <3>1. Sequence(<<Root>>) /\ Injective(<<Root>>)
      <4>1. <<Root>> \in Seq({Root}) /\ Len(<<Root>>) = 1 /\ 1 .. 1 = {1}
        OBVIOUS
      <4> QED BY <4>1 DEF Sequence, Injective
    <3>2. /\ DOMAIN fresh = {"answers", "waiters"}
          /\ fresh.answers = << >> /\ fresh.waiters = <<Root>>
      OBVIOUS
    <3> QED BY <1>2, <3>1, <3>2 DEF IsEntry
  <2>5. GeneratorsInv(st)
    <3>1. /\ Sequence(st.generators) /\ Len(st.generators) = 1 /\ st.generators[1] = gen
          /\ 1 .. 1 = {1}
      <4>1. gen \in {gen} /\ Append(<< >>, gen) = <<gen>>
        OBVIOUS
      <4>2. <<gen>> \in Seq({gen}) /\ Len(<<gen>>) = 1 /\ <<gen>>[1] = gen /\ 1 .. 1 = {1}
        OBVIOUS
      <4> QED BY <2>2, <4>1, <4>2 DEF Sequence
    <3>2. DOMAIN gen = {"key", "remaining"} /\ gen.key = key /\ key \in DOMAIN st.answers
      BY <2>2 DEF gen
    <3> QED BY <1>6, <2>3, <3>1, <3>2 DEF GeneratorsInv
  <2> HIDE DEF fresh
  <2> QED BY <1>4, <2>2, <2>3, <2>4, <2>5
<1> QED BY <1>5, <1>6

\* Taking the last pending resumption: a stored consumer, and an answer of the goal it
\* waits at.
LEMMA TakenKeeps ==
    ASSUME NEW s, SearchInv(s), s.resume_stack # << >>,
           NEW t, t = [s EXCEPT !.resume_stack = Front(@), !.resumed = @ \cup {Last(s.resume_stack)}]
    PROVE  /\ SearchInv(t) /\ t.answers = s.answers /\ t.generators = s.generators
           /\ t.consumers = s.consumers
           /\ \E i \in 1 .. Len(s.consumers) :
                  /\ WaitsAt(s.consumers[i]) \in DOMAIN s.answers
                  /\ \E a \in Elements(s.answers[WaitsAt(s.consumers[i])].answers) :
                         Last(s.resume_stack) = [idx |-> i, answer |-> a]
<1> DEFINE top == Last(s.resume_stack)
<1>1. /\ Fields(s) /\ Sequence(s.resume_stack) /\ Injective(s.resume_stack)
      /\ s.resumed \cap Elements(s.resume_stack) = {}
      /\ s.resumed \cup Elements(s.resume_stack) = DueOf(s)
  BY DEF SearchInv, ResumedInv
<1>2. /\ Sequence(Front(s.resume_stack)) /\ Injective(Front(s.resume_stack))
      /\ top \in Elements(s.resume_stack)
      /\ Elements(s.resume_stack) = Elements(Front(s.resume_stack)) \cup {top}
      /\ top \notin Elements(Front(s.resume_stack))
  BY <1>1, SequenceFront
<1> HIDE DEF top
<1>3. top \in DueOf(s)
  BY <1>1, <1>2
<1>4. /\ Fields(t) /\ t.answers = s.answers /\ t.generators = s.generators
      /\ t.consumers = s.consumers /\ t.resume_stack = Front(s.resume_stack)
      /\ t.resumed = s.resumed \cup {top}
  BY <1>1 DEF Fields, top
<1>5. GeneratorsInv(t)
  BY <1>4 DEF SearchInv, GeneratorsInv
<1>6. ConsumersInv(t)
  BY <1>4 DEF SearchInv, ConsumersInv
<1>7. WaitersInv(t)
  BY <1>4 DEF SearchInv, WaitersInv, WaitingAt
<1>8. ResumedInv(t)
  <2>1. DueOf(t) = DueOf(s)
    BY <1>4 DEF DueOf
  <2> QED BY <1>1, <1>2, <1>4, <2>1 DEF ResumedInv
<1>9. SearchInv(t)
  BY <1>4, <1>5, <1>6, <1>7, <1>8 DEF SearchInv
<1> QED BY <1>3, <1>4, <1>9, DueMembers DEF top

\* Generators of tabled goals.
LEMMA GeneratorsKeep ==
    ASSUME NEW s, SearchInv(s), NEW t, Fields(t), t.answers = s.answers,
           t.consumers = s.consumers, t.resume_stack = s.resume_stack, t.resumed = s.resumed,
           Sequence(t.generators),
           \A i \in 1 .. Len(t.generators) :
               /\ DOMAIN t.generators[i] = {"key", "remaining"}
               /\ t.generators[i].key \in DOMAIN s.answers
    PROVE  SearchInv(t)
<1>1. GeneratorsInv(t)
  BY DEF SearchInv, GeneratorsInv
<1>2. ConsumersInv(t)
  BY DEF SearchInv, ConsumersInv
<1>3. WaitersInv(t)
  BY DEF SearchInv, WaitersInv, WaitingAt
<1>4. ResumedInv(t)
  BY DEF SearchInv, ResumedInv, DueOf
<1> QED BY <1>1, <1>2, <1>3, <1>4 DEF SearchInv

\* Retiring the last generator.
RetiredFrom(s, t) ==
    /\ SearchInv(t) /\ t.answers = s.answers /\ t.consumers = s.consumers
    /\ \A i \in 1 .. Len(t.generators) :
           \E j \in 1 .. Len(s.generators) : t.generators[i] = s.generators[j]

LEMMA RetiredKeeps ==
    ASSUME NEW s, SearchInv(s), s.generators # << >>
    PROVE  RetiredFrom(s, [s EXCEPT !.generators = Front(@)])
<1> DEFINE t == [s EXCEPT !.generators = Front(@)]
<1>1. /\ Fields(s) /\ Sequence(s.generators)
      /\ \A i \in 1 .. Len(s.generators) :
             /\ DOMAIN s.generators[i] = {"key", "remaining"}
             /\ s.generators[i].key \in DOMAIN s.answers
  BY DEF SearchInv, GeneratorsInv
<1>2. /\ Fields(t) /\ t.answers = s.answers /\ t.consumers = s.consumers
      /\ t.resume_stack = s.resume_stack /\ t.resumed = s.resumed
      /\ t.generators = Front(s.generators)
  BY <1>1 DEF Fields
<1>3. Sequence(Front(s.generators)) /\ Elements(Front(s.generators)) \subseteq Elements(s.generators)
  BY <1>1, SequenceFront
<1>4. \A i \in 1 .. Len(t.generators) :
          \E j \in 1 .. Len(s.generators) : t.generators[i] = s.generators[j]
  BY <1>2, <1>3 DEF Elements
<1> HIDE DEF t
<1>5. SearchInv(t)
  BY <1>1, <1>2, <1>3, <1>4, GeneratorsKeep
<1>6. RetiredFrom(s, t)
  BY <1>2, <1>4, <1>5 DEF RetiredFrom
<1> QED BY <1>6 DEF t

\* Taking the next instance of the last generator.
TriedFrom(s, n, t) ==
    /\ SearchInv(t) /\ t.answers = s.answers /\ t.consumers = s.consumers
    /\ n \in 1 .. n /\ Last(s.generators) = s.generators[n]
    /\ Last(s.generators).key \in DOMAIN s.answers
    /\ Len(t.generators) = n
    /\ \A i \in 1 .. n :
           /\ t.generators[i].key = s.generators[i].key
           /\ t.generators[i].remaining = IF i = n THEN Tail(s.generators[n].remaining)
                                          ELSE s.generators[i].remaining

LEMMA TriedKeeps ==
    ASSUME NEW s, SearchInv(s), s.generators # << >>, NEW n, n = Len(s.generators)
    PROVE  TriedFrom(s, n, [s EXCEPT !.generators[n].remaining = Tail(@)])
<1> DEFINE t == [s EXCEPT !.generators[n].remaining = Tail(@)]
<1> DEFINE gens == [s.generators EXCEPT ![n] = [s.generators[n] EXCEPT !.remaining = Tail(@)]]
<1>1. /\ Fields(s) /\ Sequence(s.generators)
      /\ \A i \in 1 .. Len(s.generators) :
             /\ DOMAIN s.generators[i] = {"key", "remaining"}
             /\ s.generators[i].key \in DOMAIN s.answers
  BY DEF SearchInv, GeneratorsInv
<1>2. n \in Nat \ {0} /\ n \in 1 .. n /\ DOMAIN s.generators = 1 .. n
  <2>1. PICK S : s.generators \in Seq(S)
    BY <1>1 DEF Sequence
  <2> QED BY <2>1
<1>3. t = [s EXCEPT !.generators = gens]
  BY <1>1 DEF Fields
<1>4. Sequence(gens) /\ Len(gens) = n
  <2>1. PICK S : s.generators \in Seq(S)
    BY <1>1 DEF Sequence
  <2> DEFINE g == [s.generators[n] EXCEPT !.remaining = Tail(@)]
  <2> DEFINE T == S \cup {g}
  <2>2. s.generators \in Seq(T) /\ g \in T
    BY <2>1
  <2> HIDE DEF g, T
  <2>3. [s.generators EXCEPT ![n] = g] \in Seq(T) /\ Len([s.generators EXCEPT ![n] = g]) = n
    BY <1>2, <2>2
  <2> QED BY <2>3 DEF Sequence, g
<1>5. ASSUME NEW i \in 1 .. n
      PROVE  /\ DOMAIN gens[i] = {"key", "remaining"} /\ gens[i].key = s.generators[i].key
             /\ gens[i].remaining = IF i = n THEN Tail(s.generators[n].remaining)
                                    ELSE s.generators[i].remaining
  BY <1>1, <1>2
<1> HIDE DEF gens, t
<1>6. /\ Fields(t) /\ t.answers = s.answers /\ t.consumers = s.consumers
      /\ t.resume_stack = s.resume_stack /\ t.resumed = s.resumed /\ t.generators = gens
  BY <1>1, <1>3 DEF Fields
<1>7. SearchInv(t)
  BY <1>1, <1>4, <1>5, <1>6, GeneratorsKeep
<1>8. Last(s.generators) = s.generators[n]
  BY DEF Last
<1>9. TriedFrom(s, n, t)
  BY <1>1, <1>2, <1>4, <1>5, <1>6, <1>7, <1>8 DEF TriedFrom
<1> QED BY <1>9 DEF t

\* An assignment leaves a node one, with its goal.
LEMMA InstantiateNode ==
    ASSUME NEW c, IsNode(c), NEW sub
    PROVE  IsNode(Instantiate(sub, c)) /\ Instantiate(sub, c).key = c.key
  BY DEF Instantiate, IsNode

\* What try_resolve makes answers the generator's goal.
LEMMA ResolvedNode ==
    ASSUME NEW key, NEW c
    PROVE  IsNode(TryResolve(key, c).node) /\ TryResolve(key, c).node.key = key
<1> DEFINE n == Len(key.args)
<1> DEFINE node == [key |-> key, target |-> key.args, inst |-> c.name, next |-> 1, size |-> 0,
                    fresh |-> n + c.nvars,
                    vals |-> [i \in 1..c.nvars |-> Var(n + i)],
                    subgoals |-> [i \in DOMAIN c.prems |->
                                    [c.prems[i] EXCEPT !.args = Shift(n, @), !.ev = Var(@[2] + n)]]]
<1> DEFINE sub == Unify("var", key.args, Shift(n, c.head.args)).sub
<1>1. TryResolve(key, c).node = Instantiate(sub, node)
  BY DEF TryResolve
<1>2. IsNode(node) /\ node.key = key
  BY DEF IsNode
<1> HIDE DEF node, sub
<1> QED BY <1>1, <1>2, InstantiateNode

\* What try_answer makes answers the goal of the consumer it resumes.
LEMMA AnsweredNode ==
    ASSUME NEW c, IsNode(c), NEW a
    PROVE  IsNode(TryAnswer(c, a).node) /\ TryAnswer(c, a).node.key = c.key
<1> DEFINE p == c.subgoals[c.next]
<1> DEFINE node == [c EXCEPT !.next = @ + 1, !.size = @ + a.size, !.fresh = @ + a.open,
                             !.vals = @ \o [i \in 1..a.open |-> Var(c.fresh + i)]]
<1> DEFINE sub == Bind(Unify("var", p.args, Shift(c.fresh, a.args)).sub, p.ev, Inst)
<1>1. TryAnswer(c, a).node = Instantiate(sub, node)
  BY DEF TryAnswer
<1>2. IsNode(node) /\ node.key = c.key
  BY DEF IsNode
<1> HIDE DEF node, sub
<1> QED BY <1>1, <1>2, InstantiateNode

\* Whatever becomes of a unification, the invariant is kept.
LEMMA OutcomeKeeps ==
    ASSUME NEW s, SearchInv(s), NEW r, IsNode(r.node), r.node.key \in DOMAIN s.answers,
           Outcome(r, s)
    PROVE  SearchInv(st')
  BY ConsumeKeeps DEF Outcome

\* The instances are fixed, so what is said of them holds after a step.
LEMMA NextSearch ==
    ASSUME UNCHANGED db, SearchInv(st') PROVE SearchInv(st)'
<1>1. \A k : GetInstances(k)' = GetInstances(k)
  BY DEF GetInstances
<1>2. (\A k : GetInstances(k)' = GetInstances(k)) /\ GeneratorsInv(st') => GeneratorsInv(st)'
  BY DEF GeneratorsInv
<1>3. (\A k : GetInstances(k)' = GetInstances(k)) /\ ConsumersInv(st') => ConsumersInv(st)'
  BY DEF ConsumersInv
<1>4. WaitersInv(st') /\ ResumedInv(st') /\ Fields(st')
      => WaitersInv(st)' /\ ResumedInv(st)' /\ Fields(st)'
  OBVIOUS
<1> QED BY <1>1, <1>2, <1>3, <1>4 DEF SearchInv

\* Every step keeps the invariant.
LEMMA SearchStep == SearchInv(st) /\ [Next]_vars => SearchInv(st)'
<1> SUFFICES ASSUME SearchInv(st), [Next]_vars PROVE SearchInv(st)'
  OBVIOUS
<1>1. db' = db
  BY DEF Next, Resume, Generate, Return, vars
<1>2. CASE Resume
  <2> DEFINE top == Last(st.resume_stack)
  <2> DEFINE s == [st EXCEPT !.resume_stack = Front(@), !.resumed = @ \cup {top}]
  <2> DEFINE r == TryAnswer(st.consumers[top.idx], top.answer)
  <2>1. st.resume_stack # << >> /\ Outcome(r, s)
    BY <1>2 DEF Resume
  <2>2. PICK i \in 1 .. Len(st.consumers) : \E a : top = [idx |-> i, answer |-> a]
    BY <2>1, TakenKeeps
  <2>3. SearchInv(s) /\ s.answers = st.answers
    BY <2>1, TakenKeeps
  <2>4. IsNode(st.consumers[top.idx]) /\ st.consumers[top.idx].key \in DOMAIN st.answers
    <3>1. top.idx = i
      BY <2>2
    <3> HIDE DEF top
    <3> QED BY <3>1 DEF SearchInv, ConsumersInv
  <2>5. IsNode(r.node) /\ r.node.key = st.consumers[top.idx].key
    <3> HIDE DEF top
    <3> QED BY <2>4, AnsweredNode
  <2> HIDE DEF r, s
  <2>6. SearchInv(st')
    BY <2>1, <2>3, <2>4, <2>5, OutcomeKeeps
  <2> QED BY <1>1, <2>6, NextSearch
<1>3. CASE Generate
  <2> DEFINE top == Last(st.generators)
  <2> DEFINE n == Len(st.generators)
  <2> DEFINE s == [st EXCEPT !.generators[n].remaining = Tail(@)]
  <2> DEFINE r == TryResolve(top.key, Head(top.remaining))
  <2>1. /\ st.generators # << >>
        /\ st' = [st EXCEPT !.generators = Front(@)] \/ Outcome(r, s)
    BY <1>3 DEF Generate
  <2>2. CASE st' = [st EXCEPT !.generators = Front(@)]
    <3>1. SearchInv(st')
      BY <2>1, <2>2, RetiredKeeps DEF RetiredFrom
    <3> QED BY <1>1, <3>1, NextSearch
  <2>3. CASE Outcome(r, s)
    <3>1. SearchInv(s) /\ s.answers = st.answers /\ top.key \in DOMAIN st.answers
      BY <2>1, TriedKeeps DEF TriedFrom
    <3>2. IsNode(r.node) /\ r.node.key = top.key
      BY ResolvedNode
    <3> HIDE DEF r, s, top
    <3>3. SearchInv(st')
      BY <2>3, <3>1, <3>2, OutcomeKeeps
    <3> QED BY <1>1, <3>3, NextSearch
  <2> QED BY <2>1, <2>2, <2>3
<1>4. CASE st' = st
  BY <1>1, <1>4, NextSearch
<1>5. CASE Return
  BY <1>4, <1>5 DEF Return
<1>6. CASE UNCHANGED vars
  BY <1>4, <1>6 DEF vars
<1> QED BY <1>2, <1>3, <1>5, <1>6 DEF Next

\* For any instances, any goal and however terms unify: every answer of a
\* goal is pending for, or was resumed with, each consumer that waits for
\* the goal, and exactly once.
THEOREM AnswersAreDelivered == Spec => []EachAnswerReachesEachWaiterOnce
<1>1. Init => SearchInv(st)
  BY SearchStarts
<1>2. SearchInv(st) /\ [Next]_vars => SearchInv(st)'
  BY SearchStep
<1>3. SearchInv(st) => EachAnswerReachesEachWaiterOnce
  <2> SUFFICES ASSUME SearchInv(st) PROVE EachAnswerReachesEachWaiterOnce
    OBVIOUS
  <2>1. /\ Sequence(st.resume_stack) /\ Injective(st.resume_stack)
        /\ st.resumed \cap Elements(st.resume_stack) = {}
        /\ st.resumed \cup Elements(st.resume_stack) = DueOf(st)
    BY DEF SearchInv, ResumedInv
  <2>2. ToSet(st.resume_stack) = Elements(st.resume_stack) /\ IsInjective(st.resume_stack)
    BY <2>1, SequenceElements
  <2>3. DOMAIN st.consumers = 1 .. Len(st.consumers)
    BY SequenceElements DEF SearchInv, ConsumersInv
  <2>4. \A k \in DOMAIN st.answers : ToSet(st.answers[k].answers) = Elements(st.answers[k].answers)
    BY SequenceElements DEF SearchInv, WaitersInv, IsEntry
  <2>5. DueOf(st) = Due
    BY <2>3, <2>4 DEF DueOf, Due
  <2> QED BY <2>1, <2>2, <2>5 DEF EachAnswerReachesEachWaiterOnce
<1> QED BY <1>1, <1>2, <1>3, PTL DEF Spec

-----------------------------------------------------------------------------
(* Terms and what they stand for. *)

Vars == {Var(n) : n \in Nat}

Terms == Ground \cup Vars

\* A grounding gives every metavariable of the search a term of the reference.
Groundings == [Vars -> Ground]

\* The reference ranges over terms that are not the search's own metavariables.
GroundTerms == Inst \in Ground /\ \A t \in Ground : ~IsVar(t)

\* Terms are told apart by their tag.
LEMMA TermKinds ==
    ASSUME GroundTerms
    PROVE  /\ \A t \in Vars : IsVar(t) /\ t[2] \in Nat /\ t = Var(t[2])
           /\ \A t \in Terms : IsVar(t) <=> t \in Vars
           /\ Ground \cap Vars = {}
<1>1. ASSUME NEW t \in Vars PROVE IsVar(t) /\ t[2] \in Nat /\ t = Var(t[2])
  <2>1. PICK n \in Nat : t = Var(n)
    BY DEF Vars
  <2>2. t = <<"var", n>>
    BY <2>1 DEF Var
  <2>3. t[1] = "var" /\ t[2] = n
    BY <2>2
  <2> QED BY <2>1, <2>3 DEF IsVar
<1> QED BY <1>1 DEF GroundTerms, Terms

\* The arguments after a substitution.
LEMMA ApplyAllArgs ==
    ASSUME NEW S, NEW ts \in Seq(S), NEW sub, NEW T, \A t \in S : Apply(sub, t) \in T
    PROVE  /\ ApplyAll(sub, ts) \in Seq(T) /\ Len(ApplyAll(sub, ts)) = Len(ts)
           /\ \A i \in 1 .. Len(ts) : ApplyAll(sub, ts)[i] = Apply(sub, ts[i])
<1>1. DOMAIN ts = 1 .. Len(ts) /\ Len(ts) \in Nat /\ \A i \in 1 .. Len(ts) : ts[i] \in S
  OBVIOUS
<1>2. ApplyAll(sub, ts) = [i \in 1 .. Len(ts) |-> Apply(sub, ts[i])]
  BY <1>1 DEF ApplyAll
<1> HIDE DEF Apply
<1>3. ApplyAll(sub, ts) \in [1 .. Len(ts) -> T]
  BY <1>1, <1>2
<1> QED BY <1>1, <1>2, <1>3

\* Two substitutions that agree on the terms agree on the arguments.
LEMMA ApplyAllSame ==
    ASSUME NEW S, NEW ts \in Seq(S), NEW us \in Seq(S), Len(us) = Len(ts), NEW f, NEW g,
           \A i \in 1 .. Len(ts) : Apply(f, ts[i]) = Apply(g, us[i])
    PROVE  ApplyAll(f, ts) = ApplyAll(g, us)
<1>1. /\ DOMAIN ts = 1 .. Len(ts) /\ DOMAIN us = 1 .. Len(ts)
  OBVIOUS
<1> HIDE DEF Apply
<1> QED BY <1>1 DEF ApplyAll

\* A grounding makes every term ground.
LEMMA Grounds ==
    ASSUME GroundTerms, NEW g \in Groundings
    PROVE  /\ \A t \in Terms : Apply(g, t) \in Ground
           /\ \A t \in Ground : Apply(g, t) = t
           /\ \A t \in Vars : Apply(g, t) = g[t]
  BY TermKinds DEF Groundings, Apply, Terms

\* A grounding after a substitution.
After(g, sub) == [v \in Vars |-> Apply(g, Apply(sub, v))]

LEMMA AfterGrounds ==
    ASSUME GroundTerms, NEW g \in Groundings, NEW sub, DOMAIN sub \subseteq Vars,
           \A v \in DOMAIN sub : sub[v] \in Terms
    PROVE  /\ After(g, sub) \in Groundings
           /\ \A t \in Terms : Apply(After(g, sub), t) = Apply(g, Apply(sub, t))
<1>1. \A t \in Vars : Apply(sub, t) \in Terms
  BY DEF Apply, Terms
<1>2. After(g, sub) \in Groundings
  BY <1>1, Grounds DEF After, Groundings
<1>3. ASSUME NEW t \in Terms PROVE Apply(After(g, sub), t) = Apply(g, Apply(sub, t))
  <2>1. CASE t \in Vars
    BY <1>2, <2>1, Grounds DEF After
  <2>2. CASE t \notin Vars
    <3>1. t \in Ground /\ Apply(sub, t) = t
      BY <2>2 DEF Terms, Apply
    <3> QED BY <1>2, <3>1, Grounds
  <2> QED BY <2>1, <2>2
<1> QED BY <1>2, <1>3

-----------------------------------------------------------------------------
(* Unification. *)

\* What unification has got to on terms with metavariables in V.
Substs(V) == UNION {[D -> Ground \cup V] : D \in SUBSET V}

Unifications(V) == [res : {"ok", "fail", "stuck"}, sub : Substs(V)]

\* No assigned metavariable is in what another was assigned.
Resolved(s) == \A v \in DOMAIN s : s[v] \notin DOMAIN s

LEMMA SubstsAre ==
    ASSUME NEW V, NEW s
    PROVE  s \in Substs(V) <=> /\ s = [v \in DOMAIN s |-> s[v]] /\ DOMAIN s \subseteq V
                              /\ \A v \in DOMAIN s : s[v] \in Ground \cup V
<1>1. ASSUME s \in Substs(V)
      PROVE  /\ s = [v \in DOMAIN s |-> s[v]] /\ DOMAIN s \subseteq V
             /\ \A v \in DOMAIN s : s[v] \in Ground \cup V
  <2>1. PICK D \in SUBSET V : s \in [D -> Ground \cup V]
    BY <1>1 DEF Substs
  <2> QED BY <2>1
<1>2. ASSUME s = [v \in DOMAIN s |-> s[v]], DOMAIN s \subseteq V,
             \A v \in DOMAIN s : s[v] \in Ground \cup V
      PROVE  s \in Substs(V)
  <2>1. s \in [DOMAIN s -> Ground \cup V] /\ DOMAIN s \in SUBSET V
    BY <1>2
  <2> QED BY <2>1 DEF Substs
<1> QED BY <1>1, <1>2

\* What an assignment of v does to a term.
LEMMA BindApplies ==
    ASSUME NEW s, NEW v, NEW t, v \notin DOMAIN s, NEW x
    PROVE  Apply(Bind(s, v, t), x) = IF Apply(s, x) = v THEN t ELSE Apply(s, x)
<1> DEFINE b == Bind(s, v, t)
<1>1. b = [w \in DOMAIN s \cup {v} |-> IF w = v \/ s[w] = v THEN t ELSE s[w]]
  BY DEF Bind
<1> HIDE DEF b
<1>2. /\ DOMAIN b = DOMAIN s \cup {v} /\ b[v] = t
      /\ \A w \in DOMAIN s : b[w] = IF s[w] = v THEN t ELSE s[w]
  BY <1>1
<1>3. Apply(b, x) = IF Apply(s, x) = v THEN t ELSE Apply(s, x)
  <2>1. CASE x \in DOMAIN s
    BY <1>2, <2>1 DEF Apply
  <2>2. CASE x = v
    BY <1>2, <2>2 DEF Apply
  <2>3. CASE x \notin DOMAIN s /\ x # v
    BY <1>2, <2>3 DEF Apply
  <2> QED BY <2>1, <2>2, <2>3
<1> QED BY <1>3 DEF b

\* Assigning v, which has no value and is not in t, keeps what was equal.
LEMMA BindKeeps ==
    ASSUME NEW V, NEW s \in Substs(V), Resolved(s), NEW v \in V, NEW t \in Ground \cup V,
           v \notin DOMAIN s, t \notin DOMAIN s, t # v
    PROVE  /\ Bind(s, v, t) \in Substs(V) /\ Resolved(Bind(s, v, t))
           /\ \A x : Apply(Bind(s, v, t), x) = IF Apply(s, x) = v THEN t ELSE Apply(s, x)
<1> DEFINE b == Bind(s, v, t)
<1>1. b = [w \in DOMAIN s \cup {v} |-> IF w = v \/ s[w] = v THEN t ELSE s[w]]
  BY DEF Bind
<1>2. DOMAIN s \subseteq V /\ \A w \in DOMAIN s : s[w] \in Ground \cup V
  BY SubstsAre
<1> HIDE DEF b
<1>3. /\ DOMAIN b = DOMAIN s \cup {v} /\ b = [w \in DOMAIN b |-> b[w]]
      /\ b[v] = t
      /\ \A w \in DOMAIN s : b[w] = IF s[w] = v THEN t ELSE s[w]
  BY <1>1
<1>4. b \in Substs(V)
  <2>1. \A w \in DOMAIN b : b[w] \in Ground \cup V
    BY <1>2, <1>3
  <2> QED BY <1>2, <1>3, <2>1, SubstsAre
<1>5. Resolved(b)
  <2> SUFFICES ASSUME NEW w \in DOMAIN b PROVE b[w] \notin DOMAIN s /\ b[w] # v
    BY <1>3 DEF Resolved
  <2>1. CASE w = v
    BY <1>3, <2>1
  <2>2. CASE w # v
    <3>1. w \in DOMAIN s /\ s[w] \notin DOMAIN s
      BY <1>3, <2>2 DEF Resolved
    <3> QED BY <1>3, <3>1
  <2> QED BY <2>1, <2>2
<1>6. \A x : Apply(b, x) = IF Apply(s, x) = v THEN t ELSE Apply(s, x)
  BY BindApplies DEF b
<1> QED BY <1>4, <1>5, <1>6 DEF b

\* What a step of unification knows of the one before.
Solves(V, u, w, l, r) ==
    w.res = "ok" =>
        /\ u.res = "ok" /\ Resolved(w.sub)
        /\ Apply(w.sub, l) = Apply(w.sub, r)
        /\ \A x, y : Apply(u.sub, x) = Apply(u.sub, y) => Apply(w.sub, x) = Apply(w.sub, y)

LEMMA UnifyTermsSolves ==
    ASSUME GroundTerms, NEW V, V \subseteq Vars, NEW u \in Unifications(V),
           u.res = "ok" => Resolved(u.sub),
           NEW l \in Ground \cup V, NEW r \in Ground \cup V
    PROVE  /\ UnifyTerms("var", u, l, r) \in Unifications(V)
           /\ Solves(V, u, UnifyTerms("var", u, l, r), l, r)
<1> DEFINE s == u.sub
<1> DEFINE t == Apply(s, l)
<1> DEFINE v == Apply(s, r)
<1> DEFINE w == UnifyTerms("var", u, l, r)
<1>1. /\ u.res \in {"ok", "fail", "stuck"} /\ s \in Substs(V)
      /\ u = [res |-> u.res, sub |-> s]
  BY DEF Unifications
<1>2. t \in Ground \cup V /\ v \in Ground \cup V
  BY <1>1, SubstsAre DEF Apply
<1>3. \A x \in Ground \cup V : x[1] = "var" <=> x \in V
  BY TermKinds DEF IsVar, Terms
<1>4. CASE u.res # "ok" \/ t = v
  <2>1. w = u
    BY <1>4 DEF UnifyTerms
  <2> QED BY <1>4, <2>1 DEF Solves
<1>5. CASE ~(u.res # "ok" \/ t = v)
  <2>1. Resolved(s) /\ t # v /\ u.res = "ok"
    BY <1>5
  <2>2. t \notin DOMAIN s /\ v \notin DOMAIN s
    BY <2>1 DEF Resolved, Apply
  <2>3. CASE t[1] = "var"
    <3>1. w = [u EXCEPT !.sub = Bind(s, t, v)]
      BY <1>5, <2>3 DEF UnifyTerms
    <3>2. t \in V
      BY <1>2, <1>3, <2>3
    <3> DEFINE b == Bind(s, t, v)
    <3>3. /\ b \in Substs(V) /\ Resolved(b)
          /\ \A x : Apply(b, x) = IF Apply(s, x) = t THEN v ELSE Apply(s, x)
      <4> HIDE DEF s, t, v
      <4> QED BY <1>1, <1>2, <2>1, <2>2, <3>2, BindKeeps
    <3> HIDE DEF b
    <3>4. w = [res |-> u.res, sub |-> b]
      BY <1>1, <3>1 DEF b
    <3> HIDE DEF w
    <3>5. w.res = u.res /\ w.sub = b /\ w \in Unifications(V)
      BY <1>1, <3>3, <3>4 DEF Unifications
    <3>6. Apply(b, l) = Apply(b, r)
      BY <3>3
    <3> QED BY <2>1, <3>3, <3>5, <3>6 DEF Solves, w
  <2>4. CASE t[1] # "var" /\ v[1] = "var"
    <3>1. w = [u EXCEPT !.sub = Bind(s, v, t)]
      BY <1>5, <2>4 DEF UnifyTerms
    <3>2. v \in V
      BY <1>2, <1>3, <2>4
    <3> DEFINE b == Bind(s, v, t)
    <3>3. /\ b \in Substs(V) /\ Resolved(b)
          /\ \A x : Apply(b, x) = IF Apply(s, x) = v THEN t ELSE Apply(s, x)
      <4> HIDE DEF s, t, v
      <4> QED BY <1>1, <1>2, <2>1, <2>2, <3>2, BindKeeps
    <3> HIDE DEF b
    <3>4. w = [res |-> u.res, sub |-> b]
      BY <1>1, <3>1 DEF b
    <3> HIDE DEF w
    <3>5. w.res = u.res /\ w.sub = b /\ w \in Unifications(V)
      BY <1>1, <3>3, <3>4 DEF Unifications
    <3>6. Apply(b, l) = Apply(b, r)
      BY <3>3
    <3> QED BY <2>1, <3>3, <3>5, <3>6 DEF Solves, w
  <2>5. CASE t[1] # "var" /\ v[1] # "var"
    <3>1. w = [u EXCEPT !.res = IF IsMVar(t) \/ IsMVar(v) THEN "stuck" ELSE "fail"]
      BY <1>5, <2>5 DEF UnifyTerms
    <3>2. PICK res \in {"stuck", "fail"} : w = [u EXCEPT !.res = res]
      BY <3>1
    <3>3. w = [res |-> res, sub |-> s]
      BY <1>1, <3>2
    <3> HIDE DEF w
    <3>4. w.res # "ok" /\ w \in Unifications(V)
      BY <1>1, <3>3 DEF Unifications
    <3> QED BY <3>4 DEF Solves, w
  <2> QED BY <2>3, <2>4, <2>5
<1> QED BY <1>4, <1>5

\* Unification that succeeds makes the arguments equal.
LEMMA Unifies ==
    ASSUME GroundTerms, NEW V, V \subseteq Vars,
           NEW ts \in Seq(Ground \cup V), NEW us \in Seq(Ground \cup V), Len(us) = Len(ts)
    PROVE  LET u == Unify("var", ts, us)
           IN  /\ u \in Unifications(V)
               /\ u.res = "ok" => ApplyAll(u.sub, ts) = ApplyAll(u.sub, us)
<1> DEFINE n == Len(ts)
<1> DEFINE S == Unifications(V)
<1> DEFINE P == {u \in S : u.res = "ok" => Resolved(u.sub)}
<1> DEFINE first == [res |-> "ok", sub |-> << >>]
<1> DEFINE Taking(k, u) == UnifyTerms("var", u, ts[k], us[k])
<1> DEFINE F == [k \in 1 .. n |-> [u \in P |-> Taking(k, u)]]
<1>1. /\ n \in Nat /\ \A k \in 1 .. n : ts[k] \in Ground \cup V /\ us[k] \in Ground \cup V
  OBVIOUS
<1>2. first \in P
  <2>1. << >> \in Substs(V) /\ Resolved(<< >>)
    <3>1. DOMAIN << >> = {} /\ << >> = [v \in {} |-> << >>[v]]
      OBVIOUS
    <3> QED BY <3>1, SubstsAre DEF Resolved
  <2> QED BY <2>1 DEF Unifications
<1>3. ASSUME NEW k \in 1 .. n, NEW u \in P
      PROVE  Taking(k, u) \in P /\ Solves(V, u, Taking(k, u), ts[k], us[k])
  <2> DEFINE w == Taking(k, u)
  <2>1. w \in S /\ Solves(V, u, w, ts[k], us[k])
    BY <1>1, UnifyTermsSolves
  <2> HIDE DEF w
  <2>2. w \in P
    BY <2>1 DEF Solves
  <2> QED BY <2>1, <2>2 DEF w
<1> HIDE DEF P, S, first, Taking
<1>4. F \in [1 .. n -> [P -> P]]
  BY <1>3
<1> DEFINE Rec(f) == f = [k \in 0 .. n |-> IF k = 0 THEN first ELSE Taking(k, f[k - 1])]
<1> HIDE DEF F
<1>5. PICK f \in [0 .. n -> P] : Recurs(f, n, first, F)
  BY <1>1, <1>2, <1>4, Recursion
<1>6. \A k \in 1 .. n : k - 1 \in 0 .. n /\ f[k - 1] \in P
  BY <1>5
<1>7. Rec(f)
  <2>1. \A k \in 1 .. n : F[k][f[k - 1]] = Taking(k, f[k - 1])
    BY <1>6 DEF F
  <2>2. \A k \in 0 .. n : k = 0 \/ k \in 1 .. n
    BY <1>1
  <2>3. \A k \in 0 .. n : f[k] = IF k = 0 THEN first ELSE Taking(k, f[k - 1])
    BY <1>5, <2>1, <2>2 DEF Recurs
  <2>4. f = [k \in 0 .. n |-> f[k]]
    BY <1>5
  <2> QED BY <2>3, <2>4
<1> DEFINE u == CHOOSE g : Rec(g)
<1>8. Rec(u)
  BY <1>7
<1>9. Unify("var", ts, us) = u[n]
  BY DEF Unify, first, Taking
<1> HIDE DEF u
<1>10. u[0] = first /\ \A k \in 1 .. n : u[k] = Taking(k, u[k - 1])
  <2>1. 0 \in 0 .. n /\ \A k \in 1 .. n : k \in 0 .. n /\ k # 0
    BY <1>1
  <2>2. \A k \in 0 .. n : u[k] = IF k = 0 THEN first ELSE Taking(k, u[k - 1])
    BY <1>8
  <2> QED BY <2>1, <2>2
<1> DEFINE Equal(k) == \A i \in 1 .. k : Apply(u[k].sub, ts[i]) = Apply(u[k].sub, us[i])
<1> DEFINE T == {k \in 0 .. n : u[k] \in P /\ (u[k].res = "ok" => Equal(k))}
<1>11. 0 \in T
  BY <1>1, <1>2, <1>10
<1>12. ASSUME NEW k \in 0 .. n - 1, k \in T PROVE k + 1 \in T
  <2>1. /\ k + 1 \in 1 .. n /\ k + 1 \in 0 .. n /\ (k + 1) - 1 = k /\ u[k] \in P
        /\ u[k].res = "ok" => Equal(k)
    BY <1>12
  <2>2. u[k + 1] = Taking(k + 1, u[k])
    BY <1>10, <2>1
  <2>3. u[k + 1] \in P /\ Solves(V, u[k], u[k + 1], ts[k + 1], us[k + 1])
    BY <1>3, <2>1, <2>2
  <2>4. ASSUME u[k + 1].res = "ok" PROVE Equal(k + 1)
    <3>1. \A i \in 1 .. k + 1 : i \in 1 .. k \/ i = k + 1
      BY <2>1
    <3>2. /\ u[k].res = "ok" /\ Apply(u[k + 1].sub, ts[k + 1]) = Apply(u[k + 1].sub, us[k + 1])
          /\ \A x, y : Apply(u[k].sub, x) = Apply(u[k].sub, y)
                         => Apply(u[k + 1].sub, x) = Apply(u[k + 1].sub, y)
      BY <2>3, <2>4 DEF Solves
    <3> QED BY <2>1, <3>1, <3>2
  <2> QED BY <2>1, <2>3, <2>4
<1> HIDE DEF T
<1>13. n \in T
  <2>1. \A k \in 0 .. n : k \in T
    BY <1>1, <1>11, <1>12, UpTo
  <2> QED BY <1>1, <2>1
<1>14. u[n] \in S /\ (u[n].res = "ok" => Equal(n))
  BY <1>13 DEF T, P
<1>15. ASSUME u[n].res = "ok" PROVE ApplyAll(u[n].sub, ts) = ApplyAll(u[n].sub, us)
  BY <1>14, <1>15, ApplyAllSame
<1> QED BY <1>9, <1>14, <1>15 DEF S

-----------------------------------------------------------------------------
(* The least model. *)

Heads(rules) == {r.head : r \in rules}

\* Everything the rules give from m is in m.
Closed(rules, m) == \A r \in rules : r.prems \subseteq m => r.head \in m

\* What the rules add to m in one round.
Round(rules, m) == m \cup {r.head : r \in {q \in rules : q.prems \subseteq m}}

\* With finitely many heads the rounds come to an end.
LEMMA LeastModelClosed ==
    ASSUME NEW rules, IsFiniteSet(Heads(rules))
    PROVE  Closed(rules, LeastModel(rules))
<1> DEFINE H == Heads(rules)
<1> DEFINE More(m) == Round(rules, m)
<1> DEFINE Rec(f) == f = [m \in SUBSET H |-> IF More(m) = m THEN m ELSE f[More(m)]]
<1> DEFINE Stable(m) == {c \in SUBSET H : m \subseteq c /\ More(c) = c}
<1> DEFINE least == [m \in SUBSET H |-> {h \in H : \A c \in Stable(m) : h \in c}]
<1>1. \A m \in SUBSET H : More(m) \in SUBSET H /\ m \subseteq More(m)
  BY DEF Round, Heads
<1>2. \A m, c : m \subseteq c => More(m) \subseteq More(c)
  BY DEF Round
<1>3. Rec(least)
  <2> HIDE DEF More
  <2>1. ASSUME NEW m \in SUBSET H, More(m) = m PROVE least[m] = m
    <3>1. m \in Stable(m) /\ \A c \in Stable(m) : m \subseteq c
      BY <2>1
    <3>2. least[m] = {h \in H : \A c \in Stable(m) : h \in c}
      OBVIOUS
    <3> HIDE DEF H, Stable
    <3> QED BY <3>1, <3>2
  <2>2. ASSUME NEW m \in SUBSET H PROVE least[m] = least[More(m)]
    <3>1. Stable(m) = Stable(More(m))
      <4>1. \A c \in Stable(m) : c \in Stable(More(m))
        BY <1>2
      <4>2. \A c \in Stable(More(m)) : c \in Stable(m)
        BY <1>1
      <4> HIDE DEF Stable
      <4> QED BY <4>1, <4>2
    <3>2. More(m) \in SUBSET H
      BY <1>1
    <3>3. \A k \in SUBSET H : least[k] = {h \in H : \A c \in Stable(k) : h \in c}
      OBVIOUS
    <3> HIDE DEF least, Stable, H
    <3> QED BY <3>1, <3>2, <3>3
  <2>3. \A m \in SUBSET H : least[m] = IF More(m) = m THEN m ELSE least[More(m)]
    BY <2>1, <2>2
  <2>4. least = [m \in SUBSET H |-> least[m]]
    OBVIOUS
  <2> HIDE DEF least, H, Stable
  <2> QED BY <2>3, <2>4
<1> HIDE DEF least
<1> DEFINE closure == CHOOSE f : Rec(f)
<1>4. Rec(closure)
  BY <1>3
<1>5. LeastModel(rules) = closure[{}]
  BY DEF LeastModel, Round, Heads
<1> HIDE DEF closure
<1>6. \A m \in SUBSET H : closure[m] = IF More(m) = m THEN m ELSE closure[More(m)]
  BY <1>4
<1> DEFINE Bad == {m \in SUBSET H : More(closure[m]) # closure[m]}
<1>7. Bad = {}
  <2> SUFFICES ASSUME Bad # {} PROVE FALSE
    OBVIOUS
  <2> HIDE DEF More
  <2> DEFINE Left(m) == Cardinality(H \ m)
  <2> DEFINE Ns == {Left(m) : m \in Bad}
  <2>1. \A m \in SUBSET H : IsFiniteSet(H \ m) /\ Left(m) \in Nat
    <3>1. \A m \in SUBSET H : H \ m \in SUBSET H
      OBVIOUS
    <3> QED BY <3>1, FS_Subset, FS_CardinalityType
  <2>2. Ns \subseteq Nat /\ Ns # {}
    <3>1. \A m \in Bad : Left(m) \in Nat
      BY <2>1
    <3> HIDE DEF Left, Bad
    <3> QED BY <3>1
  <2> HIDE DEF Ns
  <2>3. PICK n \in Ns : \A k \in Ns : n <= k
    BY <2>2, Least
  <2>4. PICK m \in Bad : n = Left(m)
    BY DEF Ns
  <2>5. More(m) # m /\ closure[m] = closure[More(m)] /\ m \in SUBSET H
    BY <1>6, <2>4
  <2> DEFINE p == More(m)
  <2>6. p \in Bad
    BY <1>1, <2>4, <2>5
  <2>7. Left(p) \in Ns
    <3> HIDE DEF Bad, Left, p
    <3> QED BY <2>6 DEF Ns
  <2>8. Left(p) < Left(m)
    <3>1. H \ p \in SUBSET (H \ m) /\ H \ p # H \ m
      BY <1>1, <2>5
    <3>2. /\ Left(p) \in Nat /\ Left(m) \in Nat /\ IsFiniteSet(H \ m)
      BY <1>1, <2>1, <2>5
    <3>3. Left(p) <= Left(m) /\ Left(p) # Left(m)
      BY <3>1, <3>2, FS_Subset
    <3> HIDE DEF Left
    <3> QED BY <3>2, <3>3
  <2>9. Left(p) \in Nat /\ n \in Nat
    BY <1>1, <2>1, <2>4, <2>5
  <2> HIDE DEF Left, p
  <2> QED BY <2>3, <2>4, <2>7, <2>8, <2>9
<1>8. More(closure[{}]) = closure[{}]
  BY <1>7
<1> QED BY <1>5, <1>8 DEF Closed, Round

-----------------------------------------------------------------------------
(* Renaming and candidates. *)

\* Metavariables that are numbered up to n.
VarsTo(n) == {Var(i) : i \in 1 .. n}

\* The canonical form renames, with numbers up to the number of arguments.
LEMMA CanonicalRenames ==
    ASSUME GroundTerms, NEW ts \in Seq(Terms)
    PROVE  /\ \E f : /\ DOMAIN f \subseteq Vars /\ \A v \in DOMAIN f : f[v] \in Terms
                     /\ Canonical(ts) = ApplyAll(f, ts)
           /\ Canonical(ts) \in Seq(Ground \cup VarsTo(Len(ts)))
           /\ Len(Canonical(ts)) = Len(ts)
<1> DEFINE first == {i \in DOMAIN ts : IsVar(ts[i]) /\ \A j \in 1..(i - 1) : ts[j] # ts[i]}
<1> DEFINE Rank(t) == Cardinality({j \in first : \A i \in first : ts[i] = t => j <= i})
<1> DEFINE f == [v \in VarsOf(ts) |-> Var(Rank(v))]
<1> DEFINE n == Len(ts)
<1>1. Canonical(ts) = ApplyAll(f, ts)
  BY DEF Canonical
<1>2. n \in Nat /\ DOMAIN ts = 1 .. n /\ \A i \in 1 .. n : ts[i] \in Terms
  OBVIOUS
<1>3. ASSUME NEW v \in VarsOf(ts) PROVE v \in Vars /\ Rank(v) \in 1 .. n
  <2>1. PICK k \in 1 .. n : ts[k] = v /\ IsVar(v)
    BY <1>2, <1>3 DEF VarsOf, ToSet
  <2>2. v \in Vars
    BY <1>2, <2>1, TermKinds
  <2> DEFINE R == {j \in first : \A i \in first : ts[i] = v => j <= i}
  <2>3. R \subseteq 1 .. n
    BY <1>2
  <2>4. \E j \in first : j \in R
    <3> DEFINE Same == {i \in 1 .. n : ts[i] = v}
    <3>1. Same \subseteq Nat /\ Same # {}
      BY <1>2, <2>1
    <3>2. PICK j \in Same : \A i \in Same : j <= i
      BY <3>1, Least
    <3>3. j \in first
      <4>1. \A i \in 1 .. (j - 1) : i \in 1 .. n /\ ~(j <= i)
        BY <1>2, <3>2
      <4> QED BY <1>2, <2>1, <3>2, <4>1
    <3>4. j \in R
      BY <1>2, <3>2, <3>3
    <3> QED BY <3>3, <3>4
  <2> HIDE DEF R, first
  <2>5. IsFiniteSet(1 .. n) /\ Cardinality(1 .. n) <= n
    <3>1. 1 \in Int /\ n \in Int
      BY <1>2
    <3> QED BY <1>2, <3>1, FS_Interval
  <2>6. IsFiniteSet(R) /\ Cardinality(R) <= Cardinality(1 .. n)
    BY <2>3, <2>5, FS_Subset
  <2>7. Cardinality(R) \in Nat /\ Cardinality(1 .. n) \in Nat /\ Cardinality(R) # 0
    BY <2>4, <2>5, <2>6, FS_CardinalityType, FS_EmptySet
  <2>8. Cardinality(R) \in 1 .. n
    BY <1>2, <2>5, <2>6, <2>7
  <2> QED BY <2>2, <2>8 DEF R
<1> HIDE DEF Rank
<1>4. /\ DOMAIN f = VarsOf(ts) /\ \A v \in VarsOf(ts) : f[v] = Var(Rank(v))
  OBVIOUS
<1>5. /\ DOMAIN f \subseteq Vars
      /\ \A v \in DOMAIN f : f[v] \in VarsTo(n) /\ f[v] \in Terms
  BY <1>2, <1>3, <1>4 DEF VarsTo, Terms, Vars
<1>6. ASSUME NEW i \in 1 .. n PROVE Apply(f, ts[i]) \in Ground \cup VarsTo(n)
  <2>1. CASE IsVar(ts[i])
    <3>1. ts[i] \in VarsOf(ts)
      BY <1>2, <2>1 DEF VarsOf, ToSet
    <3> QED BY <1>4, <1>5, <3>1 DEF Apply
  <2>2. CASE ~IsVar(ts[i])
    <3>1. ts[i] \in Ground
      BY <1>2, <2>2, TermKinds DEF Terms
    <3>2. ts[i] \notin DOMAIN f
      BY <1>4, <2>2 DEF VarsOf
    <3> QED BY <3>1, <3>2 DEF Apply
  <2> QED BY <2>1, <2>2
<1> HIDE DEF f
<1>7. /\ ApplyAll(f, ts) \in Seq(Ground \cup VarsTo(n)) /\ Len(ApplyAll(f, ts)) = n
  <2> DEFINE S == {ts[i] : i \in 1 .. n}
  <2> DEFINE U == Ground \cup VarsTo(n)
  <2>1. ts \in Seq(S) /\ \A t \in S : Apply(f, t) \in U
    BY <1>2, <1>6
  <2> HIDE DEF S, U
  <2>2. ApplyAll(f, ts) \in Seq(U) /\ Len(ApplyAll(f, ts)) = Len(ts)
    BY <2>1, ApplyAllArgs
  <2> QED BY <2>2 DEF U
<1> QED BY <1>1, <1>5, <1>7

\* The candidates of a goal are clauses of its class.
LEMMA CandidatesFit ==
    ASSUME NEW E, NEW clauses \in Seq(E), NEW key
    PROVE  /\ Matching(clauses, key) \in Seq(E)
           /\ \A c \in Elements(Matching(clauses, key)) :
                  c \in Elements(clauses) /\ c.head.cls = key.cls
<1> DEFINE n == Len(clauses)
<1> DEFINE Fits(c) == /\ c.head.cls = key.cls
                      /\ \A i \in DOMAIN key.args :
                            \/ IsMVar(key.args[i]) \/ IsMVar(c.head.args[i])
                            \/ key.args[i] = c.head.args[i]
<1> DEFINE Good == {c \in Elements(clauses) : c.head.cls = key.cls}
<1> DEFINE P == {r \in Seq(E) : Elements(r) \subseteq Good}
<1> DEFINE Taking(k, r) == IF Fits(clauses[k]) THEN Append(r, clauses[k]) ELSE r
<1> DEFINE F == [k \in 1 .. n |-> [r \in P |-> Taking(k, r)]]
<1>1. n \in Nat /\ \A k \in 1 .. n : clauses[k] \in E /\ clauses[k] \in Elements(clauses)
  BY DEF Elements
<1>2. << >> \in P
  BY EmptyElements
<1>3. ASSUME NEW k \in 1 .. n, NEW r \in P PROVE Taking(k, r) \in P
  <2>1. CASE Fits(clauses[k])
    <3>1. clauses[k] \in Good /\ clauses[k] \in E
      BY <1>1, <2>1
    <3> DEFINE e == clauses[k]
    <3> HIDE DEF e, Good
    <3>2. /\ Append(r, e) \in Seq(E) /\ Elements(Append(r, e)) = Elements(r) \cup {e}
      BY <3>1, AppendElements DEF e
    <3>3. Append(r, e) \in P
      BY <3>1, <3>2 DEF e
    <3>4. Taking(k, r) = Append(r, e)
      BY <2>1 DEF e
    <3> QED BY <3>3, <3>4
  <2>2. CASE ~Fits(clauses[k])
    BY <2>2
  <2> QED BY <2>1, <2>2
<1> DEFINE Rec(f) == f = [k \in 0 .. n |-> IF k = 0 THEN << >>
                             ELSE IF Fits(clauses[k]) THEN Append(f[k - 1], clauses[k])
                             ELSE f[k - 1]]
<1> HIDE DEF P, Fits
<1>4. F \in [1 .. n -> [P -> P]]
  BY <1>3
<1> HIDE DEF F
<1>5. PICK f \in [0 .. n -> P] : Recurs(f, n, << >>, F)
  BY <1>1, <1>2, <1>4, Recursion
<1>6. \A k \in 1 .. n : k - 1 \in 0 .. n /\ f[k - 1] \in P
  BY <1>5
<1>7. Rec(f)
  <2>1. \A k \in 1 .. n : F[k][f[k - 1]] = Taking(k, f[k - 1])
    BY <1>6 DEF F
  <2>2. \A k \in 0 .. n : k = 0 \/ k \in 1 .. n
    BY <1>1
  <2>3. \A k \in 0 .. n : f[k] = IF k = 0 THEN << >> ELSE Taking(k, f[k - 1])
    <3> HIDE DEF Taking
    <3> QED BY <1>5, <2>1, <2>2 DEF Recurs
  <2>4. f = [k \in 0 .. n |-> f[k]]
    BY <1>5
  <2> QED BY <2>3, <2>4
<1> DEFINE fit == CHOOSE g : Rec(g)
<1>8. Rec(fit)
  BY <1>7
<1>9. Matching(clauses, key) = fit[n]
  BY DEF Matching, Fits
<1> HIDE DEF fit
<1>10. fit[0] = << >> /\ \A k \in 1 .. n : fit[k] = Taking(k, fit[k - 1])
  <2>1. 0 \in 0 .. n /\ \A k \in 1 .. n : k \in 0 .. n /\ k # 0
    BY <1>1
  <2>2. \A k \in 0 .. n : fit[k] = IF k = 0 THEN << >> ELSE Taking(k, fit[k - 1])
    BY <1>8
  <2> QED BY <2>1, <2>2
<1> DEFINE T == {k \in 0 .. n : fit[k] \in P}
<1>11. 0 \in T
  BY <1>1, <1>2, <1>10
<1>12. ASSUME NEW k \in 0 .. n - 1, k \in T PROVE k + 1 \in T
  <2>1. /\ k + 1 \in 1 .. n /\ k + 1 \in 0 .. n /\ (k + 1) - 1 = k /\ fit[k] \in P
    BY <1>12
  <2>2. fit[k + 1] = Taking(k + 1, fit[k])
    BY <1>10, <2>1
  <2> QED BY <1>3, <2>1, <2>2
<1> HIDE DEF T
<1>13. n \in T
  <2>1. \A k \in 0 .. n : k \in T
    BY <1>1, <1>11, <1>12, UpTo
  <2> QED BY <1>1, <2>1
<1> QED BY <1>9, <1>13 DEF T, P

-----------------------------------------------------------------------------
(* Ground instances. *)

\* Every grounding of the arguments is in m.
Valid(m, cls, ts) == \A g \in Groundings : [cls |-> cls, args |-> ApplyAll(g, ts)] \in m

LEMMA ValidInstances ==
    ASSUME GroundTerms, NEW m, NEW cls, NEW ts \in Seq(Terms), Valid(m, cls, ts)
    PROVE  GroundInstances(cls, ts) \subseteq m
<1> SUFFICES ASSUME NEW sub \in [VarsOf(ts) -> Ground]
             PROVE  [cls |-> cls, args |-> ApplyAll(sub, ts)] \in m
  BY DEF GroundInstances
<1> DEFINE g == [v \in Vars |-> IF v \in VarsOf(ts) THEN sub[v] ELSE Inst]
<1>1. g \in Groundings
  BY DEF Groundings, GroundTerms
<1>2. DOMAIN g = Vars /\ \A v \in Vars : g[v] = IF v \in VarsOf(ts) THEN sub[v] ELSE Inst
  OBVIOUS
<1> HIDE DEF g
<1>3. ASSUME NEW i \in 1 .. Len(ts) PROVE Apply(sub, ts[i]) = Apply(g, ts[i])
  <2>1. ts[i] \in Terms /\ DOMAIN ts = 1 .. Len(ts) /\ DOMAIN sub = VarsOf(ts)
    OBVIOUS
  <2>2. CASE ts[i] \in Vars
    <3>1. ts[i] \in VarsOf(ts)
      BY <2>1, <2>2, TermKinds DEF VarsOf, ToSet
    <3> QED BY <1>2, <2>1, <2>2, <3>1 DEF Apply
  <2>3. CASE ts[i] \notin Vars
    <3>1. ts[i] \notin VarsOf(ts)
      BY <2>1, <2>3, TermKinds DEF VarsOf
    <3> QED BY <1>2, <2>1, <2>3, <3>1 DEF Apply
  <2> QED BY <2>2, <2>3
<1>4. ApplyAll(sub, ts) = ApplyAll(g, ts)
  BY <1>3, ApplyAllSame
<1> QED BY <1>1, <1>4 DEF Valid

\* A grounding after a substitution, of arguments.
LEMMA AfterArgs ==
    ASSUME GroundTerms, NEW ts \in Seq(Terms), NEW g \in Groundings,
           NEW f, DOMAIN f \subseteq Vars, \A v \in DOMAIN f : f[v] \in Terms
    PROVE  /\ ApplyAll(f, ts) \in Seq(Terms) /\ Len(ApplyAll(f, ts)) = Len(ts)
           /\ ApplyAll(After(g, f), ts) = ApplyAll(g, ApplyAll(f, ts))
<1>1. /\ After(g, f) \in Groundings
      /\ \A t \in Terms : Apply(After(g, f), t) = Apply(g, Apply(f, t))
  BY AfterGrounds
<1>2. \A t \in Terms : Apply(f, t) \in Terms
  BY DEF Apply, Terms
<1> DEFINE us == ApplyAll(f, ts)
<1>3. /\ us \in Seq(Terms) /\ Len(us) = Len(ts)
      /\ \A i \in 1 .. Len(ts) : us[i] = Apply(f, ts[i])
  BY <1>2, ApplyAllArgs
<1> HIDE DEF us
<1>4. \A i \in 1 .. Len(ts) : ts[i] \in Terms
  OBVIOUS
<1>5. \A i \in 1 .. Len(us) : Apply(g, us[i]) = Apply(After(g, f), ts[i])
  BY <1>1, <1>3, <1>4
<1>6. ApplyAll(g, us) = ApplyAll(After(g, f), ts)
  BY <1>3, <1>5, ApplyAllSame
<1> QED BY <1>3, <1>6 DEF us

\* Renaming and substituting keep validity.
LEMMA ValidAfter ==
    ASSUME GroundTerms, NEW m, NEW cls, NEW ts \in Seq(Terms), Valid(m, cls, ts),
           NEW f, DOMAIN f \subseteq Vars, \A v \in DOMAIN f : f[v] \in Terms
    PROVE  Valid(m, cls, ApplyAll(f, ts))
<1> SUFFICES ASSUME NEW g \in Groundings
             PROVE  [cls |-> cls, args |-> ApplyAll(g, ApplyAll(f, ts))] \in m
  BY DEF Valid
<1>1. /\ After(g, f) \in Groundings
      /\ ApplyAll(After(g, f), ts) = ApplyAll(g, ApplyAll(f, ts))
  BY AfterGrounds, AfterArgs
<1> QED BY <1>1 DEF Valid

\* Fresh metavariables are a substitution as well.
ShiftBy(n) == [v \in Vars |-> Var(v[2] + n)]

LEMMA ShiftRenames ==
    ASSUME GroundTerms, NEW n \in Nat, NEW ts \in Seq(Terms)
    PROVE  /\ Shift(n, ts) = ApplyAll(ShiftBy(n), ts)
           /\ DOMAIN ShiftBy(n) = Vars /\ \A v \in Vars : ShiftBy(n)[v] \in Vars
           /\ Shift(n, ts) \in Seq(Terms) /\ Len(Shift(n, ts)) = Len(ts)
           /\ \A i \in 1 .. Len(ts) :
                  Shift(n, ts)[i] = IF IsVar(ts[i]) THEN Var(ts[i][2] + n) ELSE ts[i]
<1>1. /\ DOMAIN ts = 1 .. Len(ts) /\ Len(ts) \in Nat /\ \A i \in 1 .. Len(ts) : ts[i] \in Terms
  OBVIOUS
<1>2. /\ DOMAIN ShiftBy(n) = Vars
      /\ \A v \in Vars : ShiftBy(n)[v] = Var(v[2] + n) /\ ShiftBy(n)[v] \in Vars
  BY TermKinds DEF ShiftBy, Vars
<1>3. \A i \in 1 .. Len(ts) : Apply(ShiftBy(n), ts[i])
                                  = IF IsVar(ts[i]) THEN Var(ts[i][2] + n) ELSE ts[i]
  BY <1>1, <1>2, TermKinds DEF Apply
<1>4. Shift(n, ts) = ApplyAll(ShiftBy(n), ts)
  BY <1>1, <1>3 DEF Shift, ApplyAll
<1>5. \A t \in Terms : Apply(ShiftBy(n), t) \in Terms
  BY <1>2 DEF Apply, Terms
<1>6. /\ Shift(n, ts) \in Seq(Terms) /\ Len(Shift(n, ts)) = Len(ts)
      /\ \A i \in 1 .. Len(ts) : Shift(n, ts)[i] = Apply(ShiftBy(n), ts[i])
  BY <1>4, <1>5, ApplyAllArgs
<1> QED BY <1>2, <1>3, <1>4, <1>6

-----------------------------------------------------------------------------
(* Clauses and nodes. *)

\* An atom over metavariables up to n.
IsAtom(Arity, p, n) == p.args \in Seq(Ground \cup VarsTo(n)) /\ Len(p.args) = Arity[p.cls]

\* A clause as an instance declares it: every premise has its own instance argument, which
\* only later premises mention, and not the head.
IsClause(Arity, c) ==
    /\ c.nvars \in Nat
    /\ IsAtom(Arity, c.head, c.nvars)
    /\ Sequence(c.prems)
    /\ \A i \in 1 .. Len(c.prems) :
           /\ DOMAIN c.prems[i] = {"cls", "args", "ev"}
           /\ IsAtom(Arity, c.prems[i], c.nvars)
           /\ c.prems[i].ev \in VarsTo(c.nvars)
           /\ c.prems[i].ev \notin Elements(c.head.args)
           /\ \A j \in 1 .. i : c.prems[i].ev \notin Elements(c.prems[j].args)
           /\ \A j \in 1 .. (i - 1) : c.prems[j].ev # c.prems[i].ev

\* The premises of a node that are still to be proved.
Open(c) == c.next .. Len(c.subgoals)

IsPremise(Arity, p, n) ==
    /\ DOMAIN p = {"cls", "args", "ev"}
    /\ p.args \in Seq(Terms) /\ Len(p.args) = Arity[p.cls]
    /\ p.ev \in VarsTo(n)

\* No instance argument of an open premise is mentioned before.
Telescope(c) ==
    \A i \in Open(c) :
        /\ c.subgoals[i].ev \notin Elements(c.target)
        /\ \A j \in Open(c) : j <= i => c.subgoals[i].ev \notin Elements(c.subgoals[j].args)
        /\ \A j \in Open(c) : j < i => c.subgoals[j].ev # c.subgoals[i].ev

\* Under the grounding g all open premises hold.
Holds(m, c, g) ==
    \A i \in Open(c) :
        /\ Apply(g, c.subgoals[i].ev) = Inst
        /\ [cls |-> c.subgoals[i].cls, args |-> ApplyAll(g, c.subgoals[i].args)] \in m

\* The target follows from the open premises.
Proves(m, c) ==
    \A g \in Groundings :
        Holds(m, c, g) => [cls |-> c.key.cls, args |-> ApplyAll(g, c.target)] \in m

NodeInv(Arity, m, c) ==
    /\ IsNode(c) /\ c.next \in Nat \ {0} /\ c.fresh \in Nat
    /\ Sequence(c.subgoals) /\ Sequence(c.vals)
    /\ c.target \in Seq(Terms) /\ Len(c.target) = Arity[c.key.cls]
    /\ \A i \in Open(c) : IsPremise(Arity, c.subgoals[i], c.fresh)
    /\ Telescope(c)
    /\ Proves(m, c)

\* What a unification on V leaves alone.
LEMMA UnificationSubst ==
    ASSUME GroundTerms, NEW V, V \subseteq Vars, NEW u \in Unifications(V)
    PROVE  /\ DOMAIN u.sub \subseteq V /\ DOMAIN u.sub \subseteq Vars
           /\ \A v \in DOMAIN u.sub : u.sub[v] \in Ground \cup V /\ u.sub[v] \in Terms
           /\ \A t \in Terms : Apply(u.sub, t) \in Terms
           /\ \A e \in Vars \ V : /\ Apply(u.sub, e) = e
                                  /\ \A t \in Terms : t # e => Apply(u.sub, t) # e
<1>1. u.sub \in Substs(V)
  BY DEF Unifications
<1>2. /\ DOMAIN u.sub \subseteq V /\ \A v \in DOMAIN u.sub : u.sub[v] \in Ground \cup V
  BY <1>1, SubstsAre
<1> QED BY <1>2, TermKinds DEF Apply, Terms

\* A clause under a grounding gives a rule of the reference.
LEMMA ClauseRule ==
    ASSUME GroundTerms, NEW Arity, NEW c, IsClause(Arity, c), NEW g \in Groundings,
           \A i \in 1 .. Len(c.prems) : g[c.prems[i].ev] = Inst
    PROVE  \E r \in GroundClauses(c) :
               /\ r.head = [cls |-> c.head.cls, args |-> ApplyAll(g, c.head.args)]
               /\ r.prems = {[cls |-> c.prems[i].cls, args |-> ApplyAll(g, c.prems[i].args)] :
                                i \in 1 .. Len(c.prems)}
<1> DEFINE n == Len(c.prems)
<1> DEFINE inHead == VarsOf(c.head.args)
<1> DEFINE named == inHead \cup UNION {VarsOf(c.prems[i].args) : i \in DOMAIN c.prems}
<1> DEFINE f == [v \in named |-> g[v]]
<1> DEFINE Synthesized(sub, i) == Apply(sub, c.prems[i].ev) \in {c.prems[i].ev, Inst}
<1>1. DOMAIN c.prems = 1 .. n
  BY SequenceElements DEF IsClause
<1>2. /\ c.head.args \in Seq(Terms)
      /\ \A i \in 1 .. n : c.prems[i].args \in Seq(Terms) /\ c.prems[i].ev \in Vars
  <2>1. VarsTo(c.nvars) \subseteq Vars /\ Ground \cup VarsTo(c.nvars) \subseteq Terms
    BY DEF VarsTo, Vars, Terms
  <2>2. /\ IsAtom(Arity, c.head, c.nvars)
        /\ \A i \in 1 .. n : IsAtom(Arity, c.prems[i], c.nvars) /\ c.prems[i].ev \in VarsTo(c.nvars)
    BY DEF IsClause
  <2> QED BY <2>1, <2>2 DEF IsAtom
<1>3. ASSUME NEW ts \in Seq(Terms) PROVE VarsOf(ts) \subseteq Vars
  BY TermKinds DEF VarsOf, ToSet
<1>4. named \subseteq Vars
  <2>1. VarsOf(c.head.args) \subseteq Vars /\ \A i \in 1 .. n : VarsOf(c.prems[i].args) \subseteq Vars
    BY <1>2, <1>3
  <2> QED BY <1>1, <2>1
<1>5. f \in [named -> Ground]
  BY <1>4 DEF Groundings
<1>6. DOMAIN f = named /\ \A v \in named : f[v] = g[v]
  OBVIOUS
<1> HIDE DEF f
<1>7. ASSUME NEW ts \in Seq(Terms), VarsOf(ts) \subseteq named PROVE ApplyAll(f, ts) = ApplyAll(g, ts)
  <2> HIDE DEF named
  <2>1. ASSUME NEW i \in 1 .. Len(ts) PROVE Apply(f, ts[i]) = Apply(g, ts[i])
    <3>1. ts[i] \in Terms /\ DOMAIN ts = 1 .. Len(ts)
      OBVIOUS
    <3>2. CASE ts[i] \in Vars
      <4>1. ts[i] \in VarsOf(ts)
        BY <3>1, <3>2, TermKinds DEF VarsOf, ToSet
      <4> QED BY <1>6, <1>7, <3>2, <4>1, Grounds DEF Apply
    <3>3. CASE ts[i] \notin Vars
      <4>1. ts[i] \in Ground /\ ts[i] \notin named
        BY <1>4, <3>1, <3>3 DEF Terms
      <4> QED BY <1>6, <4>1, Grounds DEF Apply
    <3> QED BY <3>2, <3>3
  <2> QED BY <2>1, ApplyAllSame
<1>8. \A i \in 1 .. n : Synthesized(f, i)
  <2> TAKE i \in 1 .. n
  <2>1. CASE c.prems[i].ev \in named
    BY <1>6, <2>1 DEF Apply
  <2>2. CASE c.prems[i].ev \notin named
    BY <1>6, <2>2 DEF Apply
  <2> QED BY <2>1, <2>2
<1> DEFINE r == [head |-> AtomOf(c.head, f),
                 prems |-> {AtomOf(c.prems[i], f) : i \in {j \in DOMAIN c.prems : Synthesized(f, j)}}]
<1>9. r \in GroundClauses(c)
  <2>1. f \in {h \in [named -> Ground] :
                  \A i \in DOMAIN c.prems : c.prems[i].ev \in inHead \/ Synthesized(h, i)}
    <3> HIDE DEF named, inHead, Synthesized
    <3> QED BY <1>1, <1>5, <1>8
  <2> QED BY <2>1 DEF GroundClauses
<1>10. {j \in DOMAIN c.prems : Synthesized(f, j)} = 1 .. n
  <2> HIDE DEF Synthesized
  <2> QED BY <1>1, <1>8
<1>11. r.prems = {AtomOf(c.prems[i], f) : i \in 1 .. n} /\ r.head = AtomOf(c.head, f)
  <2> HIDE DEF Synthesized, AtomOf
  <2> QED BY <1>10
<1>12. /\ VarsOf(c.head.args) \subseteq named
       /\ \A i \in 1 .. n : VarsOf(c.prems[i].args) \subseteq named
  BY <1>1
<1> HIDE DEF named, r, n
<1>13. AtomOf(c.head, f) = [cls |-> c.head.cls, args |-> ApplyAll(g, c.head.args)]
  BY <1>2, <1>7, <1>12 DEF AtomOf
<1>14. ASSUME NEW i \in 1 .. n
       PROVE  AtomOf(c.prems[i], f)
                  = [cls |-> c.prems[i].cls, args |-> ApplyAll(g, c.prems[i].args)]
  BY <1>2, <1>7, <1>12 DEF AtomOf
<1>15. r.prems = {[cls |-> c.prems[i].cls, args |-> ApplyAll(g, c.prems[i].args)] : i \in 1 .. n}
  BY <1>11, <1>14
<1> QED BY <1>9, <1>11, <1>13, <1>15 DEF n

\* The fields of a node after an assignment.
InstantiatedFrom(sub, c, d) ==
    /\ IsNode(d) /\ d.key = c.key /\ d.next = c.next /\ d.fresh = c.fresh
    /\ d.target = ApplyAll(sub, c.target) /\ d.vals = ApplyAll(sub, c.vals)
    /\ Sequence(d.subgoals) /\ Len(d.subgoals) = Len(c.subgoals)
    /\ \A i \in 1 .. Len(c.subgoals) :
           d.subgoals[i] = [c.subgoals[i] EXCEPT !.args = ApplyAll(sub, @), !.ev = Apply(sub, @)]

LEMMA InstantiateFields ==
    ASSUME NEW c, IsNode(c), Sequence(c.subgoals), NEW sub
    PROVE  InstantiatedFrom(sub, c, Instantiate(sub, c))
<1> DEFINE F(p) == [p EXCEPT !.args = ApplyAll(sub, @), !.ev = Apply(sub, @)]
<1> DEFINE prems == [i \in DOMAIN c.subgoals |-> F(c.subgoals[i])]
<1> DEFINE d == Instantiate(sub, c)
<1>1. d = [c EXCEPT !.target = ApplyAll(sub, @), !.vals = ApplyAll(sub, @), !.subgoals = prems]
  BY DEF Instantiate, IsNode
<1>2. /\ DOMAIN c.subgoals = 1 .. Len(c.subgoals) /\ Len(c.subgoals) \in Nat
  BY SequenceElements
<1> HIDE DEF F
<1>3. prems = [i \in 1 .. Len(c.subgoals) |-> F(c.subgoals[i])]
  BY <1>2
<1> HIDE DEF prems
<1>4. /\ \A i \in 1 .. Len(c.subgoals) : prems[i] = F(c.subgoals[i])
      /\ Sequence(prems) /\ Len(prems) = Len(c.subgoals)
  <2> DEFINE S == {F(c.subgoals[i]) : i \in 1 .. Len(c.subgoals)}
  <2>1. prems \in [1 .. Len(c.subgoals) -> S]
    BY <1>3
  <2> HIDE DEF S
  <2>2. prems \in Seq(S)
    BY <1>2, <2>1
  <2>3. Sequence(prems)
    BY <2>2 DEF Sequence
  <2>4. Len(prems) = Len(c.subgoals)
    BY <1>2, <1>3, <2>2
  <2> QED BY <1>3, <2>3, <2>4
<1>5. IsNode(d) /\ d.key = c.key /\ d.next = c.next /\ d.fresh = c.fresh
  BY InstantiateNode DEF Instantiate, IsNode
<1>6. /\ d.target = ApplyAll(sub, c.target) /\ d.vals = ApplyAll(sub, c.vals)
      /\ d.subgoals = prems
  BY <1>1 DEF IsNode
<1> HIDE DEF d
<1>7. InstantiatedFrom(sub, c, d)
  BY <1>4, <1>5, <1>6 DEF F, InstantiatedFrom
<1> QED BY <1>7 DEF d

\* Fresh metavariables are told apart by what they were.
LEMMA ShiftApart ==
    ASSUME GroundTerms, NEW n \in Nat, NEW k \in Nat, NEW ts \in Seq(Terms),
           Var(k) \notin Elements(ts)
    PROVE  Var(k + n) \notin Elements(Shift(n, ts))
<1> SUFFICES ASSUME NEW i \in 1 .. Len(Shift(n, ts)), Shift(n, ts)[i] = Var(k + n) PROVE FALSE
  BY DEF Elements
<1>1. /\ i \in 1 .. Len(ts) /\ ts[i] \in Terms
      /\ Shift(n, ts)[i] = IF IsVar(ts[i]) THEN Var(ts[i][2] + n) ELSE ts[i]
  BY ShiftRenames
<1>2. Var(k + n) \in Vars /\ IsVar(Var(k + n))
  BY TermKinds DEF Vars
<1>3. IsVar(ts[i]) /\ ts[i] \in Vars /\ ts[i][2] \in Nat /\ ts[i] = Var(ts[i][2])
  BY <1>1, <1>2, TermKinds
<1>4. ts[i][2] + n = k + n
  BY <1>1, <1>3 DEF Var
<1>5. ts[i] = Var(k)
  BY <1>3, <1>4
<1> QED BY <1>1, <1>5 DEF Elements

\* The arguments of a resolved or answered premise avoid what they avoided before.
LEMMA SubstAvoids ==
    ASSUME NEW ts \in Seq(Terms), NEW sub, NEW e, e \notin Elements(ts),
           \A t \in Terms : Apply(sub, t) \in Terms,
           \A t \in Terms : t # e => Apply(sub, t) # e
    PROVE  e \notin Elements(ApplyAll(sub, ts))
<1>1. /\ Len(ApplyAll(sub, ts)) = Len(ts)
      /\ \A i \in 1 .. Len(ts) : ApplyAll(sub, ts)[i] = Apply(sub, ts[i])
  BY ApplyAllArgs
<1>2. \A i \in 1 .. Len(ts) : ts[i] \in Terms /\ ts[i] # e
  BY DEF Elements
<1> QED BY <1>1, <1>2 DEF Elements

\* What try_resolve does to the clause, before and after the unification.
ResolvedFrom(Arity, key, c, u, d) ==
    LET n == Len(key.args) IN
    /\ IsNode(d) /\ d.key = key /\ d.next = 1 /\ d.fresh = n + c.nvars
    /\ d.target = ApplyAll(u.sub, key.args) /\ Sequence(d.vals)
    /\ Sequence(d.subgoals) /\ Len(d.subgoals) = Len(c.prems)
    /\ \A i \in 1 .. Len(c.prems) :
           /\ DOMAIN d.subgoals[i] = {"cls", "args", "ev"}
           /\ d.subgoals[i].cls = c.prems[i].cls
           /\ d.subgoals[i].args = ApplyAll(u.sub, Shift(n, c.prems[i].args))
           /\ d.subgoals[i].ev = Apply(u.sub, Var(c.prems[i].ev[2] + n))

LEMMA ResolvedFields ==
    ASSUME NEW Arity, NEW key, NEW c, IsClause(Arity, c)
    PROVE  LET u == Unify("var", key.args, Shift(Len(key.args), c.head.args))
           IN  /\ TryResolve(key, c).res = u.res
               /\ ResolvedFrom(Arity, key, c, u, TryResolve(key, c).node)
<1> DEFINE n == Len(key.args)
<1> DEFINE u == Unify("var", key.args, Shift(n, c.head.args))
<1> DEFINE F(p) == [p EXCEPT !.args = Shift(n, @), !.ev = Var(@[2] + n)]
<1> DEFINE prems == [i \in DOMAIN c.prems |-> F(c.prems[i])]
<1> DEFINE node == [key |-> key, target |-> key.args, inst |-> c.name, next |-> 1, size |-> 0,
                    fresh |-> n + c.nvars,
                    vals |-> [i \in 1..c.nvars |-> Var(n + i)],
                    subgoals |-> prems]
<1>1. TryResolve(key, c).node = Instantiate(u.sub, node) /\ TryResolve(key, c).res = u.res
  BY DEF TryResolve
<1>2. DOMAIN c.prems = 1 .. Len(c.prems) /\ Len(c.prems) \in Nat /\ c.nvars \in Nat
  BY SequenceElements DEF IsClause
<1>3. /\ Sequence(prems) /\ Len(prems) = Len(c.prems)
      /\ \A i \in 1 .. Len(c.prems) : prems[i] = F(c.prems[i])
  <2> HIDE DEF F
  <2>1. prems = [i \in 1 .. Len(c.prems) |-> F(c.prems[i])]
    BY <1>2
  <2> HIDE DEF prems
  <2> DEFINE S == {F(c.prems[i]) : i \in 1 .. Len(c.prems)}
  <2>2. prems \in [1 .. Len(c.prems) -> S]
    BY <2>1
  <2> HIDE DEF S
  <2>3. prems \in Seq(S) /\ Len(prems) = Len(c.prems)
    BY <1>2, <2>1, <2>2
  <2>4. Sequence(prems)
    BY <2>3 DEF Sequence
  <2> QED BY <2>1, <2>3, <2>4
<1>4. \A i \in 1 .. Len(c.prems) :
          /\ DOMAIN prems[i] = {"cls", "args", "ev"}
          /\ prems[i].cls = c.prems[i].cls
          /\ prems[i].args = Shift(n, c.prems[i].args)
          /\ prems[i].ev = Var(c.prems[i].ev[2] + n)
  <2> TAKE i \in 1 .. Len(c.prems)
  <2>1. DOMAIN c.prems[i] = {"cls", "args", "ev"}
    BY DEF IsClause
  <2>2. prems[i] = F(c.prems[i])
    BY <1>3
  <2> HIDE DEF prems
  <2> QED BY <2>1, <2>2
<1> HIDE DEF prems
<1>5. /\ IsNode(node) /\ node.key = key /\ node.next = 1 /\ node.fresh = n + c.nvars
      /\ node.target = key.args /\ node.subgoals = prems
      /\ node.vals = [i \in 1..c.nvars |-> Var(n + i)]
  BY DEF IsNode
<1> HIDE DEF node, u
<1> DEFINE d == Instantiate(u.sub, node)
<1>6. /\ IsNode(d) /\ d.key = node.key /\ d.next = node.next /\ d.fresh = node.fresh
      /\ d.target = ApplyAll(u.sub, node.target) /\ d.vals = ApplyAll(u.sub, node.vals)
      /\ Sequence(d.subgoals) /\ Len(d.subgoals) = Len(node.subgoals)
      /\ \A i \in 1 .. Len(node.subgoals) :
             d.subgoals[i] = [node.subgoals[i] EXCEPT !.args = ApplyAll(u.sub, @),
                                                      !.ev = Apply(u.sub, @)]
  <2> DEFINE sub == u.sub
  <2>1. IsNode(node) /\ Sequence(node.subgoals)
    BY <1>3, <1>5
  <2> HIDE DEF sub
  <2>2. InstantiatedFrom(sub, node, Instantiate(sub, node))
    BY <2>1, InstantiateFields
  <2> QED BY <2>2 DEF sub, InstantiatedFrom
<1>7. Sequence(d.vals)
  <2> DEFINE w == [i \in 1..c.nvars |-> Apply(u.sub, Var(n + i))]
  <2>1. d.vals = w
    <3>1. DOMAIN node.vals = 1 .. c.nvars /\ \A i \in 1 .. c.nvars : node.vals[i] = Var(n + i)
      BY <1>5
    <3> QED BY <1>6, <3>1 DEF ApplyAll
  <2> DEFINE S == {Apply(u.sub, Var(n + i)) : i \in 1 .. c.nvars}
  <2>2. w \in [1 .. c.nvars -> S]
    OBVIOUS
  <2> HIDE DEF w, S
  <2>3. w \in Seq(S)
    BY <1>2, <2>2
  <2> QED BY <2>1, <2>3 DEF Sequence
<1>8. ASSUME NEW i \in 1 .. Len(c.prems)
      PROVE  /\ DOMAIN d.subgoals[i] = {"cls", "args", "ev"}
             /\ d.subgoals[i].cls = c.prems[i].cls
             /\ d.subgoals[i].args = ApplyAll(u.sub, Shift(n, c.prems[i].args))
             /\ d.subgoals[i].ev = Apply(u.sub, Var(c.prems[i].ev[2] + n))
  <2>1. d.subgoals[i] = [prems[i] EXCEPT !.args = ApplyAll(u.sub, @), !.ev = Apply(u.sub, @)]
    BY <1>3, <1>5, <1>6
  <2> HIDE DEF d
  <2> QED BY <1>4, <2>1
<1> HIDE DEF d
<1>9. ResolvedFrom(Arity, key, c, u, d)
  BY <1>3, <1>5, <1>6, <1>7, <1>8 DEF ResolvedFrom
<1> QED BY <1>1, <1>9 DEF d, u

\* try_resolve makes a node whose target follows from its premises.
LEMMA ResolvedSound ==
    ASSUME GroundTerms, NEW Arity, NEW m, NEW c, IsClause(Arity, c), Closed(GroundClauses(c), m),
           NEW key, IsAtom(Arity, key, Len(key.args)), c.head.cls = key.cls,
           TryResolve(key, c).res = "ok"
    PROVE  NodeInv(Arity, m, TryResolve(key, c).node)
<1> DEFINE n == Len(key.args)
<1> DEFINE N == Len(c.prems)
<1> DEFINE hd == Shift(n, c.head.args)
<1> DEFINE u == Unify("var", key.args, hd)
<1> DEFINE d == TryResolve(key, c).node
<1> DEFINE ev(i) == Var(c.prems[i].ev[2] + n)
<1> DEFINE V == Vars \ {ev(i) : i \in 1 .. N}
<1>1. n \in Nat /\ N \in Nat /\ c.nvars \in Nat
  BY SequenceElements DEF IsAtom, IsClause
<1>2. /\ c.head.args \in Seq(Terms) /\ Len(c.head.args) = n
      /\ key.args \in Seq(Terms) /\ n = Arity[key.cls]
      /\ \A i \in 1 .. N : c.prems[i].args \in Seq(Terms)
  <2>1. Ground \cup VarsTo(c.nvars) \subseteq Terms /\ Ground \cup VarsTo(n) \subseteq Terms
    BY DEF VarsTo, Vars, Terms
  <2>2. /\ IsAtom(Arity, c.head, c.nvars) /\ \A i \in 1 .. N : IsAtom(Arity, c.prems[i], c.nvars)
    BY DEF IsClause
  <2> QED BY <2>1, <2>2 DEF IsAtom
<1>3. ASSUME NEW i \in 1 .. N
      PROVE  /\ c.prems[i].ev \in Vars /\ c.prems[i].ev[2] \in 1 .. c.nvars
             /\ c.prems[i].ev = Var(c.prems[i].ev[2])
             /\ ev(i) \in Vars /\ ev(i) \notin V /\ ev(i) \in VarsTo(n + c.nvars)
             /\ ev(i) \notin VarsTo(n)
  <2>1. PICK k \in 1 .. c.nvars : c.prems[i].ev = Var(k)
    BY DEF IsClause, VarsTo
  <2>2. c.prems[i].ev[2] = k /\ k \in Nat
    BY <1>1, <2>1 DEF Var
  <2>3. k + n \in 1 .. (n + c.nvars) /\ k + n \in Nat /\ k + n \notin 1 .. n
    BY <1>1
  <2>4. \A j : Var(j) = Var(k + n) => j = k + n
    BY DEF Var
  <2> QED BY <2>1, <2>2, <2>3, <2>4 DEF Vars, VarsTo
<1>4. V \subseteq Vars
  OBVIOUS
<1>5. key.args \in Seq(Ground \cup V)
  <2>1. VarsTo(n) \subseteq V
    BY <1>1, <1>3 DEF VarsTo, Vars
  <2> QED BY <2>1 DEF IsAtom
<1>6. hd \in Seq(Ground \cup V) /\ Len(hd) = n
  <2>1. hd \in Seq(Terms) /\ Len(hd) = n
    BY <1>1, <1>2, ShiftRenames
  <2>2. \A i \in 1 .. N : ev(i) \notin Elements(hd)
    <3> TAKE i \in 1 .. N
    <3>1. Var(c.prems[i].ev[2]) \notin Elements(c.head.args) /\ c.prems[i].ev[2] \in Nat
      <4>1. c.prems[i].ev = Var(c.prems[i].ev[2]) /\ c.prems[i].ev[2] \in 1 .. c.nvars
        BY <1>3
      <4>2. c.prems[i].ev \notin Elements(c.head.args)
        BY DEF IsClause
      <4> QED BY <1>1, <4>1, <4>2
    <3> QED BY <1>1, <1>2, <3>1, ShiftApart
  <2> HIDE DEF hd, ev
  <2>3. \A j \in 1 .. Len(hd) : hd[j] \in Ground \cup V
    BY <2>1, <2>2 DEF Elements, Terms
  <2> QED BY <2>1, <2>3
<1>7. ResolvedFrom(Arity, key, c, u, d) /\ u.res = "ok"
  BY ResolvedFields
<1> HIDE DEF d, hd, V
<1>8. u \in Unifications(V) /\ ApplyAll(u.sub, key.args) = ApplyAll(u.sub, hd)
  BY <1>4, <1>5, <1>6, <1>7, Unifies
<1> HIDE DEF u, ev
<1>9. /\ DOMAIN u.sub \subseteq Vars
      /\ \A v \in DOMAIN u.sub : u.sub[v] \in Terms
      /\ \A t \in Terms : Apply(u.sub, t) \in Terms
      /\ \A e \in Vars \ V : /\ Apply(u.sub, e) = e
                             /\ \A t \in Terms : t # e => Apply(u.sub, t) # e
  BY <1>4, <1>8, UnificationSubst
<1>10. /\ IsNode(d) /\ d.key = key /\ d.next = 1 /\ d.fresh = n + c.nvars
       /\ d.target = ApplyAll(u.sub, key.args) /\ Sequence(d.vals)
       /\ Sequence(d.subgoals) /\ Len(d.subgoals) = N /\ Open(d) = 1 .. N
       /\ \A i \in 1 .. N :
              /\ DOMAIN d.subgoals[i] = {"cls", "args", "ev"}
              /\ d.subgoals[i].cls = c.prems[i].cls
              /\ d.subgoals[i].args = ApplyAll(u.sub, Shift(n, c.prems[i].args))
              /\ d.subgoals[i].ev = ev(i)
  BY <1>3, <1>7, <1>9 DEF ResolvedFrom, Open, ev
<1>11. \A i \in 1 .. N : Shift(n, c.prems[i].args) \in Seq(Terms)
                         /\ Len(Shift(n, c.prems[i].args)) = Len(c.prems[i].args)
  BY <1>1, <1>2, ShiftRenames
<1>12. \A i \in 1 .. N : IsPremise(Arity, d.subgoals[i], d.fresh)
  <2> TAKE i \in 1 .. N
  <2>1. /\ ApplyAll(u.sub, Shift(n, c.prems[i].args)) \in Seq(Terms)
        /\ Len(ApplyAll(u.sub, Shift(n, c.prems[i].args))) = Len(c.prems[i].args)
    BY <1>9, <1>11, ApplyAllArgs
  <2>2. Len(c.prems[i].args) = Arity[c.prems[i].cls]
    BY DEF IsClause, IsAtom
  <2> QED BY <1>3, <1>10, <2>1, <2>2 DEF IsPremise
<1>13. d.target \in Seq(Terms) /\ Len(d.target) = Arity[d.key.cls]
  BY <1>2, <1>9, <1>10, ApplyAllArgs
<1>14. Telescope(d)
  <2>1. ASSUME NEW i \in 1 .. N PROVE ev(i) \notin Elements(d.target)
    <3>1. ev(i) \notin Elements(key.args)
      <4>1. \A t \in Ground \cup V : t # ev(i)
        BY <1>3, TermKinds
      <4> QED BY <1>5, <4>1 DEF Elements
    <3> DEFINE x == ev(i)
    <3>2. x \notin Elements(key.args) /\ \A t \in Terms : t # x => Apply(u.sub, t) # x
      BY <1>3, <1>9, <3>1
    <3> HIDE DEF x
    <3>3. x \notin Elements(ApplyAll(u.sub, key.args))
      BY <1>2, <1>9, <3>2, SubstAvoids
    <3> QED BY <1>10, <3>3 DEF x
  <2>2. ASSUME NEW i \in 1 .. N, NEW j \in 1 .. N, j <= i
        PROVE  ev(i) \notin Elements(d.subgoals[j].args)
    <3>1. j \in 1 .. i
      BY <2>2
    <3>2. Var(c.prems[i].ev[2]) \notin Elements(c.prems[j].args) /\ c.prems[i].ev[2] \in Nat
      <4>1. c.prems[i].ev = Var(c.prems[i].ev[2]) /\ c.prems[i].ev[2] \in 1 .. c.nvars
        BY <1>3
      <4>2. c.prems[i].ev \notin Elements(c.prems[j].args)
        BY <3>1 DEF IsClause
      <4> QED BY <1>1, <4>1, <4>2
    <3>3. ev(i) \notin Elements(Shift(n, c.prems[j].args))
      BY <1>1, <1>2, <3>2, ShiftApart DEF ev
    <3> DEFINE ts == Shift(n, c.prems[j].args)
    <3>4. ts \in Seq(Terms) /\ d.subgoals[j].args = ApplyAll(u.sub, ts)
      BY <1>10, <1>11
    <3>5. \A t \in Terms : t # ev(i) => Apply(u.sub, t) # ev(i)
      BY <1>3, <1>9
    <3> HIDE DEF ts
    <3> QED BY <1>9, <3>3, <3>4, <3>5, SubstAvoids DEF ts
  <2>3. ASSUME NEW i \in 1 .. N, NEW j \in 1 .. N, j < i PROVE ev(j) # ev(i)
    <3>1. j \in 1 .. (i - 1)
      BY <2>3
    <3>2. c.prems[j].ev # c.prems[i].ev
      BY <3>1 DEF IsClause
    <3>3. c.prems[j].ev[2] \in Nat /\ c.prems[i].ev[2] \in Nat
      BY <1>1, <1>3
    <3>4. c.prems[j].ev[2] # c.prems[i].ev[2]
      BY <1>3, <3>2
    <3>5. c.prems[j].ev[2] + n # c.prems[i].ev[2] + n
      BY <1>1, <3>3, <3>4
    <3>6. \A x, y : Var(x) = Var(y) => x = y
      BY DEF Var
    <3> QED BY <3>5, <3>6 DEF ev
  <2> QED BY <1>10, <2>1, <2>2, <2>3 DEF Telescope
<1>15. Proves(m, d)
  <2> SUFFICES ASSUME NEW g \in Groundings, Holds(m, d, g)
               PROVE  [cls |-> d.key.cls, args |-> ApplyAll(g, d.target)] \in m
    BY DEF Proves
  <2> DEFINE f == After(g, u.sub)
  <2> DEFINE h == After(f, ShiftBy(n))
  <2>1. f \in Groundings
    BY <1>9, AfterGrounds
  <2>2. h \in Groundings /\ \A t \in Terms : Apply(h, t) = Apply(f, Apply(ShiftBy(n), t))
    <3>1. DOMAIN ShiftBy(n) = Vars /\ \A v \in Vars : ShiftBy(n)[v] \in Terms
      BY <1>1, <1>2, ShiftRenames DEF Terms
    <3> HIDE DEF f
    <3> QED BY <2>1, <3>1, AfterGrounds
  <2> HIDE DEF h
  <2>3. ASSUME NEW ts \in Seq(Terms)
        PROVE  ApplyAll(h, ts) = ApplyAll(g, ApplyAll(u.sub, Shift(n, ts)))
    <3>1. /\ Shift(n, ts) = ApplyAll(ShiftBy(n), ts) /\ Shift(n, ts) \in Seq(Terms)
          /\ DOMAIN ShiftBy(n) = Vars /\ \A v \in Vars : ShiftBy(n)[v] \in Terms
      BY <1>1, ShiftRenames DEF Terms
    <3>2. ApplyAll(h, ts) = ApplyAll(f, Shift(n, ts))
      <4> HIDE DEF f
      <4> QED BY <2>1, <3>1, AfterArgs DEF h
    <3> QED BY <1>9, <3>1, <3>2, AfterArgs
  <2>4. ASSUME NEW i \in 1 .. N PROVE h[c.prems[i].ev] = Inst
    <3>1. Apply(g, ev(i)) = Inst
      BY <1>10 DEF Holds
    <3>2. Apply(f, ev(i)) = Inst
      BY <1>3, <1>9, <3>1, AfterGrounds DEF Terms
    <3>3. ShiftBy(n)[c.prems[i].ev] = ev(i) /\ c.prems[i].ev \in Vars
      BY <1>3 DEF ShiftBy, ev
    <3>4. Apply(ShiftBy(n), c.prems[i].ev) = ev(i)
      BY <3>3 DEF Apply, ShiftBy
    <3> QED BY <2>2, <3>2, <3>3, <3>4, Grounds DEF Terms
  <2>5. PICK r \in GroundClauses(c) :
            /\ r.head = [cls |-> c.head.cls, args |-> ApplyAll(h, c.head.args)]
            /\ r.prems = {[cls |-> c.prems[i].cls, args |-> ApplyAll(h, c.prems[i].args)] :
                             i \in 1 .. Len(c.prems)}
    BY <2>2, <2>4, ClauseRule
  <2>6. r.prems \subseteq m
    <3>1. ASSUME NEW i \in 1 .. N
          PROVE  [cls |-> c.prems[i].cls, args |-> ApplyAll(h, c.prems[i].args)] \in m
      <4>1. ApplyAll(h, c.prems[i].args) = ApplyAll(g, d.subgoals[i].args)
        BY <1>2, <1>10, <2>3
      <4>2. [cls |-> d.subgoals[i].cls, args |-> ApplyAll(g, d.subgoals[i].args)] \in m
        BY <1>10 DEF Holds
      <4> QED BY <1>10, <4>1, <4>2
    <3> QED BY <2>5, <3>1
  <2>7. r.head \in m
    BY <2>5, <2>6 DEF Closed
  <2>8. ApplyAll(h, c.head.args) = ApplyAll(g, d.target)
    BY <1>2, <1>8, <1>10, <2>3 DEF hd
  <2> QED BY <1>10, <2>5, <2>7, <2>8
<1>16. NodeInv(Arity, m, d)
  <2>1. d.fresh \in Nat /\ d.next \in Nat \ {0}
    BY <1>1, <1>10
  <2> QED BY <1>10, <1>12, <1>13, <1>14, <1>15, <2>1 DEF NodeInv
<1> QED BY <1>16 DEF d

\* What try_answer does to the consumer.
AnsweredFrom(c, a, sub, d) ==
    /\ IsNode(d) /\ d.key = c.key /\ d.next = c.next + 1 /\ d.fresh = c.fresh + a.open
    /\ d.target = ApplyAll(sub, c.target) /\ Sequence(d.vals)
    /\ Sequence(d.subgoals) /\ Len(d.subgoals) = Len(c.subgoals)
    /\ \A i \in 1 .. Len(c.subgoals) :
           d.subgoals[i] = [c.subgoals[i] EXCEPT !.args = ApplyAll(sub, @), !.ev = Apply(sub, @)]

LEMMA AnsweredFields ==
    ASSUME NEW c, IsNode(c), Sequence(c.subgoals), Sequence(c.vals), NEW a, a.open \in Nat
    PROVE  LET p == c.subgoals[c.next]
               u == Unify("var", p.args, Shift(c.fresh, a.args))
           IN  /\ TryAnswer(c, a).res = u.res
               /\ AnsweredFrom(c, a, Bind(u.sub, p.ev, Inst), TryAnswer(c, a).node)
<1> DEFINE p == c.subgoals[c.next]
<1> DEFINE u == Unify("var", p.args, Shift(c.fresh, a.args))
<1> DEFINE sub == Bind(u.sub, p.ev, Inst)
<1> DEFINE opened == [i \in 1..a.open |-> Var(c.fresh + i)]
<1> DEFINE vals == c.vals \o opened
<1> DEFINE node == [c EXCEPT !.next = @ + 1, !.size = @ + a.size, !.fresh = @ + a.open,
                             !.vals = vals]
<1>1. TryAnswer(c, a).node = Instantiate(sub, node) /\ TryAnswer(c, a).res = u.res
  BY DEF TryAnswer, IsNode
<1>2. Sequence(vals)
  <2> DEFINE S == {Var(c.fresh + i) : i \in 1 .. a.open}
  <2>1. opened \in [1 .. a.open -> S]
    OBVIOUS
  <2> HIDE DEF opened, S
  <2>2. opened \in Seq(S)
    BY <2>1
  <2>3. Sequence(opened)
    BY <2>2 DEF Sequence
  <2> QED BY <2>3, SequenceConcat
<1> HIDE DEF vals
<1>3. /\ IsNode(node) /\ node.key = c.key /\ node.next = c.next + 1
      /\ node.fresh = c.fresh + a.open /\ node.target = c.target /\ node.vals = vals
      /\ node.subgoals = c.subgoals
  BY DEF IsNode
<1> HIDE DEF node, u, sub
<1> DEFINE d == Instantiate(sub, node)
<1>4. InstantiatedFrom(sub, node, d)
  BY <1>3, InstantiateFields
<1> HIDE DEF d
<1>5. Sequence(d.vals)
  <2>1. d.vals = [i \in DOMAIN vals |-> Apply(sub, vals[i])]
    BY <1>3, <1>4 DEF InstantiatedFrom, ApplyAll
  <2> DEFINE w == [i \in DOMAIN vals |-> Apply(sub, vals[i])]
  <2>2. w = [i \in DOMAIN vals |-> w[i]]
    OBVIOUS
  <2> HIDE DEF w
  <2>3. Sequence(w)
    BY <1>2, <2>2, SequenceMapped
  <2> QED BY <2>1, <2>3 DEF w
<1>6. AnsweredFrom(c, a, sub, d)
  BY <1>3, <1>4, <1>5 DEF InstantiatedFrom, AnsweredFrom
<1> QED BY <1>1, <1>6 DEF d, sub, u

\* What an answer is known to be: arguments up to renaming, every ground instance in m.
IsAnswer(Arity, m, cls, a) ==
    /\ a.args \in Seq(Ground \cup VarsTo(Len(a.args))) /\ Len(a.args) = Arity[cls]
    /\ a.open \in Nat
    /\ Valid(m, cls, a.args)

\* try_answer keeps what the consumer proves.
LEMMA AnsweredSound ==
    ASSUME GroundTerms, NEW Arity, NEW m, NEW c, NodeInv(Arity, m, c), c.next \in Open(c),
           NEW a, IsAnswer(Arity, m, c.subgoals[c.next].cls, a),
           TryAnswer(c, a).res = "ok"
    PROVE  NodeInv(Arity, m, TryAnswer(c, a).node)
<1> DEFINE N == Len(c.subgoals)
<1> DEFINE k == c.next
<1> DEFINE p == c.subgoals[k]
<1> DEFINE e == p.ev
<1> DEFINE given == Shift(c.fresh, a.args)
<1> DEFINE u == Unify("var", p.args, given)
<1> DEFINE sub == Bind(u.sub, e, Inst)
<1> DEFINE d == TryAnswer(c, a).node
<1> DEFINE ev(i) == c.subgoals[i].ev
<1> DEFINE V == Vars \ {ev(i) : i \in Open(c)}
<1>1. /\ N \in Nat /\ k \in Nat \ {0} /\ c.fresh \in Nat /\ a.open \in Nat
      /\ Open(c) = k .. N /\ k \in Open(c)
      /\ \A i \in Open(c) : i \in 1 .. N
  BY SequenceElements DEF NodeInv, Open, IsAnswer
<1>2. /\ a.args \in Seq(Terms) /\ Len(a.args) = Len(p.args) /\ p.args \in Seq(Terms)
      /\ c.target \in Seq(Terms) /\ Len(c.target) = Arity[c.key.cls]
  <2>1. Ground \cup VarsTo(Len(a.args)) \subseteq Terms
    BY DEF VarsTo, Vars, Terms
  <2>2. /\ a.args \in Seq(Ground \cup VarsTo(Len(a.args))) /\ Len(a.args) = Arity[p.cls]
    BY DEF IsAnswer
  <2>3. IsPremise(Arity, p, c.fresh)
    BY <1>1 DEF NodeInv
  <2> HIDE DEF p
  <2> QED BY <2>1, <2>2, <2>3 DEF NodeInv, IsPremise
<1>3. ASSUME NEW i \in Open(c)
      PROVE  /\ ev(i) \in Vars /\ ev(i) \notin V /\ ev(i) \in VarsTo(c.fresh)
             /\ IsPremise(Arity, c.subgoals[i], c.fresh)
  BY <1>1 DEF NodeInv, IsPremise, VarsTo, Vars
<1>4. ASSUME NEW i \in Open(c), i # k PROVE k < i /\ ev(i) # e
  BY <1>1, <1>4 DEF NodeInv, Telescope
<1>5. p.args \in Seq(Ground \cup V)
  <2>1. \A i \in Open(c) : ev(i) \notin Elements(p.args)
    BY <1>1 DEF NodeInv, Telescope
  <2> HIDE DEF p, ev
  <2>2. \A j \in 1 .. Len(p.args) : p.args[j] \in Ground \cup V
    BY <1>2, <2>1 DEF Elements, Terms
  <2> QED BY <1>2, <2>2
<1>6. given \in Seq(Ground \cup V) /\ Len(given) = Len(p.args) /\ given \in Seq(Terms)
  <2>1. /\ given \in Seq(Terms) /\ Len(given) = Len(a.args)
        /\ \A j \in 1 .. Len(a.args) :
               given[j] = IF IsVar(a.args[j]) THEN Var(a.args[j][2] + c.fresh) ELSE a.args[j]
    BY <1>1, <1>2, ShiftRenames
  <2>2. ASSUME NEW j \in 1 .. Len(a.args) PROVE given[j] \in Ground \cup V
    <3>1. a.args[j] \in Ground \cup VarsTo(Len(a.args))
      BY DEF IsAnswer
    <3>2. CASE a.args[j] \in Ground
      <4>1. given[j] = a.args[j]
        BY <2>1, <3>2 DEF GroundTerms
      <4> QED BY <3>2, <4>1
    <3>3. CASE a.args[j] \in VarsTo(Len(a.args))
      <4>1. PICK l \in 1 .. Len(a.args) : a.args[j] = Var(l)
        BY <3>3 DEF VarsTo
      <4>2. l \in Nat /\ l > 0
        BY <1>2, <4>1
      <4>3. given[j] = Var(l + c.fresh)
        <5>1. Var(l)[1] = "var" /\ Var(l)[2] = l
          BY DEF Var
        <5> HIDE DEF given
        <5> QED BY <2>1, <4>1, <5>1 DEF IsVar
      <4>4. Var(l + c.fresh) \in Vars
        BY <1>1, <4>2 DEF Vars
      <4>5. Var(l + c.fresh) \notin VarsTo(c.fresh)
        <5>1. \A x, y : Var(x) = Var(y) => x = y
          BY DEF Var
        <5>2. l + c.fresh \notin 1 .. c.fresh
          BY <1>1, <4>2
        <5> QED BY <5>1, <5>2 DEF VarsTo
      <4> HIDE DEF given, ev
      <4> QED BY <1>3, <4>3, <4>4, <4>5
    <3> QED BY <3>1, <3>2, <3>3
  <2> HIDE DEF given, V
  <2> QED BY <1>2, <2>1, <2>2
<1>7. V \subseteq Vars
  OBVIOUS
<1>8. AnsweredFrom(c, a, sub, d) /\ u.res = "ok"
  <2>1. IsNode(c) /\ Sequence(c.subgoals) /\ Sequence(c.vals)
    BY DEF NodeInv
  <2> QED BY <1>1, <2>1, AnsweredFields
<1> HIDE DEF d, given, V, p
<1>9. u \in Unifications(V) /\ ApplyAll(u.sub, p.args) = ApplyAll(u.sub, given)
  BY <1>5, <1>6, <1>7, <1>8, Unifies
<1> HIDE DEF u
<1>10. /\ DOMAIN u.sub \subseteq V /\ DOMAIN u.sub \subseteq Vars
       /\ \A v \in DOMAIN u.sub : u.sub[v] \in Terms
       /\ \A t \in Terms : Apply(u.sub, t) \in Terms
       /\ \A x \in Vars \ V : /\ Apply(u.sub, x) = x
                              /\ \A t \in Terms : t # x => Apply(u.sub, t) # x
  BY <1>7, <1>9, UnificationSubst
<1>11. e \in Vars /\ e \notin V /\ Inst \in Ground /\ Inst \in Terms /\ e \notin DOMAIN u.sub
  BY <1>1, <1>3, <1>10 DEF GroundTerms, Terms, p
<1> HIDE DEF e
<1>12. \A t \in Terms : Apply(sub, t) = IF t = e THEN Inst ELSE Apply(u.sub, t)
  <2>1. \A t : Apply(sub, t) = IF Apply(u.sub, t) = e THEN Inst ELSE Apply(u.sub, t)
    BY <1>11, BindApplies
  <2> HIDE DEF sub
  <2> QED BY <1>10, <1>11, <2>1
<1>13. /\ DOMAIN sub \subseteq Vars
       /\ \A v \in DOMAIN sub : sub[v] \in Terms
       /\ \A t \in Terms : Apply(sub, t) \in Terms
  <2>1. DOMAIN sub = DOMAIN u.sub \cup {e}
    BY DEF Bind
  <2> HIDE DEF sub
  <2>2. DOMAIN sub \subseteq Vars /\ \A t \in Terms : Apply(sub, t) \in Terms
    BY <1>10, <1>11, <1>12, <2>1
  <2>3. \A v \in DOMAIN sub : v \in Terms /\ Apply(sub, v) = sub[v]
    BY <2>2 DEF Apply, Terms
  <2> QED BY <2>2, <2>3
<1>14. ASSUME NEW i \in Open(c), i # k
       PROVE  Apply(sub, ev(i)) = ev(i) /\ \A t \in Terms : t # ev(i) => Apply(sub, t) # ev(i)
  <2>1. ev(i) \in Vars \ V /\ ev(i) # e /\ ev(i) \in Terms
    BY <1>3, <1>4, <1>14 DEF Terms
  <2>2. Inst # ev(i)
    BY <1>11, <2>1, TermKinds
  <2> HIDE DEF sub, ev
  <2> QED BY <1>10, <1>12, <2>1, <2>2
<1>15. ASSUME NEW ts \in Seq(Ground \cup V) PROVE ApplyAll(sub, ts) = ApplyAll(u.sub, ts)
  <2>1. \A i \in 1 .. Len(ts) : ts[i] \in Ground \cup V
    OBVIOUS
  <2>2. \A t \in Ground \cup V : t \in Terms /\ t # e
    BY <1>7, <1>11, TermKinds DEF Terms
  <2> HIDE DEF sub
  <2>3. \A i \in 1 .. Len(ts) : Apply(sub, ts[i]) = Apply(u.sub, ts[i])
    BY <1>12, <2>1, <2>2
  <2> QED BY <2>3, ApplyAllSame
<1> HIDE DEF sub
<1>16. /\ IsNode(d) /\ d.key = c.key /\ d.next = k + 1 /\ d.fresh = c.fresh + a.open
       /\ d.target = ApplyAll(sub, c.target) /\ Sequence(d.vals)
       /\ Sequence(d.subgoals) /\ Len(d.subgoals) = N /\ Open(d) = (k + 1) .. N
  BY <1>8 DEF AnsweredFrom, Open
<1>17. ASSUME NEW i \in Open(d)
       PROVE  /\ i \in Open(c) /\ i # k /\ d.subgoals[i].ev = ev(i)
              /\ DOMAIN d.subgoals[i] = {"cls", "args", "ev"}
              /\ d.subgoals[i].cls = c.subgoals[i].cls
              /\ d.subgoals[i].args = ApplyAll(sub, c.subgoals[i].args)
              /\ c.subgoals[i].args \in Seq(Terms)
  <2>1. i \in Open(c) /\ i # k /\ i \in 1 .. N
    BY <1>1, <1>16
  <2>2. d.subgoals[i] = [c.subgoals[i] EXCEPT !.args = ApplyAll(sub, @), !.ev = Apply(sub, @)]
    BY <1>8, <2>1 DEF AnsweredFrom
  <2>3. DOMAIN c.subgoals[i] = {"cls", "args", "ev"} /\ c.subgoals[i].args \in Seq(Terms)
    BY <1>3, <2>1 DEF IsPremise
  <2> QED BY <1>14, <2>1, <2>2, <2>3
<1>18. d.target \in Seq(Terms) /\ Len(d.target) = Arity[d.key.cls]
  BY <1>2, <1>13, <1>16, ApplyAllArgs
<1>19. ASSUME NEW i \in Open(d) PROVE IsPremise(Arity, d.subgoals[i], d.fresh)
  <2> DEFINE ts == c.subgoals[i].args
  <2>1. ts \in Seq(Terms) /\ Len(ts) = Arity[c.subgoals[i].cls] /\ ev(i) \in VarsTo(c.fresh)
    BY <1>3, <1>17 DEF IsPremise
  <2> HIDE DEF ts
  <2>2. ApplyAll(sub, ts) \in Seq(Terms) /\ Len(ApplyAll(sub, ts)) = Len(ts)
    BY <1>13, <2>1, ApplyAllArgs
  <2>3. VarsTo(c.fresh) \subseteq VarsTo(c.fresh + a.open)
    BY <1>1 DEF VarsTo
  <2> QED BY <1>16, <1>17, <2>1, <2>2, <2>3 DEF IsPremise, ts
<1>20. Telescope(d)
  <2>1. ASSUME NEW i \in Open(d), NEW ts \in Seq(Terms), ev(i) \notin Elements(ts)
        PROVE  ev(i) \notin Elements(ApplyAll(sub, ts))
    <3> DEFINE x == ev(i)
    <3>1. \A t \in Terms : t # x => Apply(sub, t) # x
      BY <1>14, <1>17
    <3> HIDE DEF x
    <3> QED BY <1>13, <2>1, <3>1, SubstAvoids DEF x
  <2>2. ASSUME NEW i \in Open(d) PROVE ev(i) \notin Elements(d.target)
    <3>1. ev(i) \notin Elements(c.target)
      BY <1>17 DEF NodeInv, Telescope
    <3> QED BY <1>2, <1>16, <2>1, <3>1
  <2>3. ASSUME NEW i \in Open(d), NEW j \in Open(d), j <= i
        PROVE  ev(i) \notin Elements(d.subgoals[j].args)
    <3>1. ev(i) \notin Elements(c.subgoals[j].args)
      BY <1>17, <2>3 DEF NodeInv, Telescope
    <3> QED BY <1>17, <2>1, <3>1
  <2>4. ASSUME NEW i \in Open(d), NEW j \in Open(d), j < i PROVE ev(j) # ev(i)
    BY <1>17, <2>4 DEF NodeInv, Telescope
  <2> HIDE DEF ev
  <2> QED BY <1>17, <2>2, <2>3, <2>4 DEF Telescope
<1>21. Proves(m, d)
  <2> SUFFICES ASSUME NEW g \in Groundings, Holds(m, d, g)
               PROVE  [cls |-> d.key.cls, args |-> ApplyAll(g, d.target)] \in m
    BY DEF Proves
  <2> DEFINE h == After(g, sub)
  <2>1. h \in Groundings /\ \A t \in Terms : Apply(h, t) = Apply(g, Apply(sub, t))
    BY <1>13, AfterGrounds
  <2>2. \A ts \in Seq(Terms) : ApplyAll(h, ts) = ApplyAll(g, ApplyAll(sub, ts))
    <3> TAKE ts \in Seq(Terms)
    <3> QED BY <1>13, AfterArgs
  <2> HIDE DEF h
  <2>3. ASSUME NEW i \in Open(c), i # k
        PROVE  /\ Apply(h, ev(i)) = Inst
               /\ [cls |-> c.subgoals[i].cls, args |-> ApplyAll(h, c.subgoals[i].args)] \in m
    <3>1. i \in Open(d)
      BY <1>1, <1>16, <2>3
    <3>2. /\ Apply(g, ev(i)) = Inst
          /\ [cls |-> c.subgoals[i].cls, args |-> ApplyAll(g, d.subgoals[i].args)] \in m
      BY <1>17, <3>1 DEF Holds
    <3>3. ev(i) \in Terms /\ Apply(sub, ev(i)) = ev(i)
      BY <1>3, <1>14, <2>3 DEF Terms
    <3> QED BY <1>17, <2>1, <2>2, <3>1, <3>2, <3>3
  <2>4. /\ Apply(h, e) = Inst
        /\ [cls |-> p.cls, args |-> ApplyAll(h, p.args)] \in m
    <3>1. Apply(h, e) = Inst
      <4>1. e \in Terms /\ Apply(sub, e) = Inst
        BY <1>11, <1>12 DEF Terms
      <4> QED BY <1>11, <2>1, <4>1, Grounds
    <3>2. ApplyAll(h, p.args) = ApplyAll(g, ApplyAll(u.sub, given))
      BY <1>2, <1>5, <1>9, <1>15, <2>2
    <3>3. Valid(m, p.cls, given)
      <4>1. /\ given = ApplyAll(ShiftBy(c.fresh), a.args)
            /\ DOMAIN ShiftBy(c.fresh) \subseteq Vars
            /\ \A v \in DOMAIN ShiftBy(c.fresh) : ShiftBy(c.fresh)[v] \in Terms
        BY <1>1, <1>2, ShiftRenames DEF given, Terms
      <4>2. Valid(m, p.cls, a.args)
        BY DEF IsAnswer, p
      <4> QED BY <1>2, <4>1, <4>2, ValidAfter
    <3>4. Valid(m, p.cls, ApplyAll(u.sub, given))
      BY <1>6, <1>10, <3>3, ValidAfter
    <3> QED BY <3>1, <3>2, <3>4 DEF Valid
  <2>5. Holds(m, c, h)
    BY <2>3, <2>4 DEF Holds, e, p
  <2>6. [cls |-> c.key.cls, args |-> ApplyAll(h, c.target)] \in m
    BY <2>1, <2>5 DEF NodeInv, Proves
  <2> QED BY <1>2, <1>16, <2>2, <2>6
<1>22. NodeInv(Arity, m, d)
  <2>1. d.fresh \in Nat /\ d.next \in Nat \ {0}
    BY <1>1, <1>16
  <2> QED BY <1>16, <1>18, <1>19, <1>20, <1>21, <2>1 DEF NodeInv
<1> QED BY <1>22 DEF d

-----------------------------------------------------------------------------
(* What the table says holds. *)

\* An instance table of clauses, and the goal of a caller.
IsProgram(Arity, d) == Sequence(d) /\ \A c \in Elements(d) : IsClause(Arity, c)

IsQuery(Arity, g) == g.args \in Seq(Ground) /\ Len(g.args) = Arity[g.cls]

AnswersHold(Arity, m, s) ==
    \A k \in DOMAIN s.answers :
        /\ IsAtom(Arity, k, Len(k.args))
        /\ \A a \in Elements(s.answers[k].answers) : IsAnswer(Arity, m, k.cls, a)

\* A generator has instances of its goal's class left.
GeneratorsHold(d, s) ==
    \A i \in 1 .. Len(s.generators) :
        /\ Sequence(s.generators[i].remaining)
        /\ \A c \in Elements(s.generators[i].remaining) :
               c \in Elements(d) /\ c.head.cls = s.generators[i].key.cls

ConsumersHold(Arity, m, s) ==
    \A i \in 1 .. Len(s.consumers) :
        NodeInv(Arity, m, s.consumers[i]) /\ s.consumers[i].next \in Open(s.consumers[i])

TableInv(Arity, m, d, s) ==
    AnswersHold(Arity, m, s) /\ GeneratorsHold(d, s) /\ ConsumersHold(Arity, m, s)

\* A table with the same consumers and no answer that is not known to hold.
LEMMA TableKept ==
    ASSUME NEW Arity, NEW m, NEW d, NEW s, TableInv(Arity, m, d, s),
           NEW t, t.generators = s.generators, t.consumers = s.consumers,
           DOMAIN t.answers = DOMAIN s.answers,
           \A k \in DOMAIN s.answers : \A a \in Elements(t.answers[k].answers) :
               a \in Elements(s.answers[k].answers) \/ IsAnswer(Arity, m, k.cls, a)
    PROVE  TableInv(Arity, m, d, t)
<1>1. AnswersHold(Arity, m, t)
  BY DEF TableInv, AnswersHold
<1>2. GeneratorsHold(d, t)
  BY DEF TableInv, GeneratorsHold
<1>3. ConsumersHold(Arity, m, t)
  BY DEF TableInv, ConsumersHold
<1> QED BY <1>1, <1>2, <1>3 DEF TableInv

\* The metavariables of a sequence are finitely many.
LEMMA FinitelyMany ==
    ASSUME NEW ts, Sequence(ts)
    PROVE  Cardinality(VarsOf(ts)) \in Nat
<1>1. Len(ts) \in Nat /\ DOMAIN ts = 1 .. Len(ts) /\ ToSet(ts) = Elements(ts)
  BY SequenceElements
<1> DEFINE S == 1 .. Len(ts)
<1> DEFINE T == Elements(ts)
<1> DEFINE f == [i \in S |-> ts[i]]
<1>2. IsFiniteSet(S)
  <2>1. 1 \in Int /\ Len(ts) \in Int
    BY <1>1
  <2> QED BY <2>1, FS_Interval
<1>3. f \in Surjection(S, T)
  BY <1>1 DEF Surjection, Elements
<1> HIDE DEF S, T, f
<1>4. IsFiniteSet(T)
  BY <1>2, <1>3, FS_Surjection
<1>5. VarsOf(ts) \in SUBSET T
  BY <1>1 DEF VarsOf, T
<1> QED BY <1>4, <1>5, FS_Subset, FS_CardinalityType

\* A node without open premises makes an answer that holds.
LEMMA AnswerSound ==
    ASSUME GroundTerms, NEW Arity, NEW m, NEW c, NodeInv(Arity, m, c), Open(c) = {}
    PROVE  IsAnswer(Arity, m, c.key.cls, MkAnswer(c))
<1> DEFINE a == MkAnswer(c)
<1>1. a.args = Canonical(c.target) /\ a.open = Cardinality(VarsOf(c.vals))
  BY DEF MkAnswer
<1> HIDE DEF a
<1>2. a.open \in Nat
  BY <1>1, FinitelyMany DEF NodeInv
<1>3. c.target \in Seq(Terms) /\ Len(c.target) = Arity[c.key.cls]
  BY DEF NodeInv
<1>4. /\ \E f : /\ DOMAIN f \subseteq Vars /\ \A v \in DOMAIN f : f[v] \in Terms
                /\ a.args = ApplyAll(f, c.target)
      /\ a.args \in Seq(Ground \cup VarsTo(Len(c.target)))
      /\ Len(a.args) = Len(c.target)
  BY <1>1, <1>3, CanonicalRenames
<1>5. PICK f : /\ DOMAIN f \subseteq Vars /\ \A v \in DOMAIN f : f[v] \in Terms
               /\ a.args = ApplyAll(f, c.target)
  BY <1>4
<1>6. Valid(m, c.key.cls, c.target)
  <2>1. \A g : Holds(m, c, g)
    BY DEF Holds
  <2> QED BY <2>1 DEF NodeInv, Proves, Valid
<1>7. Valid(m, c.key.cls, a.args)
  BY <1>3, <1>5, <1>6, ValidAfter
<1>8. IsAnswer(Arity, m, c.key.cls, a)
  BY <1>2, <1>3, <1>4, <1>7 DEF IsAnswer
<1> QED BY <1>8 DEF a

\* add_answer records what holds.
LEMMA AddAnswerSound ==
    ASSUME GroundTerms, NEW Arity, NEW m, NEW d, NEW s, SearchInv(s), TableInv(Arity, m, d, s),
           NEW c, NodeInv(Arity, m, c), Open(c) = {}, c.key \in DOMAIN s.answers
    PROVE  TableInv(Arity, m, d, AddAnswer(s, c))
<1> DEFINE k == c.key
<1> DEFINE a == MkAnswer(c)
<1> DEFINE entry == s.answers[k]
<1> DEFINE more == Append(entry.answers, a)
<1> DEFINE s1 == [s EXCEPT !.answers[k].answers = Append(@, a)]
<1> DEFINE t == AddAnswer(s, c)
<1>1. Fields(s) /\ k \in DOMAIN s.answers /\ IsEntry(entry)
  BY DEF SearchInv, WaitersInv
<1>2. IsAnswer(Arity, m, k.cls, a)
  BY AnswerSound
<1> HIDE DEF a
<1>3. CASE c.size >= MaxResultSize
  <2>1. t = [s EXCEPT !.dropped = TRUE]
    BY <1>3 DEF AddAnswer
  <2> HIDE DEF t
  <2>2. t.answers = s.answers /\ t.generators = s.generators /\ t.consumers = s.consumers
    BY <1>1, <2>1 DEF Fields
  <2>3. TableInv(Arity, m, d, t)
    BY <2>2, TableKept
  <2> QED BY <2>3 DEF t
<1>4. CASE ~(c.size >= MaxResultSize) /\ ~IsNewAnswer(entry, a)
  <2>1. t = s
    BY <1>4 DEF AddAnswer, a
  <2> QED BY <2>1
<1>5. CASE ~(c.size >= MaxResultSize) /\ IsNewAnswer(entry, a)
  <2> DEFINE ws == entry.waiters
  <2>1. t = WakeUp(s1, a, ws)
    BY <1>5 DEF AddAnswer, a
  <2>2. s1 = [s EXCEPT !.answers = [s.answers EXCEPT ![k] = [entry EXCEPT !.answers = more]]]
    OBVIOUS
  <2>3. DOMAIN entry = {"answers", "waiters"} /\ Sequence(entry.answers)
    BY <1>1 DEF IsEntry
  <2> DEFINE old == entry.answers
  <2>4. Elements(more) = Elements(old) \cup {a}
    <3>1. Sequence(old)
      BY <2>3
    <3> HIDE DEF old
    <3>2. Elements(Append(old, a)) = Elements(old) \cup {a}
      BY <3>1, SequenceAppend
    <3> QED BY <3>2 DEF old
  <2> HIDE DEF more, s1, t, ws
  <2>5. /\ Fields(s1) /\ s1.generators = s.generators /\ s1.consumers = s.consumers
        /\ s1.answers = [s.answers EXCEPT ![k] = [entry EXCEPT !.answers = more]]
    BY <1>1, <2>2 DEF Fields
  <2>6. Handed(s1, t, a, ws)
    BY <2>1, <2>5, WakeUpFields
  <2>7. /\ t.answers = [s.answers EXCEPT ![k] = [entry EXCEPT !.answers = more]]
        /\ t.generators = s.generators /\ t.consumers = s.consumers
    BY <2>5, <2>6 DEF Handed
  <2>8. /\ DOMAIN t.answers = DOMAIN s.answers
        /\ t.answers[k].answers = more
        /\ \A j \in DOMAIN s.answers \ {k} : t.answers[j] = s.answers[j]
    BY <1>1, <2>3, <2>7
  <2>9. ASSUME NEW j \in DOMAIN s.answers, NEW b \in Elements(t.answers[j].answers)
        PROVE  b \in Elements(s.answers[j].answers) \/ IsAnswer(Arity, m, j.cls, b)
    <3>1. CASE j = k
      BY <1>2, <2>4, <2>8, <2>9, <3>1
    <3>2. CASE j # k
      BY <2>8, <2>9, <3>2
    <3> QED BY <3>1, <3>2
  <2>10. TableInv(Arity, m, d, t)
    BY <2>7, <2>8, <2>9, TableKept
  <2> QED BY <2>10 DEF t
<1> QED BY <1>3, <1>4, <1>5

\* One consumer more.
LEMMA StoredHolds ==
    ASSUME NEW Arity, NEW m, NEW s, SearchInv(s), ConsumersHold(Arity, m, s),
           NEW c, NodeInv(Arity, m, c), c.next \in Open(c),
           NEW t, t.consumers = Append(s.consumers, c)
    PROVE  ConsumersHold(Arity, m, t)
<1> DEFINE n == Len(s.consumers) + 1
<1> DEFINE q == Append(s.consumers, c)
<1>1. /\ Len(q) = n /\ q[n] = c
      /\ 1 .. n = (1 .. Len(s.consumers)) \cup {n}
      /\ \A i \in 1 .. Len(s.consumers) : q[i] = s.consumers[i]
  BY StoredConsumer
<1> HIDE DEF n, q
<1>2. ASSUME NEW i \in 1 .. n PROVE NodeInv(Arity, m, q[i]) /\ q[i].next \in Open(q[i])
  BY <1>1 DEF ConsumersHold
<1> QED BY <1>1, <1>2 DEF ConsumersHold, q

\* consume's replay of the answers a goal has.
LEMMA AddWaiterSound ==
    ASSUME NEW Arity, NEW m, NEW d, NEW s, SearchInv(s), TableInv(Arity, m, d, s),
           NEW c, NodeInv(Arity, m, c), c.next \in Open(c), NEW key \in DOMAIN s.answers, NEW idx
    PROVE  TableInv(Arity, m, d, AddWaiter([s EXCEPT !.consumers = Append(@, c)], key, idx))
<1> DEFINE q == Append(s.consumers, c)
<1> DEFINE s1 == [s EXCEPT !.consumers = q]
<1> DEFINE entry == s.answers[key]
<1> DEFINE known == entry.answers
<1> DEFINE r == s.resume_stack \o [i \in DOMAIN known |-> [idx |-> idx, answer |-> known[i]]]
<1> DEFINE more == Append(entry.waiters, idx)
<1> DEFINE t == AddWaiter(s1, key, idx)
<1>1. Fields(s) /\ IsEntry(entry)
  BY DEF SearchInv, WaitersInv
<1>2. /\ Fields(s1) /\ s1.answers = s.answers /\ s1.generators = s.generators
      /\ s1.consumers = q /\ s1.resume_stack = s.resume_stack
  BY <1>1 DEF Fields
<1> HIDE DEF s1
<1>3. t = [s1 EXCEPT !.answers = [s.answers EXCEPT ![key] = [entry EXCEPT !.waiters = more]],
                     !.resume_stack = r]
  BY <1>2 DEF AddWaiter
<1> HIDE DEF t, r, more
<1>4. /\ t.generators = s.generators /\ t.consumers = q
      /\ t.answers = [s.answers EXCEPT ![key] = [entry EXCEPT !.waiters = more]]
  BY <1>2, <1>3 DEF Fields
<1>5. /\ DOMAIN t.answers = DOMAIN s.answers
      /\ \A k \in DOMAIN s.answers : t.answers[k].answers = s.answers[k].answers
  BY <1>1, <1>4 DEF IsEntry
<1>6. AnswersHold(Arity, m, t)
  BY <1>5 DEF TableInv, AnswersHold
<1>7. GeneratorsHold(d, t)
  BY <1>4 DEF TableInv, GeneratorsHold
<1>8. ConsumersHold(Arity, m, t)
  BY <1>4, StoredHolds DEF TableInv
<1>9. TableInv(Arity, m, d, t)
  BY <1>6, <1>7, <1>8 DEF TableInv
<1> QED BY <1>9 DEF t, s1

\* The candidates of a goal are instances of its class.
LEMMA NewSubgoalSound ==
    ASSUME NEW Arity, NEW m, NEW s, Fields(s), Sequence(s.generators),
           AnswersHold(Arity, m, s), GeneratorsHold(db, s), Sequence(db),
           NEW key, key \notin DOMAIN s.answers, IsAtom(Arity, key, Len(key.args)), NEW idx
    PROVE  LET t == NewSubgoal(s, key, idx)
           IN  AnswersHold(Arity, m, t) /\ GeneratorsHold(db, t) /\ t.consumers = s.consumers
<1> DEFINE candidates == GetInstances(key)
<1> DEFINE gen == [key |-> key, remaining |-> candidates]
<1> DEFINE fresh == [answers |-> << >>, waiters |-> <<idx>>]
<1> DEFINE table == [k \in DOMAIN s.answers \cup {key} |-> IF k = key THEN fresh ELSE s.answers[k]]
<1> DEFINE gens == Append(s.generators, gen)
<1> DEFINE t == NewSubgoal(s, key, idx)
<1>1. CASE candidates = << >>
  <2>1. t = s
    BY <1>1 DEF NewSubgoal
  <2> QED BY <2>1
<1>2. CASE candidates # << >>
  <2>1. t = [s EXCEPT !.generators = gens, !.answers = table]
    BY <1>2 DEF NewSubgoal, Fields
  <2>2. /\ Sequence(candidates)
        /\ \A c \in Elements(candidates) : c \in Elements(db) /\ c.head.cls = key.cls
    <3>1. PICK E : db \in Seq(E)
      BY DEF Sequence
    <3>2. /\ Matching(db, key) \in Seq(E)
          /\ \A c \in Elements(Matching(db, key)) : c \in Elements(db) /\ c.head.cls = key.cls
      BY <3>1, CandidatesFit
    <3> QED BY <3>2 DEF Sequence, GetInstances
  <2> HIDE DEF candidates
  <2>3. gen.key = key /\ gen.remaining = candidates
    OBVIOUS
  <2> HIDE DEF gen, t, table
  <2>4. t.generators = gens /\ t.answers = table /\ t.consumers = s.consumers
    BY <2>1 DEF Fields
  <2>5. GeneratorsHold(db, t)
    <3>1. /\ Sequence(gens) /\ Len(gens) = Len(s.generators) + 1
          /\ gens[Len(s.generators) + 1] = gen
          /\ \A i \in 1 .. Len(s.generators) : gens[i] = s.generators[i]
      BY SequenceAppend
    <3>2. Len(s.generators) \in Nat
      BY SequenceElements
    <3> HIDE DEF gens
    <3>3. \A i \in 1 .. Len(gens) : i \in 1 .. Len(s.generators) \/ i = Len(s.generators) + 1
      BY <3>1, <3>2
    <3>4. ASSUME NEW i \in 1 .. Len(gens)
          PROVE  /\ Sequence(gens[i].remaining)
                 /\ \A c \in Elements(gens[i].remaining) :
                        c \in Elements(db) /\ c.head.cls = gens[i].key.cls
      <4>1. CASE i \in 1 .. Len(s.generators)
        BY <3>1, <4>1 DEF GeneratorsHold
      <4>2. CASE i = Len(s.generators) + 1
        BY <2>2, <2>3, <3>1, <4>2
      <4> QED BY <3>3, <4>1, <4>2
    <3> QED BY <2>4, <3>4 DEF GeneratorsHold
  <2>6. AnswersHold(Arity, m, t)
    <3>1. /\ DOMAIN t.answers = DOMAIN s.answers \cup {key}
          /\ t.answers[key].answers = << >>
          /\ \A k \in DOMAIN s.answers : t.answers[k] = s.answers[k]
      BY <2>4 DEF table
    <3>2. Elements(<< >>) = {}
      BY EmptyElements
    <3> QED BY <3>1, <3>2 DEF AnswersHold
  <2> QED BY <2>4, <2>5, <2>6 DEF t
<1> QED BY <1>1, <1>2

\* The invariant of a node is about six of its fields.
LEMMA SameNode ==
    ASSUME NEW Arity, NEW m, NEW c, NodeInv(Arity, m, c), NEW d, IsNode(d),
           d.key = c.key, d.next = c.next, d.fresh = c.fresh, d.target = c.target,
           d.vals = c.vals, d.subgoals = c.subgoals
    PROVE  NodeInv(Arity, m, d) /\ Open(d) = Open(c)
<1>1. Open(d) = Open(c)
  BY DEF Open
<1>2. Telescope(d)
  BY <1>1 DEF NodeInv, Telescope
<1>3. \A g : Holds(m, d, g) => Holds(m, c, g)
  BY <1>1 DEF Holds
<1>4. Proves(m, d)
  BY <1>3 DEF NodeInv, Proves
<1> QED BY <1>1, <1>2, <1>4 DEF NodeInv

\* The goal of a premise is an atom of the table.
LEMMA GoalKeyAtom ==
    ASSUME GroundTerms, NEW Arity, NEW cls, NEW args \in Seq(Terms), Len(args) = Arity[cls]
    PROVE  IsAtom(Arity, GoalKey(cls, args), Len(GoalKey(cls, args).args))
<1>1. Canonical(args) \in Seq(Ground \cup VarsTo(Len(args))) /\ Len(Canonical(args)) = Len(args)
  BY CanonicalRenames
<1>2. GoalKey(cls, args).cls = cls /\ GoalKey(cls, args).args = Canonical(args)
  BY DEF GoalKey
<1> QED BY <1>1, <1>2 DEF IsAtom

\* consume keeps what the table says true.
LEMMA ConsumeSound ==
    ASSUME GroundTerms, NEW Arity, NEW m, NEW s, SearchInv(s), TableInv(Arity, m, db, s),
           Sequence(db), NEW c, NodeInv(Arity, m, c), c.key \in DOMAIN s.answers
    PROVE  TableInv(Arity, m, db, Consume(s, c))
<1> DEFINE open == {i \in c.next..Len(c.subgoals) : IsVar(c.subgoals[i].ev)}
<1>1. open = Open(c)
  <2>1. \A i \in Open(c) : IsVar(c.subgoals[i].ev)
    BY TermKinds DEF NodeInv, IsPremise, VarsTo, Vars
  <2> QED BY <2>1 DEF Open
<1>2. CASE open = {}
  <2>1. Consume(s, c) = AddAnswer(s, c)
    BY <1>2 DEF Consume
  <2> QED BY <1>1, <1>2, <2>1, AddAnswerSound
<1>3. CASE open # {}
  <2> DEFINE next == CHOOSE i \in open : \A j \in open : i <= j
  <2> DEFINE p == c.subgoals[next]
  <2> DEFINE key == GoalKey(p.cls, p.args)
  <2> DEFINE d == [c EXCEPT !.next = next]
  <2> DEFINE s1 == [s EXCEPT !.consumers = Append(@, d)]
  <2> DEFINE idx == Len(s1.consumers)
  <2>1. Consume(s, c) = IF key \in DOMAIN s1.answers THEN AddWaiter(s1, key, idx)
                        ELSE NewSubgoal(s1, key, idx)
    BY <1>3 DEF Consume
  <2>2. next = c.next /\ next \in Open(c)
    <3>1. c.next \in Nat /\ Len(c.subgoals) \in Nat /\ Open(c) = c.next .. Len(c.subgoals)
      BY SequenceElements DEF NodeInv, Open
    <3>2. c.next \in open /\ \A j \in open : c.next <= j
      BY <1>1, <1>3, <3>1
    <3> HIDE DEF open
    <3>3. next \in open /\ \A j \in open : next <= j
      BY <3>2
    <3>4. next <= c.next /\ c.next <= next /\ next \in Nat
      BY <1>1, <3>1, <3>2, <3>3
    <3> HIDE DEF next
    <3> QED BY <1>1, <3>1, <3>3, <3>4
  <2> HIDE DEF next
  <2>3. NodeInv(Arity, m, d) /\ d.next \in Open(d) /\ d.key = c.key
    <3>1. /\ IsNode(d) /\ d.key = c.key /\ d.next = c.next /\ d.fresh = c.fresh
          /\ d.target = c.target /\ d.vals = c.vals /\ d.subgoals = c.subgoals
      BY <2>2 DEF NodeInv, IsNode
    <3> HIDE DEF d
    <3> QED BY <2>2, <3>1, SameNode
  <2>4. IsAtom(Arity, key, Len(key.args))
    <3>1. p.args \in Seq(Terms) /\ Len(p.args) = Arity[p.cls]
      BY <2>2 DEF NodeInv, IsPremise
    <3> HIDE DEF p
    <3> QED BY <3>1, GoalKeyAtom
  <2> HIDE DEF d, key
  <2>5. /\ Fields(s1) /\ s1.answers = s.answers /\ s1.generators = s.generators
        /\ s1.consumers = Append(s.consumers, d)
    BY DEF SearchInv, Fields
  <2> HIDE DEF idx
  <2>6. CASE key \in DOMAIN s.answers
    <3>1. Consume(s, c) = AddWaiter(s1, key, idx)
      BY <2>1, <2>5, <2>6
    <3>2. TableInv(Arity, m, db, AddWaiter([s EXCEPT !.consumers = Append(@, d)], key, idx))
      BY <2>3, <2>6, AddWaiterSound
    <3> QED BY <3>1, <3>2
  <2>7. CASE key \notin DOMAIN s.answers
    <3> DEFINE t == NewSubgoal(s1, key, idx)
    <3>1. Consume(s, c) = t
      BY <2>1, <2>5, <2>7
    <3> HIDE DEF s1
    <3>2. AnswersHold(Arity, m, s1) /\ GeneratorsHold(db, s1) /\ Sequence(s1.generators)
      BY <2>5 DEF TableInv, AnswersHold, GeneratorsHold, SearchInv, GeneratorsInv
    <3>3. AnswersHold(Arity, m, t) /\ GeneratorsHold(db, t) /\ t.consumers = s1.consumers
      BY <2>4, <2>5, <2>7, <3>2, NewSubgoalSound
    <3> HIDE DEF t
    <3>4. ConsumersHold(Arity, m, t)
      BY <2>3, <2>5, <3>3, StoredHolds DEF TableInv
    <3> QED BY <3>1, <3>3, <3>4 DEF TableInv
  <2> QED BY <2>6, <2>7
<1> QED BY <1>2, <1>3

-----------------------------------------------------------------------------
(* Consuming and stepping keep it. *)

\* The search starts with a table that holds.
LEMMA TableStarts ==
    ASSUME GroundTerms, NEW Arity, NEW m, Init, Sequence(db), IsQuery(Arity, goal)
    PROVE  TableInv(Arity, m, db, st)
<1> DEFINE key == SearchGoal(goal)
<1> DEFINE s == [answers |-> << >>, generators |-> << >>, consumers |-> << >>,
                 resume_stack |-> << >>, result |-> << >>, resumed |-> {}, dropped |-> FALSE]
<1>1. st = NewSubgoal(s, key, Root)
  BY DEF Init
<1>2. IsAtom(Arity, key, Len(key.args))
  <2> DEFINE args == [i \in DOMAIN goal.args |-> IF i \in OutParam[goal.cls] THEN Var(i)
                                                 ELSE goal.args[i]]
  <2>1. goal.args \in Seq(Ground) /\ Len(goal.args) = Arity[goal.cls]
    BY DEF IsQuery
  <2>2. /\ DOMAIN goal.args = 1 .. Len(goal.args) /\ Len(goal.args) \in Nat
        /\ \A i \in 1 .. Len(goal.args) : goal.args[i] \in Ground /\ i \in Nat
    BY <2>1
  <2>3. \A i \in DOMAIN goal.args : args[i] \in Terms
    BY <2>2 DEF Terms, Vars
  <2>4. args \in [1 .. Len(goal.args) -> Terms]
    BY <2>2, <2>3
  <2>5. key = GoalKey(goal.cls, args)
    BY DEF SearchGoal
  <2> HIDE DEF args
  <2>6. args \in Seq(Terms) /\ Len(args) = Len(goal.args)
    BY <2>2, <2>4
  <2> HIDE DEF key
  <2> QED BY <2>1, <2>5, <2>6, GoalKeyAtom
<1>3. /\ Fields(s) /\ s.generators = << >> /\ s.consumers = << >> /\ DOMAIN s.answers = {}
      /\ Len(<< >>) = 0 /\ 1 .. 0 = {} /\ Sequence(<< >>)
  BY DEF Fields, Sequence
<1> HIDE DEF s, key
<1>4. AnswersHold(Arity, m, s) /\ GeneratorsHold(db, s) /\ Sequence(s.generators)
  BY <1>3 DEF AnswersHold, GeneratorsHold
<1>5. AnswersHold(Arity, m, st) /\ GeneratorsHold(db, st) /\ st.consumers = << >>
  BY <1>1, <1>2, <1>3, <1>4, NewSubgoalSound
<1>6. ConsumersHold(Arity, m, st)
  BY <1>3, <1>5 DEF ConsumersHold
<1> QED BY <1>5, <1>6 DEF TableInv

\* Whatever becomes of a unification, what the table says stays true.
LEMMA OutcomeSound ==
    ASSUME GroundTerms, NEW Arity, NEW m, NEW s, SearchInv(s), TableInv(Arity, m, db, s),
           Sequence(db), NEW r, r.res = "ok" => NodeInv(Arity, m, r.node),
           r.node.key \in DOMAIN s.answers, Outcome(r, s)
    PROVE  TableInv(Arity, m, db, st')
  BY ConsumeSound DEF Outcome

\* Every step keeps what the table says true.
LEMMA TableStep ==
    ASSUME GroundTerms, NEW Arity, NEW m, IsProgram(Arity, db),
           \A c \in Elements(db) : Closed(GroundClauses(c), m),
           SearchInv(st), TableInv(Arity, m, db, st), [Next]_vars
    PROVE  TableInv(Arity, m, db, st')
<1>1. Sequence(db)
  BY DEF IsProgram
<1>2. CASE Resume
  <2> DEFINE top == Last(st.resume_stack)
  <2> DEFINE s == [st EXCEPT !.resume_stack = Front(@), !.resumed = @ \cup {top}]
  <2> DEFINE r == TryAnswer(st.consumers[top.idx], top.answer)
  <2>1. st.resume_stack # << >> /\ Outcome(r, s)
    BY <1>2 DEF Resume
  <2>2. PICK i \in 1 .. Len(st.consumers) :
            /\ WaitsAt(st.consumers[i]) \in DOMAIN st.answers
            /\ \E a \in Elements(st.answers[WaitsAt(st.consumers[i])].answers) :
                   top = [idx |-> i, answer |-> a]
    BY <2>1, TakenKeeps
  <2> DEFINE c == st.consumers[i]
  <2>3. PICK a \in Elements(st.answers[WaitsAt(c)].answers) : top = [idx |-> i, answer |-> a]
    BY <2>2
  <2>4. /\ SearchInv(s) /\ s.answers = st.answers /\ s.generators = st.generators
        /\ s.consumers = st.consumers
    BY <2>1, TakenKeeps
  <2>5. r = TryAnswer(c, a)
    BY <2>3
  <2>6. NodeInv(Arity, m, c) /\ c.next \in Open(c) /\ c.key \in DOMAIN st.answers
    BY DEF TableInv, ConsumersHold, SearchInv, ConsumersInv
  <2>7. IsAnswer(Arity, m, c.subgoals[c.next].cls, a)
    <3>1. WaitsAt(c).cls = c.subgoals[c.next].cls
      BY DEF WaitsAt, GoalKey
    <3>2. WaitsAt(c) \in DOMAIN st.answers
      BY <2>2
    <3> HIDE DEF c
    <3>3. IsAnswer(Arity, m, WaitsAt(c).cls, a)
      BY <2>3, <3>2 DEF TableInv, AnswersHold
    <3> QED BY <3>1, <3>3
  <2>8. TableInv(Arity, m, db, s)
    <3> HIDE DEF s
    <3> QED BY <2>4 DEF TableInv, AnswersHold, GeneratorsHold, ConsumersHold
  <2> HIDE DEF s, r, c
  <2>9. r.res = "ok" => NodeInv(Arity, m, r.node)
    BY <2>5, <2>6, <2>7, AnsweredSound
  <2>10. r.node.key \in DOMAIN s.answers
    BY <2>4, <2>5, <2>6, AnsweredNode DEF NodeInv
  <2> QED BY <1>1, <2>1, <2>4, <2>8, <2>9, <2>10, OutcomeSound
<1>3. CASE Generate
  <2> DEFINE top == Last(st.generators)
  <2> DEFINE n == Len(st.generators)
  <2> DEFINE s == [st EXCEPT !.generators[n].remaining = Tail(@)]
  <2> DEFINE r == TryResolve(top.key, Head(top.remaining))
  <2>1. /\ st.generators # << >>
        /\ \/ st' = [st EXCEPT !.generators = Front(@)]
           \/ Outcome(r, s) /\ top.remaining # << >>
    BY <1>3 DEF Generate
  <2>2. CASE st' = [st EXCEPT !.generators = Front(@)]
    <3>1. /\ st'.answers = st.answers /\ st'.consumers = st.consumers
          /\ \A i \in 1 .. Len(st'.generators) :
                 \E j \in 1 .. Len(st.generators) : st'.generators[i] = st.generators[j]
      <4>1. RetiredFrom(st, st')
        BY <2>1, <2>2, RetiredKeeps
      <4> QED BY <4>1 DEF RetiredFrom
    <3>2. GeneratorsHold(db, st')
      BY <3>1 DEF TableInv, GeneratorsHold
    <3> QED BY <3>1, <3>2 DEF TableInv, AnswersHold, ConsumersHold
  <2>3. CASE Outcome(r, s) /\ top.remaining # << >>
    <3>1. /\ SearchInv(s) /\ s.answers = st.answers /\ s.consumers = st.consumers
          /\ n \in 1 .. n /\ top = st.generators[n] /\ top.key \in DOMAIN st.answers
          /\ Len(s.generators) = n
          /\ \A i \in 1 .. n :
                 /\ s.generators[i].key = st.generators[i].key
                 /\ s.generators[i].remaining = IF i = n THEN Tail(st.generators[n].remaining)
                                                ELSE st.generators[i].remaining
      <4>1. TriedFrom(st, n, s)
        BY <2>1, TriedKeeps
      <4> HIDE DEF s, n
      <4> QED BY <4>1 DEF TriedFrom
    <3> DEFINE c == Head(top.remaining)
    <3>2. /\ c \in Elements(db) /\ c.head.cls = top.key.cls
          /\ Sequence(Tail(top.remaining))
          /\ \A x \in Elements(Tail(top.remaining)) :
                 x \in Elements(db) /\ x.head.cls = top.key.cls
      <4> DEFINE w == top.remaining
      <4>1. /\ Sequence(w) /\ w # << >>
            /\ \A x \in Elements(w) : x \in Elements(db) /\ x.head.cls = top.key.cls
        BY <2>3, <3>1 DEF TableInv, GeneratorsHold
      <4> HIDE DEF w
      <4>2. PICK S : w \in Seq(S)
        BY <4>1 DEF Sequence
      <4>3. /\ Tail(w) \in Seq(S) /\ Len(w) \in Nat /\ 1 \in 1 .. Len(w) /\ Head(w) = w[1]
            /\ Len(Tail(w)) = Len(w) - 1
            /\ \A i \in 1 .. Len(Tail(w)) : Tail(w)[i] = w[i + 1] /\ i + 1 \in 1 .. Len(w)
        BY <4>1, <4>2
      <4>4. /\ Head(w) \in Elements(w) /\ Elements(Tail(w)) \subseteq Elements(w)
            /\ Sequence(Tail(w))
        BY <4>3 DEF Elements, Sequence
      <4> QED BY <4>1, <4>4 DEF w
    <3>3. r = TryResolve(top.key, c)
      OBVIOUS
    <3> HIDE DEF s, r, c, top
    <3>4. TableInv(Arity, m, db, s)
      <4>1. GeneratorsHold(db, s)
        BY <3>1, <3>2 DEF TableInv, GeneratorsHold
      <4> QED BY <3>1, <4>1 DEF TableInv, AnswersHold, ConsumersHold
    <3>5. r.res = "ok" => NodeInv(Arity, m, r.node)
      <4>1. IsClause(Arity, c) /\ Closed(GroundClauses(c), m)
        BY <3>2 DEF IsProgram
      <4>2. IsAtom(Arity, top.key, Len(top.key.args))
        BY <3>1 DEF TableInv, AnswersHold
      <4> QED BY <3>2, <3>3, <4>1, <4>2, ResolvedSound
    <3>6. r.node.key \in DOMAIN s.answers
      BY <3>1, <3>3, ResolvedNode
    <3> QED BY <1>1, <2>3, <3>1, <3>4, <3>5, <3>6, OutcomeSound
  <2> QED BY <2>1, <2>2, <2>3
<1>4. CASE UNCHANGED st
  BY <1>4
<1> QED BY <1>2, <1>3, <1>4 DEF Next, Return, vars

\* For any finite set of ground heads and any clauses no head of which mentions an instance
\* argument: whatever add_answer records, every ground instance of it is in the least model
\* of the instances, so no resumed consumer and no unification proved what they do not.
THEOREM EveryAnswerHolds ==
    ASSUME GroundTerms, NEW Arity,
           \A d \in Databases : IsProgram(Arity, d) /\ IsFiniteSet(Heads(Rules(d))),
           \A g \in Goals : IsQuery(Arity, g)
    PROVE  Spec => []AnswersAreSound
<1> DEFINE Holding == /\ db \in Databases /\ meaning = LeastModel(Rules(db))
                      /\ SearchInv(st) /\ TableInv(Arity, meaning, db, st)
<1>1. \A d \in Databases : IsProgram(Arity, d) /\ IsFiniteSet(Heads(Rules(d)))
  OBVIOUS
<1>2. Init => Holding
  <2> SUFFICES ASSUME Init PROVE Holding
    OBVIOUS
  <2>1. /\ db \in Databases /\ meaning = LeastModel(Rules(db)) /\ IsQuery(Arity, goal)
    BY DEF Init
  <2>2. SearchInv(st)
    BY SearchStarts
  <2>3. TableInv(Arity, meaning, db, st)
    BY <1>1, <2>1, TableStarts DEF IsProgram
  <2> QED BY <2>1, <2>2, <2>3
<1>3. Holding /\ [Next]_vars => Holding'
  <2> SUFFICES ASSUME Holding, [Next]_vars PROVE Holding'
    OBVIOUS
  <2>1. db' = db /\ meaning' = meaning
    BY DEF Next, Resume, Generate, Return, vars
  <2>2. SearchInv(st)'
    BY SearchStep
  <2>3. \A c \in Elements(db) : Closed(GroundClauses(c), meaning)
    <3>1. Closed(Rules(db), meaning)
      BY <1>1, LeastModelClosed
    <3>2. ToSet(db) = Elements(db)
      BY <1>1, SequenceElements DEF IsProgram
    <3>3. \A c \in Elements(db) : GroundClauses(c) \subseteq Rules(db)
      BY <3>2 DEF Rules
    <3> QED BY <3>1, <3>3 DEF Closed
  <2>4. TableInv(Arity, meaning, db, st')
    BY <1>1, <2>3, TableStep
  <2> QED BY <2>1, <2>2, <2>4
<1>4. Holding => AnswersAreSound
  <2> SUFFICES ASSUME Holding, NEW k \in DOMAIN st.answers, NEW a \in ToSet(st.answers[k].answers)
               PROVE  GroundInstances(k.cls, a.args) \subseteq meaning
    BY DEF AnswersAreSound
  <2>1. a \in Elements(st.answers[k].answers)
    BY SequenceElements DEF SearchInv, WaitersInv, IsEntry
  <2>2. IsAnswer(Arity, meaning, k.cls, a)
    BY <2>1 DEF TableInv, AnswersHold
  <2>3. a.args \in Seq(Terms) /\ Valid(meaning, k.cls, a.args)
    <3>1. Ground \cup VarsTo(Len(a.args)) \subseteq Terms
      BY DEF VarsTo, Vars, Terms
    <3> QED BY <2>2, <3>1 DEF IsAnswer
  <2> QED BY <2>3, ValidInstances
<1> HIDE DEF Holding
<1> QED BY <1>2, <1>3, <1>4, PTL DEF Spec

=============================================================================
