----------------------------- MODULE Build_proofs -----------------------------
(***************************************************************************)
(* Two parts.                                                              *)
(*                                                                         *)
(* Part 1: the job pool, for any graph, any number of threads and any      *)
(* behaviour of the jobs: type correctness, the refinement of              *)
(* TopologicalRun, and that no sleeper is forgotten unless a job panics.   *)
(*                                                                         *)
(* Part 2: that builds give what clean builds give, for every workspace.   *)
(* Fingerprints, closures and clean outputs are recursive definitions: on  *)
(* the graph of a workspace that resolves they are shown to exist, wave    *)
(* after wave, and to satisfy their equations.  Equal fingerprints then    *)
(* mean equal clean outputs, along the imports, and the rest is an         *)
(* invariant of the layout and the store over the invariant of the pool.   *)
(***************************************************************************)
EXTENDS Build, BasicLemmas, FiniteSetTheorems, TLAPS

-----------------------------------------------------------------------------
(* Part 1.  The inductive invariant of the pool. *)

Holding == {"job", "panicked"}
Gone == {"absent", "left", "panicked"}

Holders == {w \in Workers : pc[w] \in Holding}

\* in_flight counts the workers that hold an item; a panicked one keeps its
\* place for ever.
InFlightInv == inFlight = Cardinality(Holders)

\* done and remaining count what they are meant to count.
CountInv ==
    /\ done = Cardinality(succeeded)
    /\ \A i \in Items : remaining[i] = Cardinality(graph.deps[i] \ succeeded)

\* An item is ready, or held by one worker, or finished, never two of these.
PlaceInv ==
    /\ Injective(ready)
    /\ Elements(ready) \cap started = {}
    /\ \A i \in Elements(ready) \cup started : remaining[i] = 0
    /\ \A w \in Holders : item[w] \in started \ succeeded
    /\ \A w, v \in Holders : w # v => item[w] # item[v]

\* No item falls between two places.
NothingLost ==
    /\ \A i \in Items : remaining[i] = 0 => i \in Elements(ready) \cup started
    /\ failure = NoFailure =>
           \A i \in started \ succeeded : \E w \in Holders : item[w] = i

\* A worker leaves only when there is nothing left to wait for.
EndInv ==
    /\ cancelled <=> failure # NoFailure
    /\ \A w \in Workers : pc[w] = "notifyFailed" => cancelled
    /\ \E w \in Workers : pc[w] # "absent"
    /\ (\E w \in Workers : pc[w] = "left") /\ ~cancelled =>
           done = graph.size \/ (ready = << >> /\ inFlight = 0)
    /\ answer # Running => \A w \in Workers : pc[w] \in Gone

IndInv == TypeOK /\ InFlightInv /\ CountInv /\ PlaceInv /\ NothingLost /\ EndInv

-----------------------------------------------------------------------------
(* Facts about graphs, counters and ready lists. *)

\* What the assumption on the graphs says of the graph of a run.
LEMMA GraphShape ==
    ASSUME graph \in Graphs
    PROVE  /\ graph.size \in Nat /\ Items = 0 .. graph.size - 1 /\ Items \subseteq Nat
           /\ IsFiniteSet(Items) /\ Cardinality(Items) = graph.size
           /\ graph.deps \in [Items -> SUBSET Items]
           /\ NoItem \notin Items /\ NoFailure \notin Items
<1>1. /\ graph.size \in Nat /\ Items = 0 .. graph.size - 1
      /\ graph.deps \in [Items -> SUBSET Items]
      /\ NoItem \notin Items /\ NoFailure \notin Items
  BY PoolGraphsAssumption, PoolMarksAssumption DEF Items, ItemsOf
<1>2. IsFiniteSet(0 .. graph.size - 1) /\ Cardinality(0 .. graph.size - 1) = graph.size
  BY <1>1, FS_Interval
<1> QED BY <1>1, <1>2

\* The list of a set of items holds exactly these items, each once.
LEMMA AscendingElements ==
    ASSUME NEW S, S \subseteq Nat, IsFiniteSet(S), NEW q \in Ascending(S)
    PROVE  q \in Seq(S) /\ Elements(q) = S /\ Injective(q)
<1>1. Cardinality(S) \in Nat
  BY FS_CardinalityType
<1>2. /\ q \in [1 .. Cardinality(S) -> S]
      /\ \A k \in S : \E i \in DOMAIN q : q[i] = k
      /\ \A i, j \in DOMAIN q : i < j => q[i] < q[j]
  BY DEF Ascending
<1>3. q \in Seq(S) /\ Len(q) = Cardinality(S) /\ DOMAIN q = 1 .. Len(q)
  BY <1>1, <1>2
<1>4. Elements(q) = S
  BY <1>2, <1>3 DEF Elements
<1>5. Injective(q)
  <2> SUFFICES ASSUME NEW i \in 1 .. Len(q), NEW j \in 1 .. Len(q), i # j
               PROVE  q[i] # q[j]
    BY DEF Injective
  <2>1. q[i] \in S /\ q[j] \in S
    BY <1>1, <1>3
  <2>2. /\ q[i] \in Nat /\ q[j] \in Nat
        /\ i \in Nat /\ j \in Nat
    <3>1. \A k \in S : k \in Nat
      OBVIOUS
    <3>2. i \in 1 .. Cardinality(S) /\ j \in 1 .. Cardinality(S)
      BY <1>3
    <3>3. q[i] \in Nat /\ q[j] \in Nat
      BY <2>1, <3>1, Zenon
    <3>4. i \in Nat /\ j \in Nat
      BY <1>1, <3>2
    <3> QED BY <3>3, <3>4
  <2>3. (i < j => q[i] < q[j]) /\ (j < i => q[j] < q[i])
    BY <1>2, <1>3
  <2>4. CASE i < j
    BY <2>2, <2>3, <2>4
  <2>5. CASE j < i
    BY <2>2, <2>3, <2>5
  <2> QED BY <2>2, <2>4, <2>5
<1> QED BY <1>3, <1>4, <1>5

\* Counting the unfinished dependencies of an item.
LEMMA UnfinishedCount ==
    ASSUME graph \in Graphs, NEW i \in Items, NEW S
    PROVE  /\ Cardinality(graph.deps[i] \ S) \in Nat
           /\ Cardinality(graph.deps[i] \ S) = 0 <=> graph.deps[i] \subseteq S
           /\ \A d \in graph.deps[i] \ S :
                  Cardinality(graph.deps[i] \ (S \cup {d})) = Cardinality(graph.deps[i] \ S) - 1
<1>1. IsFiniteSet(graph.deps[i])
  BY GraphShape, FS_Subset
<1>2. IsFiniteSet(graph.deps[i] \ S)
  BY <1>1, FS_Subset
<1>3. \A d \in graph.deps[i] \ S : graph.deps[i] \ (S \cup {d}) = (graph.deps[i] \ S) \ {d}
  OBVIOUS
<1>4. Cardinality(graph.deps[i] \ S) \in Nat
  BY <1>2, FS_CardinalityType
<1>5. Cardinality(graph.deps[i] \ S) = 0 <=> graph.deps[i] \ S = {}
  BY <1>2, FS_EmptySet
<1>6. \A d \in graph.deps[i] \ S :
          Cardinality((graph.deps[i] \ S) \ {d}) = Cardinality(graph.deps[i] \ S) - 1
  BY <1>2, FS_RemoveElement
<1> QED BY <1>3, <1>4, <1>5, <1>6

\* One worker more or less among the holders.
LEMMA HoldersCount ==
    /\ IsFiniteSet(Holders) /\ Cardinality(Holders) \in Nat
    /\ Cardinality(Holders) = 0 => Holders = {}
    /\ \A w \in Holders : /\ Cardinality(Holders \ {w}) = Cardinality(Holders) - 1
                          /\ Cardinality(Holders) - 1 \in Nat
    /\ \A w \in Workers \ Holders : Cardinality(Holders \cup {w}) = Cardinality(Holders) + 1
<1>1. IsFiniteSet(Holders)
  BY PoolAssumption, FS_Subset DEF Holders
<1>2. Cardinality(Holders) \in Nat
  BY <1>1, FS_CardinalityType
<1>3. Cardinality(Holders) = 0 => Holders = {}
  BY <1>1, FS_EmptySet
<1>4. ASSUME NEW w \in Holders
      PROVE  /\ Cardinality(Holders \ {w}) = Cardinality(Holders) - 1
             /\ Cardinality(Holders) - 1 \in Nat
  <2>1. IsFiniteSet(Holders \ {w}) /\ Cardinality(Holders \ {w}) = Cardinality(Holders) - 1
    BY <1>1, FS_RemoveElement
  <2>2. Cardinality(Holders \ {w}) \in Nat
    BY <2>1, FS_CardinalityType
  <2> QED BY <2>1, <2>2
<1>5. ASSUME NEW w \in Workers \ Holders
      PROVE  Cardinality(Holders \cup {w}) = Cardinality(Holders) + 1
  BY <1>1, FS_AddElement
<1> QED BY <1>1, <1>2, <1>3, <1>4, <1>5

-----------------------------------------------------------------------------
(* The initial states. *)

\* The invariant holds initially.
LEMMA InitIndInv == Init => IndInv
<1> SUFFICES ASSUME Init PROVE IndInv
  OBVIOUS
<1>1. graph \in Graphs
  BY DEF Init
<1>2. /\ graph.size \in Nat /\ Items \subseteq Nat /\ IsFiniteSet(Items)
      /\ graph.deps \in [Items -> SUBSET Items]
  BY <1>1, GraphShape
<1> DEFINE Roots == {i \in Items : remaining[i] = 0}
<1>3. ready \in Seq(Items) /\ Elements(ready) = Roots /\ Injective(ready)
  <2>1. Roots \subseteq Nat /\ IsFiniteSet(Roots) /\ Roots \subseteq Items
    BY <1>2, FS_Subset
  <2>2. ready \in Ascending(Roots)
    BY DEF Init
  <2>3. ready \in Seq(Roots) /\ Elements(ready) = Roots /\ Injective(ready)
    BY <2>1, <2>2, AscendingElements
  <2> QED BY <2>1, <2>3
<1>4. \A i \in Items : graph.deps[i] \ {} = graph.deps[i]
  OBVIOUS
<1>5. /\ remaining \in [Items -> Nat]
      /\ \A i \in Items : remaining[i] = Cardinality(graph.deps[i] \ {})
  <2>1. \A i \in Items : remaining[i] = Cardinality(graph.deps[i])
    BY DEF Init
  <2>2. \A i \in Items : Cardinality(graph.deps[i] \ {}) \in Nat
    BY <1>1, UnfinishedCount
  <2> QED BY <1>4, <2>1, <2>2 DEF Init
<1>6. Cardinality(Workers) \in Nat \ {0}
  BY PoolAssumption, FS_CardinalityType, FS_EmptySet
<1>7. PICK S \in SUBSET Workers :
        /\ Cardinality(S) = SpawnCount(graph.size)
        /\ pc = [w \in Workers |-> IF w \in S THEN "loop" ELSE "absent"]
  BY DEF Init
<1>8. \E w \in Workers : w \in S
  <2>1. Cardinality(S) # 0
    BY <1>2, <1>6, <1>7 DEF SpawnCount, Smaller
  <2> QED BY <2>1, FS_EmptySet
<1>9. TypeOK
  <2>1. pc \in [Workers -> Locations]
    BY <1>7 DEF Locations
  <2> QED BY <1>1, <1>3, <1>5, <2>1 DEF Init, TypeOK
<1>10. Holders = {}
  BY <1>7 DEF Holders, Holding
<1>11. InFlightInv
  BY <1>10, FS_EmptySet DEF InFlightInv, Init
<1>12. CountInv
  BY <1>5, FS_EmptySet DEF CountInv, Init
<1>13. PlaceInv
  BY <1>3, <1>10 DEF PlaceInv, Init
<1>14. NothingLost
  BY <1>3 DEF NothingLost, Init
<1>15. EndInv
  BY <1>7, <1>8 DEF EndInv, Init
<1> QED BY <1>9, <1>11, <1>12, <1>13, <1>14, <1>15 DEF IndInv

-----------------------------------------------------------------------------
(* The steps. *)

\* Steps that change nothing under the mutex but the place of a worker.
LEMMA QuietStep ==
    ASSUME IndInv,
           UNCHANGED <<graph, stateVars, started, succeeded, answer>>,
           pc' \in [Workers -> Locations],
           item' \in [Workers -> Items \cup {NoItem}],
           Holders' = Holders,
           \A w \in Holders : item'[w] = item[w],
           \E w \in Workers : pc'[w] # "absent",
           \A w \in Workers : pc'[w] = "notifyFailed" => pc[w] = "notifyFailed",
           (\E w \in Workers : pc'[w] = "left") =>
               \/ \E w \in Workers : pc[w] = "left"
               \/ AllOver
               \/ ready = << >> /\ inFlight = 0,
           answer = Running
    PROVE  IndInv'
<1> USE DEF IndInv, stateVars
<1>1. Items' = Items
  BY DEF Items
<1>2. TypeOK'
  BY <1>1 DEF TypeOK
<1>3. InFlightInv'
  BY DEF InFlightInv
<1>4. CountInv'
  BY <1>1 DEF CountInv
<1>5. PlaceInv'
  BY <1>1 DEF PlaceInv
<1>6. NothingLost'
  BY <1>1 DEF NothingLost
<1>7. EndInv'
  BY DEF EndInv, AllOver
<1> QED BY <1>2, <1>3, <1>4, <1>5, <1>6, <1>7

\* The head of the ready list was ready, and no worker had it.
LEMMA TakeStep ==
    ASSUME IndInv, NEW w \in Workers, Take(w)
    PROVE  /\ IndInv'
           /\ Head(ready) \in Items \ started
           /\ graph.deps[Head(ready)] \subseteq succeeded
<1> USE DEF IndInv
<1> DEFINE h == Head(ready)
<1>1. /\ ready \in Seq(Items) /\ ready # << >> /\ Injective(ready)
      /\ pc \in [Workers -> Locations] /\ item \in [Workers -> Items \cup {NoItem}]
      /\ inFlight \in Nat /\ started \subseteq Items /\ succeeded \subseteq started
      /\ pc[w] = "loop" /\ graph \in Graphs /\ ~AllOver
  BY DEF Take, TypeOK, PlaceInv
<1>2. /\ ready' \in Seq(Items) /\ h \in Items /\ Injective(ready')
      /\ h \in Elements(ready) /\ Elements(ready') = Elements(ready) \ {h}
  BY <1>1, TailElements DEF Take
<1>3. /\ item' = [item EXCEPT ![w] = h] /\ pc' = [pc EXCEPT ![w] = "job"]
      /\ inFlight' = inFlight + 1 /\ started' = started \cup {h}
      /\ UNCHANGED <<graph, remaining, done, cancelled, failure, succeeded, answer>>
      /\ Items' = Items
  BY DEF Take, Goto, Items
<1>4. h \notin started /\ remaining[h] = 0
  BY <1>2 DEF PlaceInv
<1>5. graph.deps[h] \subseteq succeeded
  BY <1>1, <1>2, <1>4, UnfinishedCount DEF CountInv
<1>6. w \notin Holders /\ Holders' = Holders \cup {w}
  BY <1>1, <1>3 DEF Holders, Holding
<1>7. TypeOK'
  <2>1. pc' \in [Workers -> Locations]
    BY <1>1, <1>3 DEF Locations
  <2>2. item' \in [Workers -> Items \cup {NoItem}]
    BY <1>1, <1>2, <1>3
  <2> QED BY <1>1, <1>2, <1>3, <2>1, <2>2 DEF TypeOK
<1>8. InFlightInv'
  BY <1>3, <1>6, HoldersCount DEF InFlightInv
<1>9. CountInv'
  BY <1>3 DEF CountInv
<1>10. item'[w] = h /\ \A v \in Holders : v # w /\ item'[v] = item[v]
  BY <1>1, <1>3, <1>6 DEF Holders
<1>11. PlaceInv'
  <2>1. \A v \in Holders' : item'[v] \in started' \ succeeded'
    BY <1>1, <1>3, <1>4, <1>6, <1>10 DEF PlaceInv
  <2>2. \A v, x \in Holders' : v # x => item'[v] # item'[x]
    BY <1>4, <1>6, <1>10 DEF PlaceInv
  <2>3. \A i \in Elements(ready') \cup started' : remaining'[i] = 0
    BY <1>2, <1>3, <1>4 DEF PlaceInv
  <2>4. Elements(ready') \cap started' = {}
    BY <1>2, <1>3 DEF PlaceInv
  <2> QED BY <1>2, <2>1, <2>2, <2>3, <2>4 DEF PlaceInv
<1>12. NothingLost'
  BY <1>2, <1>3, <1>6, <1>10 DEF NothingLost
<1>13. EndInv'
  <2>1. \A v \in Workers : /\ pc'[v] = "left" => pc[v] = "left"
                           /\ pc'[v] = "notifyFailed" => pc[v] = "notifyFailed"
    BY <1>1, <1>3
  <2>2. \E v \in Workers : pc'[v] # "absent"
    BY <1>1, <1>3
  <2>3. answer = Running
    BY <1>1 DEF EndInv, Gone
  <2> QED BY <1>1, <1>3, <2>1, <2>2, <2>3 DEF EndInv, AllOver
<1> QED BY <1>2, <1>4, <1>5, <1>7, <1>8, <1>9, <1>11, <1>12, <1>13

\* The job that panics keeps its item and its place in in_flight.
LEMMA PanicStep ==
    ASSUME IndInv, NEW w \in Workers, Panic(w)
    PROVE  IndInv'
<1>1. /\ pc \in [Workers -> Locations] /\ pc[w] = "job" /\ item' = item
      /\ pc' = [pc EXCEPT ![w] = "panicked"]
      /\ UNCHANGED <<graph, stateVars, started, succeeded, answer>>
  BY DEF Panic, Goto, IndInv, TypeOK
<1>2. pc' \in [Workers -> Locations]
  BY <1>1 DEF Locations
<1>3. Holders' = Holders
  BY <1>1 DEF Holders, Holding
<1>4. answer = Running
  BY <1>1 DEF IndInv, EndInv, Gone
<1>5. \A v \in Workers : /\ pc'[v] = "left" => pc[v] = "left"
                         /\ pc'[v] = "notifyFailed" => pc[v] = "notifyFailed"
  BY <1>1
<1>6. pc'[w] # "absent"
  BY <1>1
<1>7. item' \in [Workers -> Items \cup {NoItem}]
  BY <1>1 DEF IndInv, TypeOK
<1> QED BY <1>1, <1>2, <1>3, <1>4, <1>5, <1>6, <1>7, QuietStep

\* The job fails: the first failure is kept and nobody starts anything more.
LEMMA FinishErrorStep ==
    ASSUME IndInv, NEW w \in Workers, FinishError(w)
    PROVE  IndInv'
<1> USE DEF IndInv
<1>1. /\ pc \in [Workers -> Locations] /\ pc[w] = "job" /\ w \in Holders
      /\ pc' = [pc EXCEPT ![w] = "notifyFailed"] /\ inFlight' = inFlight - 1
      /\ cancelled' = TRUE /\ failure' = IF failure = NoFailure THEN item[w] ELSE failure
      /\ UNCHANGED <<graph, ready, remaining, done, item, started, succeeded, answer>>
      /\ Items' = Items
  BY DEF FinishError, Goto, TypeOK, Holders, Holding, Items
<1>2. Holders' = Holders \ {w}
  BY <1>1 DEF Holders, Holding
<1>3. item[w] \in Items /\ item[w] # NoFailure
  <2>1. item[w] \in Items /\ graph \in Graphs
    BY <1>1 DEF PlaceInv, TypeOK
  <2> QED BY <2>1, GraphShape
<1>4. inFlight' \in Nat /\ InFlightInv'
  BY <1>1, <1>2, HoldersCount DEF InFlightInv
<1>5. pc' \in [Workers -> Locations]
  BY <1>1 DEF Locations
<1>6. failure' \in Items /\ failure' # NoFailure
  BY <1>1, <1>3, GraphShape DEF TypeOK
<1>7. TypeOK'
  BY <1>1, <1>4, <1>5, <1>6 DEF TypeOK
<1>8. CountInv'
  BY <1>1 DEF CountInv
<1>9. PlaceInv'
  BY <1>1, <1>2 DEF PlaceInv
<1>10. NothingLost'
  BY <1>1, <1>6 DEF NothingLost
<1>11. EndInv'
  <2>1. \A v \in Workers : pc'[v] = "left" => pc[v] = "left"
    BY <1>1
  <2>2. pc'[w] # "absent"
    BY <1>1
  <2>3. answer = Running
    BY <1>1 DEF EndInv, Gone
  <2> QED BY <1>1, <1>6, <2>1, <2>2, <2>3 DEF EndInv
<1> QED BY <1>4, <1>7, <1>8, <1>9, <1>10, <1>11

\* The job succeeds: the items it releases were waiting for it alone.
LEMMA FinishOkStep ==
    ASSUME IndInv, NEW w \in Workers, FinishOk(w)
    PROVE  IndInv' /\ item[w] \in started \ succeeded
<1> USE DEF IndInv
<1> DEFINE i == item[w]
           R == Released(i)
<1>1. /\ pc \in [Workers -> Locations] /\ pc[w] = "job" /\ w \in Holders
      /\ pc' = [pc EXCEPT ![w] = "notify"] /\ inFlight' = inFlight - 1
      /\ done' = done + 1 /\ succeeded' = succeeded \cup {i}
      /\ UNCHANGED <<graph, cancelled, failure, item, started, answer>>
      /\ Items' = Items
  BY DEF FinishOk, Goto, TypeOK, Holders, Holding, Items
<1>2. /\ graph \in Graphs /\ graph.size \in Nat /\ Items \subseteq Nat /\ IsFiniteSet(Items)
      /\ graph.deps \in [Items -> SUBSET Items]
  BY GraphShape DEF TypeOK
<1>3. /\ ready \in Seq(Items) /\ remaining \in [Items -> Nat] /\ done \in Nat
      /\ started \subseteq Items /\ succeeded \subseteq started
  BY DEF TypeOK
<1>4. i \in started \ succeeded /\ i \in Items
  BY <1>1, <1>3 DEF PlaceInv
<1>5. Holders' = Holders \ {w}
  BY <1>1 DEF Holders, Holding
<1>6. inFlight' \in Nat /\ InFlightInv'
  BY <1>1, <1>5, HoldersCount DEF InFlightInv
<1>7. \A k \in Items : i \in graph.deps[k] =>
          /\ remaining[k] \in Nat \ {0}
          /\ remaining[k] - 1 = Cardinality(graph.deps[k] \ (succeeded \cup {i}))
  <2> SUFFICES ASSUME NEW k \in Items, i \in graph.deps[k]
               PROVE  /\ remaining[k] \in Nat \ {0}
                      /\ remaining[k] - 1 = Cardinality(graph.deps[k] \ (succeeded \cup {i}))
    OBVIOUS
  <2>1. i \in graph.deps[k] \ succeeded /\ remaining[k] = Cardinality(graph.deps[k] \ succeeded)
    BY <1>4 DEF CountInv
  <2>2. remaining[k] # 0
    BY <1>2, <2>1, UnfinishedCount
  <2>3. Cardinality(graph.deps[k] \ (succeeded \cup {i})) = remaining[k] - 1
    BY <1>2, <2>1, UnfinishedCount
  <2> QED BY <1>3, <2>2, <2>3
<1>8. \A k \in Items : i \notin graph.deps[k] =>
          graph.deps[k] \ (succeeded \cup {i}) = graph.deps[k] \ succeeded
  OBVIOUS
<1>9. /\ remaining' \in [Items -> Nat]
      /\ \A k \in Items : remaining'[k] = Cardinality(graph.deps[k] \ succeeded')
      /\ \A k \in Items : remaining'[k] = IF i \in graph.deps[k] THEN remaining[k] - 1
                                                                 ELSE remaining[k]
  <2>1. remaining' = [k \in Items |-> IF i \in graph.deps[k] THEN remaining[k] - 1
                                                             ELSE remaining[k]]
    BY DEF FinishOk, Dependents
  <2>2. \A k \in Items : remaining[k] = Cardinality(graph.deps[k] \ succeeded)
    BY DEF CountInv
  <2>3. \A k \in Items : remaining'[k] = Cardinality(graph.deps[k] \ (succeeded \cup {i}))
    BY <1>7, <1>8, <2>1, <2>2
  <2>4. ASSUME NEW k \in Items PROVE remaining'[k] \in Nat
    <3>1. CASE i \in graph.deps[k]
      <4>1. remaining[k] \in Nat \ {0} /\ remaining'[k] = remaining[k] - 1
        BY <1>7, <2>1, <3>1
      <4> QED BY <4>1
    <3>2. CASE i \notin graph.deps[k]
      BY <1>3, <2>1, <3>2
    <3> QED BY <3>1, <3>2
  <2> QED BY <1>1, <2>1, <2>3, <2>4
<1>10. CountInv'
  <2>1. IsFiniteSet(succeeded) /\ Cardinality(succeeded \cup {i}) = Cardinality(succeeded) + 1
    <3>1. IsFiniteSet(succeeded)
      BY <1>2, <1>3, FS_Subset
    <3> QED BY <1>4, <3>1, FS_AddElement
  <2> QED BY <1>1, <1>9, <2>1 DEF CountInv
\* What is released was neither ready nor started.
<1>11. /\ R \subseteq Items /\ IsFiniteSet(R)
       /\ \A k \in R : remaining[k] = 1 /\ i \in graph.deps[k] /\ remaining'[k] = 0
  <2>1. R \subseteq Items
    BY DEF Released, Dependents
  <2>2. \A k \in R : remaining[k] = 1 /\ i \in graph.deps[k]
    BY DEF Released, Dependents
  <2>3. IsFiniteSet(R)
    BY <1>2, <2>1, FS_Subset
  <2>4. ASSUME NEW k \in R PROVE remaining'[k] = 0
    <3>1. remaining'[k] = remaining[k] - 1 /\ remaining[k] = 1
      BY <1>9, <2>1, <2>2
    <3> QED BY <3>1
  <2> QED BY <2>1, <2>2, <2>3, <2>4
<1>12. R \cap (Elements(ready) \cup started) = {}
  BY <1>11 DEF PlaceInv
<1>13. PICK q \in Ascending(R) : ready' = ready \o q
  BY DEF FinishOk
<1>14. q \in Seq(Items) /\ Elements(q) = R /\ Injective(q)
  <2>1. R \subseteq Nat
    BY <1>2, <1>11
  <2>2. q \in Seq(R) /\ Elements(q) = R /\ Injective(q)
    BY <1>11, <2>1, AscendingElements
  <2> QED BY <1>11, <2>2
<1>15. /\ ready' \in Seq(Items) /\ Elements(ready') = Elements(ready) \cup R
       /\ Injective(ready')
  BY <1>3, <1>12, <1>13, <1>14, ConcatElements DEF PlaceInv
<1>16. TypeOK'
  <2>1. pc' \in [Workers -> Locations]
    BY <1>1 DEF Locations
  <2>2. done' \in Nat /\ succeeded' \subseteq started'
    BY <1>1, <1>3, <1>4
  <2> QED BY <1>1, <1>6, <1>9, <1>15, <2>1, <2>2 DEF TypeOK
<1>17. PlaceInv'
  <2>1. Elements(ready') \cap started' = {}
    BY <1>1, <1>12, <1>15 DEF PlaceInv
  <2>2. \A k \in Elements(ready') \cup started' : remaining'[k] = 0
    <3>1. \A k \in Elements(ready) \cup started : k \in Items /\ remaining[k] = 0
      BY <1>3, ElementsInside DEF PlaceInv
    <3>2. \A k \in Elements(ready) \cup started : remaining'[k] = 0
      BY <1>7, <1>9, <3>1
    <3> QED BY <1>1, <1>11, <1>15, <3>2
  <2>3. \A v \in Holders' : item'[v] \in started' \ succeeded'
    BY <1>1, <1>5 DEF PlaceInv
  <2>4. \A v, x \in Holders' : v # x => item'[v] # item'[x]
    BY <1>1, <1>5 DEF PlaceInv
  <2> QED BY <1>15, <2>1, <2>2, <2>3, <2>4 DEF PlaceInv
<1>18. NothingLost'
  <2>1. ASSUME NEW k \in Items, remaining'[k] = 0 PROVE k \in Elements(ready') \cup started'
    <3>1. CASE i \in graph.deps[k]
      <4>1. remaining[k] = 1
        BY <1>3, <1>9, <2>1, <3>1
      <4>2. k \in R
        BY <3>1, <4>1 DEF Released, Dependents
      <4> QED BY <1>15, <4>2
    <3>2. CASE i \notin graph.deps[k]
      BY <1>1, <1>9, <1>15, <2>1, <3>2 DEF NothingLost
    <3> QED BY <3>1, <3>2
  <2>2. ASSUME failure' = NoFailure, NEW k \in started' \ succeeded'
        PROVE  \E v \in Holders' : item'[v] = k
    <3>1. PICK v \in Holders : item[v] = k
      BY <1>1, <2>2 DEF NothingLost
    <3> QED BY <1>1, <1>5, <2>2, <3>1
  <2> QED BY <1>1, <2>1, <2>2 DEF NothingLost
<1>19. EndInv'
  <2>1. \A v \in Workers : /\ pc'[v] = "left" => pc[v] = "left"
                           /\ pc'[v] = "notifyFailed" => pc[v] = "notifyFailed"
    BY <1>1
  <2>2. pc'[w] # "absent"
    BY <1>1
  <2>3. answer = Running
    BY <1>1 DEF EndInv, Gone
  \* If a worker had left without a failure, this job would not be running.
  <2>4. (\E v \in Workers : pc[v] = "left") => cancelled
    <3>1. SUFFICES ASSUME \E v \in Workers : pc[v] = "left", ~cancelled PROVE FALSE
      OBVIOUS
    <3>2. done = graph.size \/ inFlight = 0
      BY <3>1 DEF EndInv
    <3>3. inFlight # 0
      BY <1>1, HoldersCount DEF InFlightInv
    <3>4. done # graph.size
      <4>1. succeeded \subseteq Items /\ succeeded # Items
        BY <1>3, <1>4
      <4>2. Cardinality(succeeded) # Cardinality(Items)
        BY <1>2, <4>1, FS_Subset
      <4> QED BY <1>2, <4>2, GraphShape DEF CountInv
    <3> QED BY <3>2, <3>3, <3>4
  <2> QED BY <1>1, <2>1, <2>2, <2>3, <2>4 DEF EndInv
<1> QED BY <1>4, <1>6, <1>10, <1>16, <1>17, <1>18, <1>19

-----------------------------------------------------------------------------
(* Every step. *)

\* A step that moves one worker, whose item nobody else needs, or wakes
\* sleepers, keeps the invariant.
LEMMA WakingStep ==
    ASSUME IndInv, NEW w \in Workers,
           pc[w] \in Locations \ (Holding \cup Gone), NEW l \in {"left", "waiting", "loop", "callback"},
           l = "left" => AllOver \/ (ready = << >> /\ inFlight = 0),
           UNCHANGED <<graph, stateVars, started, succeeded, answer>>,
           item' \in {item, [item EXCEPT ![w] = NoItem]},
           Goto(w, l) \/ NotifyAllAndGoto(w, l)
    PROVE  IndInv'
<1>1. pc \in [Workers -> Locations] /\ item \in [Workers -> Items \cup {NoItem}]
  BY DEF IndInv, TypeOK
<1>2. /\ pc' \in [Workers -> Locations] /\ pc'[w] = l
      /\ \A v \in Workers \ {w} : pc'[v] = pc[v] \/ (pc[v] = "waiting" /\ pc'[v] = "loop")
  <2>1. CASE Goto(w, l)
    BY <1>1, <2>1 DEF Goto, Locations
  <2>2. CASE NotifyAllAndGoto(w, l)
    BY <1>1, <2>2 DEF NotifyAllAndGoto, Locations
  <2> QED BY <2>1, <2>2
<1>3. w \notin Holders /\ Holders' = Holders
  BY <1>2 DEF Holders, Holding
<1>4. item' \in [Workers -> Items \cup {NoItem}] /\ \A v \in Holders : item'[v] = item[v]
  BY <1>1, <1>3 DEF Holders
<1>5. answer = Running
  BY DEF IndInv, EndInv
<1>6. \A v \in Workers : /\ pc'[v] = "left" => pc[v] = "left" \/ (v = w /\ l = "left")
                         /\ pc'[v] = "notifyFailed" => pc[v] = "notifyFailed"
  BY <1>2
<1>7. pc'[w] # "absent"
  BY <1>2
<1> QED BY <1>2, <1>3, <1>4, <1>5, <1>6, <1>7, QuietStep

\* Every step, stuttering included, keeps the invariant.
LEMMA IndInvStep == IndInv /\ [Next]_poolVars => IndInv'
<1> SUFFICES ASSUME IndInv, [Next]_poolVars PROVE IndInv'
  OBVIOUS
<1>1. ASSUME NEW w \in Workers, Leave(w) PROVE IndInv'
  BY <1>1, WakingStep DEF Leave, Locations, Holding, Gone
<1>2. ASSUME NEW w \in Workers, Take(w) PROVE IndInv'
  BY <1>2, TakeStep
<1>3. ASSUME NEW w \in Workers, Exhausted(w) PROVE IndInv'
  BY <1>3, WakingStep DEF Exhausted, Locations, Holding, Gone
<1>4. ASSUME NEW w \in Workers, Sleep(w) PROVE IndInv'
  BY <1>4, WakingStep DEF Sleep, Locations, Holding, Gone
<1>5. ASSUME NEW w \in Workers, SpuriousWake(w) PROVE IndInv'
  BY <1>5, WakingStep DEF SpuriousWake, Locations, Holding, Gone
<1>6. ASSUME NEW w \in Workers, FinishOk(w) PROVE IndInv'
  BY <1>6, FinishOkStep
<1>7. ASSUME NEW w \in Workers, FinishError(w) PROVE IndInv'
  BY <1>7, FinishErrorStep
<1>8. ASSUME NEW w \in Workers, Notify(w) PROVE IndInv'
  BY <1>8, WakingStep DEF Notify, Locations, Holding, Gone
<1>9. ASSUME NEW w \in Workers, OnDone(w) PROVE IndInv'
  BY <1>9, WakingStep DEF OnDone, Locations, Holding, Gone
<1>10. ASSUME NEW w \in Workers, NotifyFailed(w) PROVE IndInv'
  <2>1. cancelled
    BY <1>10 DEF NotifyFailed, IndInv, EndInv
  <2> QED BY <1>10, <2>1, WakingStep DEF NotifyFailed, Locations, Holding, Gone, AllOver
<1>11. ASSUME NEW w \in Workers, Panic(w) PROVE IndInv'
  BY <1>11, PanicStep
<1>12. CASE Join
  <2>1. /\ \A w \in Workers : pc[w] \in Gone
        /\ answer' = Verdict
        /\ UNCHANGED <<graph, stateVars, pc, item, started, succeeded>>
    BY <1>12 DEF Join, Gone
  <2>2. Verdict \in Answers
    <3>1. graph \in Graphs /\ failure \in Items \cup {NoFailure} /\ done \in Nat
      BY DEF IndInv, TypeOK
    <3>2. failure # NoFailure => failure \in Nat
      BY <3>1, GraphShape
    <3> QED BY <3>1, <3>2 DEF Verdict, Answers
  <2>3. TypeOK'
    BY <2>1, <2>2 DEF IndInv, TypeOK, Items, stateVars
  <2>4. EndInv'
    BY <2>1 DEF IndInv, EndInv, stateVars
  <2> QED BY <2>1, <2>3, <2>4
          DEF IndInv, InFlightInv, CountInv, PlaceInv, NothingLost, Holders, Items, stateVars
<1>13. CASE UNCHANGED poolVars
  BY <1>13 DEF poolVars, stateVars, IndInv, TypeOK, InFlightInv, CountInv, PlaceInv, NothingLost,
               EndInv, Holders, Items
<1> QED BY <1>1, <1>2, <1>3, <1>4, <1>5, <1>6, <1>7, <1>8, <1>9, <1>10, <1>11, <1>12, <1>13
        DEF Next, PoolStep, JobStep, Returned

\* The invariant holds in every reachable state of every instance.
THEOREM Inductive == Spec => []IndInv
<1>1. IndInv /\ [Next]_poolVars => IndInv'
  BY IndInvStep
<1> QED BY <1>1, InitIndInv, PTL DEF Spec

\* Every variable of the pool stays in its domain; in particular neither
\* in_flight nor a counter of remaining ever goes below zero.
THEOREM TypeCorrect == Spec => []TypeOK
<1>1. IndInv => TypeOK
  BY DEF IndInv
<1> QED BY <1>1, Inductive, PTL

-----------------------------------------------------------------------------
(* The pool implements its abstract promise. *)

\* Initial states map to initial states.
LEMMA InitAbstract == Init => Abstract!Init
BY DEF Init, Abstract!Init

\* Taking an item starts one whose dependencies have all succeeded.
LEMMA TakeStarts ==
    ASSUME IndInv, NEW w \in Workers, Take(w)
    PROVE  Abstract!Start(Head(ready)) /\ Head(ready) \in Abstract!Items
<1>1. Head(ready) \in Items \ started /\ graph.deps[Head(ready)] \subseteq succeeded
  BY TakeStep
<1>2. failure = NoFailure /\ answer = Running
  BY DEF Take, AllOver, IndInv, EndInv, Gone
<1>3. Items = Abstract!Items
  BY DEF Items, ItemsOf, Abstract!Items
<1>4. started' = started \cup {Head(ready)} /\ UNCHANGED <<graph, succeeded, failure, answer>>
  BY DEF Take
<1> QED BY <1>1, <1>2, <1>3, <1>4 DEF Abstract!Start, Abstract!Startable

\* A job that returns Ok was started and had not succeeded.
LEMMA FinishOkSucceeds ==
    ASSUME IndInv, NEW w \in Workers, FinishOk(w)
    PROVE  Abstract!Succeed(item[w]) /\ item[w] \in Abstract!Items
<1>1. item[w] \in started \ succeeded /\ started \subseteq Items
  BY FinishOkStep DEF IndInv, TypeOK
<1>2. Items = Abstract!Items
  BY DEF Items, ItemsOf, Abstract!Items
<1> QED BY <1>1, <1>2 DEF FinishOk, Abstract!Succeed

\* A job that returns Err is the failure reported, or comes after it.
LEMMA FinishErrorFails ==
    ASSUME IndInv, NEW w \in Workers, FinishError(w)
    PROVE  (Abstract!Fail(item[w]) /\ item[w] \in Abstract!Items) \/ UNCHANGED Abstract!vars
<1>1. item[w] \in started \ succeeded /\ started \subseteq Items
  BY DEF FinishError, IndInv, PlaceInv, TypeOK, Holders, Holding
<1>2. Items = Abstract!Items
  BY DEF Items, ItemsOf, Abstract!Items
<1>3. /\ failure' = IF failure = NoFailure THEN item[w] ELSE failure
      /\ UNCHANGED <<graph, started, succeeded, answer>>
  BY DEF FinishError
<1> QED BY <1>1, <1>2, <1>3 DEF Abstract!Fail, Abstract!vars

\* When every worker is gone and no job failed, nothing could be started.
LEMMA JoinReturns ==
    ASSUME IndInv, Join
    PROVE  Abstract!ReturnFailure \/ Abstract!ReturnCount \/ Abstract!ReturnPanic
<1>1. /\ answer = Running /\ answer' = Verdict /\ \A w \in Workers : pc[w] \in Gone
      /\ UNCHANGED <<graph, started, succeeded, failure>>
  BY DEF Join, stateVars, Gone
<1>2. CASE \E w \in Workers : pc[w] = "panicked"
  <2>1. PICK w \in Workers : pc[w] = "panicked"
    BY <1>2
  <2>2. item[w] \in started \ succeeded
    BY <2>1 DEF IndInv, PlaceInv, Holders, Holding
  <2>3. answer' = [verdict |-> "panic"]
    BY <1>1, <1>2 DEF Verdict
  <2> QED BY <1>1, <2>2, <2>3 DEF Abstract!ReturnPanic
<1>3. CASE ~(\E w \in Workers : pc[w] = "panicked") /\ failure # NoFailure
  BY <1>1, <1>3 DEF Verdict, Abstract!ReturnFailure
<1>4. CASE ~(\E w \in Workers : pc[w] = "panicked") /\ failure = NoFailure
  <2>1. Holders = {}
    BY <1>1, <1>4 DEF Holders, Holding, Gone
  <2>2. started = succeeded
    BY <1>4, <2>1 DEF IndInv, NothingLost, TypeOK
  <2>3. done = graph.size \/ ready = << >>
    <3>1. PICK w \in Workers : pc[w] # "absent"
      BY DEF IndInv, EndInv
    <3>2. pc[w] = "left" /\ ~cancelled
      BY <1>1, <1>4, <3>1 DEF Gone, IndInv, EndInv
    <3> QED BY <3>2 DEF IndInv, EndInv
  <2>4. Abstract!Startable = {}
    <3>1. SUFFICES ASSUME NEW i \in Items, i \notin started, graph.deps[i] \subseteq succeeded
                   PROVE  FALSE
      BY DEF Abstract!Startable, Abstract!Items, Items, ItemsOf
    <3>2. CASE done = graph.size
      <4>1. IsFiniteSet(Items) /\ Cardinality(Items) = graph.size /\ succeeded \subseteq Items
        BY GraphShape DEF IndInv, TypeOK
      <4>2. Cardinality(succeeded) = Cardinality(Items)
        BY <3>2, <4>1 DEF IndInv, CountInv
      <4>3. succeeded = Items
        BY <4>1, <4>2, FS_Subset
      <4> QED BY <2>2, <3>1, <4>3
    <3>3. CASE ready = << >>
      <4>1. remaining[i] = 0
        BY <3>1, UnfinishedCount DEF IndInv, TypeOK, CountInv
      <4>2. Elements(ready) = {}
        BY <3>3 DEF Elements
      <4> QED BY <3>1, <4>1, <4>2 DEF IndInv, NothingLost
    <3> QED BY <2>3, <3>2, <3>3
  <2>5. answer' = [verdict |-> "ok", done |-> Cardinality(succeeded)]
    BY <1>1, <1>4 DEF Verdict, IndInv, CountInv
  <2> QED BY <1>1, <1>4, <2>2, <2>4, <2>5 DEF Abstract!ReturnCount, Abstract!Cardinality, Cardinality
<1> QED BY <1>2, <1>3, <1>4

\* Every step of the pool is a step of TopologicalRun or changes nothing of it.
LEMMA StepAbstract == IndInv /\ [Next]_poolVars => [Abstract!Next]_Abstract!vars
<1> SUFFICES ASSUME IndInv, [Next]_poolVars PROVE [Abstract!Next]_Abstract!vars
  OBVIOUS
<1>1. ASSUME NEW w \in Workers, Take(w) PROVE Abstract!Next
  BY <1>1, TakeStarts DEF Abstract!Next
<1>2. ASSUME NEW w \in Workers, FinishOk(w) PROVE Abstract!Next
  BY <1>2, FinishOkSucceeds DEF Abstract!Next
<1>3. ASSUME NEW w \in Workers, FinishError(w) PROVE Abstract!Next \/ UNCHANGED Abstract!vars
  BY <1>3, FinishErrorFails DEF Abstract!Next
<1>4. CASE Join
  BY <1>4, JoinReturns DEF Abstract!Next
<1>5. ASSUME NEW w \in Workers,
             \/ Leave(w) \/ Exhausted(w) \/ Sleep(w) \/ SpuriousWake(w)
             \/ Notify(w) \/ OnDone(w) \/ NotifyFailed(w) \/ Panic(w)
      PROVE  UNCHANGED Abstract!vars
  BY <1>5 DEF Leave, Exhausted, Sleep, SpuriousWake, Notify, OnDone, NotifyFailed, Panic,
              stateVars, Abstract!vars
<1>6. CASE UNCHANGED poolVars
  BY <1>6 DEF poolVars, stateVars, Abstract!vars
<1> QED BY <1>1, <1>2, <1>3, <1>4, <1>5, <1>6 DEF Next, PoolStep, JobStep, Returned

\* The pool keeps its promise for every graph and any number of threads:
\* dependencies first, each item at most once, nothing started after a
\* failure, the first failure reported, no count returned too early.
THEOREM Implementation == Spec => ImplementsTopologicalRun
<1>1. IndInv /\ [Next]_poolVars => [Abstract!Next]_Abstract!vars
  BY StepAbstract
<1> QED BY <1>1, Inductive, InitAbstract, PTL DEF Spec, ImplementsTopologicalRun, Abstract!Spec

-----------------------------------------------------------------------------
(* Sleepers. *)

\* A sleeper saw work in flight; what was in flight still is, or is about to
\* notify.  Only a panic breaks the chain.
THEOREM NoForgottenSleeper == Spec => []SleepersHaveAWaker
<1> DEFINE Inv == IndInv /\ SleepersHaveAWaker
<1>1. Init => Inv
  <2> SUFFICES ASSUME Init PROVE SleepersHaveAWaker
    BY InitIndInv
  <2>1. \A w \in Workers : pc[w] \in {"loop", "absent"}
    BY DEF Init
  <2> QED BY <2>1 DEF SleepersHaveAWaker
<1>2. Inv /\ [Next]_poolVars => Inv'
  <2> SUFFICES ASSUME Inv, [Next]_poolVars PROVE SleepersHaveAWaker'
    BY IndInvStep
  <2>1. pc \in [Workers -> Locations]
    BY DEF IndInv, TypeOK
  <2>2. ASSUME NEW w \in Workers, Leave(w) \/ Exhausted(w) \/ SpuriousWake(w) \/ OnDone(w)
        PROVE  SleepersHaveAWaker'
    BY <2>1, <2>2 DEF Leave, Exhausted, SpuriousWake, OnDone, Goto, NobodyPanicked,
                      SleepersHaveAWaker
  <2>3. ASSUME NEW w \in Workers, Take(w) \/ FinishOk(w) \/ FinishError(w)
        PROVE  SleepersHaveAWaker'
    BY <2>1, <2>3 DEF Take, FinishOk, FinishError, Goto, NobodyPanicked, SleepersHaveAWaker
  <2>4. ASSUME NEW w \in Workers, Notify(w) \/ NotifyFailed(w)
        PROVE  SleepersHaveAWaker'
    BY <2>1, <2>4 DEF Notify, NotifyFailed, NotifyAllAndGoto, NobodyPanicked, SleepersHaveAWaker
  \* Something is in flight, so some worker runs a job or has panicked.
  <2>5. ASSUME NEW w \in Workers, Sleep(w)
        PROVE  SleepersHaveAWaker'
    <3>1. inFlight # 0 /\ pc[w] = "loop" /\ pc' = [pc EXCEPT ![w] = "waiting"]
      BY <2>5 DEF Sleep, Goto
    <3>2. Holders # {}
      BY <3>1, FS_EmptySet DEF IndInv, InFlightInv
    <3>3. PICK v \in Workers : pc[v] \in {"job", "panicked"}
      BY <3>2 DEF Holders, Holding
    <3> QED BY <2>1, <3>1, <3>3 DEF NobodyPanicked, SleepersHaveAWaker
  <2>6. ASSUME NEW w \in Workers, Panic(w)
        PROVE  SleepersHaveAWaker'
    BY <2>1, <2>6 DEF Panic, Goto, NobodyPanicked, SleepersHaveAWaker
  <2>7. CASE Join
    BY <2>7 DEF Join, NobodyPanicked, SleepersHaveAWaker
  <2>8. CASE UNCHANGED poolVars
    BY <2>8 DEF poolVars, NobodyPanicked, SleepersHaveAWaker
  <2> QED BY <2>2, <2>3, <2>4, <2>5, <2>6, <2>7, <2>8 DEF Next, PoolStep, JobStep, Returned
<1>3. Inv => SleepersHaveAWaker
  OBVIOUS
<1> QED BY <1>1, <1>2, <1>3, PTL DEF Spec

-----------------------------------------------------------------------------
(* Part 2.  Acyclic graphs. *)

\* A graph that topo_waves walks to its end.
Acyclic(ms) ==
    /\ IsFiniteSet(DOMAIN ms)
    /\ Reached(ms) = DOMAIN ms
    /\ \A i \in DOMAIN ms : ms[i].deps \subseteq DOMAIN ms

\* What topo_waves has got to after k waves.
Waves(ms, L) ==
    /\ Cardinality(DOMAIN ms) \in Nat
    /\ L[0] = {} /\ L[Cardinality(DOMAIN ms)] = DOMAIN ms
    /\ \A k \in 0 .. Cardinality(DOMAIN ms) : L[k] \subseteq DOMAIN ms
    /\ \A k \in 0 .. Cardinality(DOMAIN ms) - 1 :
           /\ L[k] \subseteq L[k + 1]
           /\ \A i \in L[k + 1] : ms[i].deps \subseteq L[k]

\* An acyclic graph has its waves.
LEMMA WavesExist ==
    ASSUME NEW ms, Acyclic(ms)
    PROVE  \E L : Waves(ms, L)
<1> DEFINE D == DOMAIN ms
           N == Cardinality(D)
           P == SUBSET D
           F == [S \in P |-> S \cup {i \in D : ms[i].deps \subseteq S}]
           Eq(f) == f = [k \in 0 .. N |->
                           IF k = 0 THEN {}
                           ELSE f[k - 1] \cup {i \in D : ms[i].deps \subseteq f[k - 1]}]
<1>1. N \in Nat /\ Reached(ms) = D
  BY FS_CardinalityType DEF Acyclic
<1>2. \E f : Eq(f)
  <2>1. F \in [P -> P] /\ {} \in P
    OBVIOUS
  <2>2. 0 \in Nat /\ 0 <= N
    BY <1>1
  <2> HIDE DEF F, N, P, Eq
  <2>3. PICK f \in [0 .. N -> P] : Iteration(f, 0, N, {}, F)
    BY <1>1, <2>1, <2>2, Iterates
  <2>4. ASSUME NEW k \in 0 .. N, k # 0
        PROVE  F[f[k - 1]] = f[k - 1] \cup {i \in D : ms[i].deps \subseteq f[k - 1]}
    <3>1. k - 1 \in 0 .. N
      BY <1>1, <2>4
    <3>2. f[k - 1] \in P
      BY <2>3, <3>1
    <3> QED BY <3>2 DEF F, P
  <2>5. \A k \in 0 .. N : f[k] = IF k = 0 THEN {}
                                 ELSE f[k - 1] \cup {i \in D : ms[i].deps \subseteq f[k - 1]}
    BY <2>3, <2>4 DEF Iteration
  <2>6. f = [k \in 0 .. N |-> f[k]]
    BY <2>3
  <2>7. Eq(f)
    BY <2>5, <2>6 DEF Eq
  <2> QED BY <2>7
<1>3. PICK L : Eq(L) /\ Reached(ms) = L[N]
  BY <1>2 DEF Reached
<1> HIDE DEF D
<1>4. \A k \in 0 .. N : L[k] = IF k = 0 THEN {}
                               ELSE L[k - 1] \cup {i \in D : ms[i].deps \subseteq L[k - 1]}
  BY <1>3
<1>5. L[0] = {}
  <2>1. 0 \in 0 .. N
    BY <1>1
  <2> QED BY <1>4, <2>1
<1>6. \A k \in 0 .. N - 1 : L[k + 1] = L[k] \cup {i \in D : ms[i].deps \subseteq L[k]}
  <2> TAKE k \in 0 .. N - 1
  <2>1. k + 1 \in 0 .. N /\ k + 1 # 0 /\ (k + 1) - 1 = k
    BY <1>1
  <2> QED BY <1>4, <2>1
<1>7. \A k \in 0 .. N : L[k] \subseteq D
  <2> DEFINE T == {k \in 0 .. N : L[k] \subseteq D}
  <2>1. 0 \in T
    BY <1>1, <1>5
  <2>2. \A k \in 0 .. N - 1 : k \in T => k + 1 \in T
    BY <1>1, <1>6
  <2>3. \A k \in 0 .. N : k \in T
    <3> HIDE DEF T
    <3> QED BY <1>1, <2>1, <2>2, UpTo
  <2> QED BY <2>3
<1>8. \A k \in 0 .. N - 1 : \A i \in L[k + 1] : ms[i].deps \subseteq L[k]
  <2> DEFINE T == {k \in 0 .. N : k < N => \A i \in L[k + 1] : ms[i].deps \subseteq L[k]}
  <2>1. 0 \in T
    <3>1. 0 < N => L[0 + 1] = L[0] \cup {i \in D : ms[i].deps \subseteq L[0]}
      BY <1>1, <1>6
    <3> QED BY <1>1, <1>5, <3>1
  <2>2. ASSUME NEW k \in 0 .. N - 1, k \in T PROVE k + 1 \in T
    <3>1. \A i \in L[k + 1] : ms[i].deps \subseteq L[k]
      BY <1>1, <2>2
    <3>2. L[k] \subseteq L[k + 1]
      BY <1>6
    <3>3. k + 1 < N => L[(k + 1) + 1] = L[k + 1] \cup {i \in D : ms[i].deps \subseteq L[k + 1]}
      BY <1>1, <1>6
    <3>4. k + 1 \in 0 .. N
      BY <1>1
    <3> QED BY <3>1, <3>2, <3>3, <3>4
  <2>3. \A k \in 0 .. N : k \in T
    <3> HIDE DEF T
    <3> QED BY <1>1, <2>1, <2>2, UpTo
  <2> QED BY <1>1, <2>3
<1>9. L[N] = D
  BY <1>1, <1>3
<1>10. \A k \in 0 .. N - 1 : L[k] \subseteq L[k + 1]
  BY <1>6
<1> QED BY <1>1, <1>5, <1>7, <1>8, <1>9, <1>10 DEF Waves, D

\* Induction along the imports.
LEMMA SomeImportsNone ==
    ASSUME NEW ms, Acyclic(ms), NEW S, S \subseteq DOMAIN ms, S # {}
    PROVE  \E i \in S : ms[i].deps \cap S = {}
<1> DEFINE N == Cardinality(DOMAIN ms)
<1>1. PICK L : Waves(ms, L)
  BY WavesExist
<1> DEFINE T == {k \in 0 .. N : L[k] \cap S # {}}
<1>2. N \in T
  BY <1>1 DEF Waves
<1>3. T \subseteq Nat
  BY <1>1 DEF Waves
<1> HIDE DEF T
<1>4. PICK k \in T : \A l \in T : k <= l
  BY <1>2, <1>3, Least
<1>5. k \in 0 .. N /\ L[k] \cap S # {} /\ k # 0 /\ N \in Nat
  BY <1>1, <1>4 DEF T, Waves
<1>6. k - 1 \in 0 .. N - 1 /\ k - 1 \in 0 .. N /\ (k - 1) + 1 = k /\ ~(k <= k - 1)
  BY <1>5
<1>7. L[k - 1] \cap S = {}
  BY <1>4, <1>6 DEF T
<1>8. PICK i \in S : i \in L[k]
  BY <1>5
<1>9. ms[i].deps \subseteq L[k - 1]
  BY <1>1, <1>6, <1>8 DEF Waves
<1> QED BY <1>7, <1>9
-----------------------------------------------------------------------------
(* Closure is the least set that holds the imports of i and the imports of its elements. *)

IsClosed(ms, S) == \A j \in S : ms[j].deps \subseteq S

\* All that a module imports: the least set that is closed under imports and holds its own.
LEMMA ClosureIsLeast ==
    ASSUME NEW ms, Acyclic(ms), NEW i \in DOMAIN ms
    PROVE  /\ Closure(ms, i) \subseteq DOMAIN ms
           /\ ms[i].deps \subseteq Closure(ms, i)
           /\ IsClosed(ms, Closure(ms, i))
           /\ \A S : ms[i].deps \subseteq S /\ IsClosed(ms, S) => Closure(ms, i) \subseteq S
<1> DEFINE D == DOMAIN ms
           N == Cardinality(D)
           P == SUBSET D
           F == [S \in P |-> S \cup UNION {ms[j].deps : j \in S}]
           a == ms[i].deps
           Eq(f) == f = [k \in 1 .. N |->
                           IF k = 1 THEN ms[i].deps
                           ELSE f[k - 1] \cup UNION {ms[j].deps : j \in f[k - 1]}]
<1>1. PICK L : Waves(ms, L)
  BY WavesExist
<1>2. N \in Nat /\ N # 0 /\ 1 \in Nat /\ 1 <= N
  <2>1. N \in Nat /\ L[N] = D /\ L[0] = {}
    BY <1>1 DEF Waves
  <2> HIDE DEF N
  <2>2. N # 0
    BY <2>1
  <2> QED BY <2>1, <2>2
<1>3. \E f : Eq(f)
  <2>1. F \in [P -> P] /\ a \in P
    BY DEF Acyclic
  <2> HIDE DEF F, N, P, Eq, a
  <2>2. PICK f \in [1 .. N -> P] : Iteration(f, 1, N, a, F)
    BY <1>2, <2>1, Iterates
  <2>3. ASSUME NEW k \in 1 .. N, k # 1
        PROVE  F[f[k - 1]] = f[k - 1] \cup UNION {ms[j].deps : j \in f[k - 1]}
    <3>1. k - 1 \in 1 .. N
      BY <1>2, <2>3
    <3>2. f[k - 1] \in P
      BY <2>2, <3>1
    <3> QED BY <3>2 DEF F
  <2>4. \A k \in 1 .. N : f[k] = IF k = 1 THEN ms[i].deps
                                 ELSE f[k - 1] \cup UNION {ms[j].deps : j \in f[k - 1]}
    BY <2>2, <2>3 DEF a, Iteration
  <2>5. f = [k \in 1 .. N |-> f[k]]
    BY <2>2
  <2>6. Eq(f)
    BY <2>4, <2>5 DEF Eq
  <2> QED BY <2>6
<1>4. PICK f : Eq(f) /\ Closure(ms, i) = f[N]
  BY <1>3 DEF Closure
<1>5. \A k \in 1 .. N : f[k] = IF k = 1 THEN ms[i].deps
                               ELSE f[k - 1] \cup UNION {ms[j].deps : j \in f[k - 1]}
  BY <1>4
<1> HIDE DEF N, Eq, D
<1>6. f[1] = ms[i].deps
  <2>1. 1 \in 1 .. N
    BY <1>2
  <2> QED BY <1>5, <2>1
<1>7. \A k \in 1 .. N - 1 : f[k + 1] = f[k] \cup UNION {ms[j].deps : j \in f[k]}
  <2> TAKE k \in 1 .. N - 1
  <2>1. k + 1 \in 1 .. N /\ k + 1 # 1 /\ (k + 1) - 1 = k
    BY <1>2
  <2> QED BY <1>5, <2>1
<1>8. ASSUME NEW S, ms[i].deps \subseteq S, IsClosed(ms, S)
      PROVE  f[N] \subseteq S
  <2> DEFINE T == {k \in 1 .. N : f[k] \subseteq S}
  <2>1. 1 \in T
    BY <1>2, <1>6, <1>8
  <2>2. ASSUME NEW k \in 1 .. N - 1, k \in T PROVE k + 1 \in T
    <3>1. f[k] \subseteq S /\ k + 1 \in 1 .. N
      BY <1>2, <2>2
    <3>2. f[k + 1] \subseteq S
      BY <1>7, <1>8, <3>1 DEF IsClosed
    <3> QED BY <3>1, <3>2
  <2>3. \A k \in 1 .. N : k \in T
    <3> HIDE DEF T
    <3> QED BY <1>2, <2>1, <2>2, UpTo
  <2>4. N \in 1 .. N
    BY <1>2
  <2> QED BY <2>3, <2>4
<1>9. f[N] \subseteq D
  <2>1. ms[i].deps \subseteq D /\ IsClosed(ms, D)
    BY DEF Acyclic, IsClosed, D
  <2> QED BY <1>8, <2>1
<1>10. ms[i].deps \subseteq f[N]
  <2> DEFINE T == {k \in 1 .. N : ms[i].deps \subseteq f[k]}
  <2>1. 1 \in T
    BY <1>2, <1>6
  <2>2. \A k \in 1 .. N - 1 : k \in T => k + 1 \in T
    BY <1>2, <1>7
  <2>3. \A k \in 1 .. N : k \in T
    <3> HIDE DEF T
    <3> QED BY <1>2, <2>1, <2>2, UpTo
  <2>4. N \in 1 .. N
    BY <1>2
  <2> QED BY <2>3, <2>4
<1>11. IsClosed(ms, f[N])
  \* What is new after k rounds lies k waves below i.
  <2> DEFINE T == {k \in 1 .. N : \A j \in f[k] : ms[j].deps \subseteq f[k] \/ j \in L[N - k]}
  <2>1. \A k \in 0 .. N - 1 : \A j \in L[k + 1] : ms[j].deps \subseteq L[k]
    BY <1>1 DEF Waves, N, D
  <2>2. L[N] = D /\ L[0] = {}
    BY <1>1 DEF Waves, N, D
  <2>3. 1 \in T
    <3>1. N - 1 \in 0 .. N - 1 /\ (N - 1) + 1 = N /\ 1 \in 1 .. N
      BY <1>2
    <3>2. ms[i].deps \subseteq L[N - 1]
      BY <2>1, <2>2, <3>1 DEF D
    <3> QED BY <1>6, <3>1, <3>2
  <2>4. ASSUME NEW k \in 1 .. N - 1, k \in T PROVE k + 1 \in T
    <3>1. /\ k + 1 \in 1 .. N
          /\ N - (k + 1) \in 0 .. N - 1 /\ (N - (k + 1)) + 1 = N - k
      BY <1>2
    <3>2. f[k + 1] = f[k] \cup UNION {ms[j].deps : j \in f[k]}
      BY <1>7
    <3>3. \A j \in f[k] : ms[j].deps \subseteq f[k] \/ j \in L[N - k]
      BY <2>4
    <3>4. ASSUME NEW j \in f[k + 1]
          PROVE  ms[j].deps \subseteq f[k + 1] \/ j \in L[N - (k + 1)]
      <4>1. CASE j \in f[k]
        BY <3>2, <4>1
      <4>2. CASE j \notin f[k]
        <5>1. PICK h \in f[k] : j \in ms[h].deps
          BY <3>2, <4>2
        <5>2. h \in L[N - k]
          BY <3>3, <4>2, <5>1
        <5>3. h \in L[(N - (k + 1)) + 1]
          BY <3>1, <5>2
        <5> QED BY <2>1, <3>1, <5>1, <5>3
      <4> QED BY <4>1, <4>2
    <3> QED BY <3>1, <3>4
  <2>5. \A k \in 1 .. N : k \in T
    <3> HIDE DEF T
    <3> QED BY <1>2, <2>3, <2>4, UpTo
  <2>6. N \in 1 .. N /\ N - N = 0
    BY <1>2
  <2>7. \A j \in f[N] : ms[j].deps \subseteq f[N]
    BY <2>2, <2>5, <2>6
  <2> QED BY <2>7 DEF IsClosed
<1> QED BY <1>4, <1>8, <1>9, <1>10, <1>11 DEF D

\* A module's closure is its imports with theirs.
LEMMA ClosureEquation ==
    ASSUME NEW ms, Acyclic(ms), NEW i \in DOMAIN ms
    PROVE  /\ Closure(ms, i) = ms[i].deps \cup UNION {Closure(ms, d) : d \in ms[i].deps}
           /\ \A j \in Closure(ms, i) : Closure(ms, j) \subseteq Closure(ms, i)
<1> DEFINE C == Closure(ms, i)
           R == ms[i].deps \cup UNION {Closure(ms, d) : d \in ms[i].deps}
<1>1. /\ C \subseteq DOMAIN ms /\ ms[i].deps \subseteq C /\ IsClosed(ms, C)
      /\ \A S : ms[i].deps \subseteq S /\ IsClosed(ms, S) => C \subseteq S
  BY ClosureIsLeast
<1>2. ms[i].deps \subseteq DOMAIN ms
  BY DEF Acyclic
<1>3. ASSUME NEW j \in C PROVE Closure(ms, j) \subseteq C
  <2>1. j \in DOMAIN ms /\ ms[j].deps \subseteq C
    BY <1>1 DEF IsClosed
  <2> QED BY <1>1, <2>1, ClosureIsLeast
<1>4. R \subseteq C
  BY <1>1, <1>3
<1>5. IsClosed(ms, R)
  <2> SUFFICES ASSUME NEW j \in R PROVE ms[j].deps \subseteq R
    BY DEF IsClosed
  <2>1. CASE j \in ms[i].deps
    <3>1. ms[j].deps \subseteq Closure(ms, j)
      BY <1>2, <2>1, ClosureIsLeast
    <3> QED BY <2>1, <3>1
  <2>2. ASSUME NEW d \in ms[i].deps, j \in Closure(ms, d) PROVE ms[j].deps \subseteq R
    <3>1. IsClosed(ms, Closure(ms, d))
      BY <1>2, <2>2, ClosureIsLeast
    <3>2. ms[j].deps \subseteq Closure(ms, d)
      BY <2>2, <3>1 DEF IsClosed
    <3> QED BY <3>2
  <2> QED BY <2>1, <2>2
<1>6. C \subseteq R
  BY <1>1, <1>5
<1> QED BY <1>3, <1>4, <1>6
-----------------------------------------------------------------------------
(* Fingerprints and clean outputs exist on acyclic graphs: wave after wave. *)

KeyOf(ws, ms, fp, i) ==
    [name       |-> ms[i].name,
     toolchain  |-> ws.toolchain,
     provenance |-> OwnerProvenance(PackageOf(ws, ms[i])),
     source     |-> ms[i].source,
     setup      |-> <<ModuleOptions(ws, ms[i]), ms[i].source.isModule>>,
     imports    |-> {<<ms[d].name, fp[d]>> : d \in ms[i].deps}]

OutputOf(ws, ms, output, i) ==
    LeanOutput(ws, ms, i, [t \in Closure(ms, i) |-> output[t]])

\* On an acyclic graph there are fingerprints, and each is the hash of a module with its
\* imports' fingerprints.
LEMMA FingerprintsEquation ==
    ASSUME NEW ws, NEW ms, Acyclic(ms), NEW i \in DOMAIN ms
    PROVE  Fingerprints(ws, ms)[i] = KeyOf(ws, ms, Fingerprints(ws, ms), i)
<1> DEFINE N == Cardinality(DOMAIN ms)
           On(g, S) == g = [j \in S |-> KeyOf(ws, ms, g, j)]
<1>1. PICK L : Waves(ms, L)
  BY WavesExist
<1>2. /\ N \in Nat /\ L[0] = {} /\ L[N] = DOMAIN ms
      /\ \A k \in 0 .. N - 1 : \A j \in L[k + 1] : ms[j].deps \subseteq L[k]
  BY <1>1 DEF Waves
<1> HIDE DEF N
<1> DEFINE T == {k \in 0 .. N : \E g : On(g, L[k])}
<1>3. 0 \in T
  <2> DEFINE g == [j \in {} |-> KeyOf(ws, ms, <<>>, j)]
  <2>1. On(g, {})
    OBVIOUS
  <2> HIDE DEF g, On
  <2>2. On(g, L[0]) /\ 0 \in 0 .. N
    BY <1>2, <2>1
  <2> QED BY <2>2
<1>4. ASSUME NEW k \in 0 .. N - 1, k \in T PROVE k + 1 \in T
  <2>1. PICK g : On(g, L[k])
    BY <1>4
  <2> DEFINE h == [j \in L[k + 1] |-> IF j \in L[k] THEN g[j] ELSE KeyOf(ws, ms, g, j)]
  <2>2. \A j \in L[k] : g[j] = KeyOf(ws, ms, g, j)
    <3> HIDE DEF h
    <3> QED BY <2>1
  <2>3. ASSUME NEW j \in L[k + 1] PROVE h[j] = KeyOf(ws, ms, h, j)
    <3>1. h[j] = KeyOf(ws, ms, g, j)
      BY <2>2
    <3>2. \A d \in ms[j].deps : d \in L[k]
      BY <1>2
    <3>3. \A d \in ms[j].deps : d \in L[k + 1] => h[d] = g[d]
      BY <3>2
    <3>4. \A d \in L[k] : d \in L[k + 1]
      BY <1>1 DEF Waves, N
    <3> HIDE DEF h
    <3>5. {<<ms[d].name, h[d]>> : d \in ms[j].deps} = {<<ms[d].name, g[d]>> : d \in ms[j].deps}
      BY <3>2, <3>3, <3>4
    <3> QED BY <3>1, <3>5 DEF KeyOf
  <2>4. On(h, L[k + 1])
    <3>1. h = [j \in L[k + 1] |-> h[j]]
      OBVIOUS
    <3> HIDE DEF h
    <3> QED BY <2>3, <3>1
  <2>5. k + 1 \in 0 .. N
    BY <1>2
  <2> HIDE DEF On, h
  <2> QED BY <2>4, <2>5
<1>5. \A k \in 0 .. N : k \in T
  <2> HIDE DEF T
  <2> QED BY <1>2, <1>3, <1>4, UpTo
<1>6. \E g : On(g, DOMAIN ms)
  <2>1. N \in 0 .. N
    BY <1>2
  <2> HIDE DEF On
  <2> QED BY <1>2, <1>5, <2>1
<1>7. On(Fingerprints(ws, ms), DOMAIN ms)
  BY <1>6 DEF Fingerprints, KeyOf
<1> QED BY <1>7

\* The same for the outputs of a build from nothing.
LEMMA CleanOutputsEquation ==
    ASSUME NEW ws, NEW ms, Acyclic(ms), NEW i \in DOMAIN ms
    PROVE  CleanOutputs(ws, ms)[i] = OutputOf(ws, ms, CleanOutputs(ws, ms), i)
<1> DEFINE N == Cardinality(DOMAIN ms)
           On(g, S) == g = [j \in S |-> OutputOf(ws, ms, g, j)]
<1>1. PICK L : Waves(ms, L)
  BY WavesExist
<1>2. /\ N \in Nat /\ L[0] = {} /\ L[N] = DOMAIN ms
      /\ \A k \in 0 .. N - 1 : /\ L[k] \subseteq L[k + 1]
                               /\ \A j \in L[k + 1] : ms[j].deps \subseteq L[k]
      /\ \A k \in 0 .. N : L[k] \subseteq DOMAIN ms
  BY <1>1 DEF Waves
<1> HIDE DEF N
<1>3. ASSUME NEW k \in 0 .. N - 1, NEW j \in L[k + 1] PROVE Closure(ms, j) \subseteq L[k]
  <2>1. k + 1 \in 0 .. N
    BY <1>2
  <2>2. j \in DOMAIN ms /\ ms[j].deps \subseteq L[k]
    BY <1>2, <1>3, <2>1
  <2>3. IsClosed(ms, L[k])
    <3>1. CASE k = 0
      BY <1>2, <3>1 DEF IsClosed
    <3>2. CASE k # 0
      <4>1. k - 1 \in 0 .. N - 1 /\ (k - 1) + 1 = k
        BY <1>2, <3>2
      <4>2. L[k - 1] \subseteq L[k] /\ \A h \in L[k] : ms[h].deps \subseteq L[k - 1]
        <5>1. L[k - 1] \subseteq L[(k - 1) + 1]
              /\ \A h \in L[(k - 1) + 1] : ms[h].deps \subseteq L[k - 1]
          BY <1>2, <4>1
        <5> QED BY <4>1, <5>1
      <4> QED BY <4>2 DEF IsClosed
    <3> QED BY <3>1, <3>2
  <2> QED BY <2>2, <2>3, ClosureIsLeast
<1> DEFINE T == {k \in 0 .. N : \E g : On(g, L[k])}
<1>4. 0 \in T
  <2> DEFINE g == [j \in {} |-> OutputOf(ws, ms, <<>>, j)]
  <2>1. On(g, {})
    OBVIOUS
  <2> HIDE DEF g, On
  <2>2. On(g, L[0]) /\ 0 \in 0 .. N
    BY <1>2, <2>1
  <2> QED BY <2>2
<1>5. ASSUME NEW k \in 0 .. N - 1, k \in T PROVE k + 1 \in T
  <2>1. PICK g : On(g, L[k])
    BY <1>5
  <2> DEFINE h == [j \in L[k + 1] |-> IF j \in L[k] THEN g[j] ELSE OutputOf(ws, ms, g, j)]
  <2>2. \A j \in L[k] : g[j] = OutputOf(ws, ms, g, j)
    <3> HIDE DEF h
    <3> QED BY <2>1
  <2>3. ASSUME NEW j \in L[k + 1] PROVE h[j] = OutputOf(ws, ms, h, j)
    <3>1. h[j] = OutputOf(ws, ms, g, j)
      BY <2>2
    <3>2. \A t \in Closure(ms, j) : h[t] = g[t]
      BY <1>2, <1>3
    <3> HIDE DEF h
    <3>3. [t \in Closure(ms, j) |-> h[t]] = [t \in Closure(ms, j) |-> g[t]]
      BY <3>2
    <3> QED BY <3>1, <3>3 DEF OutputOf
  <2>4. On(h, L[k + 1])
    <3>1. h = [j \in L[k + 1] |-> h[j]]
      OBVIOUS
    <3> HIDE DEF h
    <3> QED BY <2>3, <3>1
  <2>5. k + 1 \in 0 .. N
    BY <1>2
  <2> HIDE DEF On, h
  <2> QED BY <2>4, <2>5
<1>6. \A k \in 0 .. N : k \in T
  <2> HIDE DEF T
  <2> QED BY <1>2, <1>4, <1>5, UpTo
<1>7. \E g : On(g, DOMAIN ms)
  <2>1. N \in 0 .. N
    BY <1>2
  <2> HIDE DEF On
  <2> QED BY <1>2, <1>6, <2>1
<1>8. On(CleanOutputs(ws, ms), DOMAIN ms)
  BY <1>7 DEF CleanOutputs, OutputOf
<1> QED BY <1>8
-----------------------------------------------------------------------------
(* A fingerprint says what a clean build makes of a module. *)

\* The graph of a workspace that resolves is acyclic.
LEMMA WellFormedIsAcyclic ==
    ASSUME NEW ws, WellFormed(ws)
    PROVE  Acyclic(ModuleGraph(ws))
  BY DEF WellFormed, Resolvable, Acyclic

\* Unkeyed, of a plan.
UnkeyedIn(p, ms, i) ==
    \E j \in Closure(ms, i) \cup {i} :
        \/ PackageOf(p.ws, ms[j]).rev = NoRev /\ ms[j].package \in p.changed
        \/ ms[j].name \in p.moved

\* What a module's output says of all it imports.
ImportsOf(ms, output, i) == {<<ms[t].name, output[t]>> : t \in Closure(ms, i)}

\* An output says what lean has read: the module, its options and all it imports.
LEMMA CleanOutputFields ==
    ASSUME NEW ws, NEW ms, Acyclic(ms), NEW i \in DOMAIN ms
    PROVE  CleanOutputs(ws, ms)[i] =
               [name      |-> ms[i].name,
                package   |-> ms[i].package,
                source    |-> ms[i].source,
                options   |-> ModuleOptions(ws, ms[i]),
                toolchain |-> ws.toolchain,
                inputs    |-> PackageOf(ws, ms[i]).inputs,
                imports   |-> ImportsOf(ms, CleanOutputs(ws, ms), i)]
<1> DEFINE co == CleanOutputs(ws, ms)
           loaded == [t \in Closure(ms, i) |-> co[t]]
<1>1. co[i] = LeanOutput(ws, ms, i, loaded)
  BY CleanOutputsEquation DEF OutputOf
<1> HIDE DEF co
<1>2. {<<ms[t].name, loaded[t]>> : t \in DOMAIN loaded} = ImportsOf(ms, co, i)
  BY DEF ImportsOf
<1> HIDE DEF loaded
<1> QED BY <1>1, <1>2 DEF LeanOutput, co

\* Its part about the imports.
LEMMA CleanImports ==
    ASSUME NEW ws, NEW ms, Acyclic(ms), NEW i \in DOMAIN ms
    PROVE  CleanOutputs(ws, ms)[i].imports = ImportsOf(ms, CleanOutputs(ws, ms), i)
<1> DEFINE co == CleanOutputs(ws, ms)
           I == ImportsOf(ms, co, i)
<1>1. co[i] = [name      |-> ms[i].name,
               package   |-> ms[i].package,
               source    |-> ms[i].source,
               options   |-> ModuleOptions(ws, ms[i]),
               toolchain |-> ws.toolchain,
               inputs    |-> PackageOf(ws, ms[i]).inputs,
               imports   |-> I]
  BY CleanOutputFields
<1> HIDE DEF co, I
<1>2. co[i].imports = I
  BY <1>1
<1> QED BY <1>2 DEF co, I

\* All imports are the direct ones and theirs.
LEMMA ImportsEquation ==
    ASSUME NEW ms, Acyclic(ms), NEW i \in DOMAIN ms, NEW output
    PROVE  ImportsOf(ms, output, i) =
               {<<ms[d].name, output[d]>> : d \in ms[i].deps}
               \cup UNION {ImportsOf(ms, output, d) : d \in ms[i].deps}
<1>1. Closure(ms, i) = ms[i].deps \cup UNION {Closure(ms, d) : d \in ms[i].deps}
  BY ClosureEquation
<1> QED BY <1>1 DEF ImportsOf

\* A module's package is one of the workspace's.
LEMMA OwnPackage ==
    ASSUME NEW ws, WellFormed(ws), NEW i \in DOMAIN ModuleGraph(ws)
    PROVE  \E k \in DOMAIN ws.packages :
               /\ PackageOf(ws, ModuleGraph(ws)[i]) = ws.packages[k]
               /\ ws.packages[k].name = ModuleGraph(ws)[i].package
<1> DEFINE m == ModuleGraph(ws)[i]
<1>1. \E k \in DOMAIN ws.packages : ws.packages[k].name = m.package
  BY DEF WellFormed
<1> QED BY <1>1 DEF PackageOf

\* Equal fingerprints, of modules of whatever two workspaces, mean equal clean outputs:
\* the workspace of a plan and one that was built before it.
LEMMA FingerprintsDetermineOutputs ==
    ASSUME NEW old, WellFormed(old), NEW p, WellFormed(p.ws),
           SameInputs(old, p), SameOwners(old, p),
           NEW i0 \in DOMAIN ModuleGraph(old), NEW i \in DOMAIN ModuleGraph(p.ws),
           Fingerprints(old, ModuleGraph(old))[i0] = Fingerprints(p.ws, ModuleGraph(p.ws))[i],
           ~UnkeyedIn(p, ModuleGraph(p.ws), i)
    PROVE  CleanOutputs(old, ModuleGraph(old))[i0] = CleanOutputs(p.ws, ModuleGraph(p.ws))[i]
<1> DEFINE ms0 == ModuleGraph(old)
           ms == ModuleGraph(p.ws)
           fp0 == Fingerprints(old, ms0)
           fp == Fingerprints(p.ws, ms)
           co0 == CleanOutputs(old, ms0)
           co == CleanOutputs(p.ws, ms)
           Fits(j, j0) == fp0[j0] = fp[j] /\ ~UnkeyedIn(p, ms, j)
           S == {j \in DOMAIN ms : \E j0 \in DOMAIN ms0 : Fits(j, j0) /\ co0[j0] # co[j]}
<1>1. Acyclic(ms0) /\ Acyclic(ms)
  BY WellFormedIsAcyclic
<1>2. /\ \A j \in DOMAIN ms : \E k \in DOMAIN p.ws.packages :
             /\ PackageOf(p.ws, ms[j]) = p.ws.packages[k]
             /\ p.ws.packages[k].name = ms[j].package
      /\ \A j \in DOMAIN ms0 : \E k \in DOMAIN old.packages :
             PackageOf(old, ms0[j]) = old.packages[k]
  BY OwnPackage
<1> SUFFICES ASSUME S # {} PROVE FALSE
  OBVIOUS
<1> HIDE DEF ms0, ms
<1>3. PICK j \in S : ms[j].deps \cap S = {}
  <2>1. S \subseteq DOMAIN ms
    OBVIOUS
  <2> HIDE DEF S
  <2> QED BY <1>1, <2>1, SomeImportsNone
<1>4. PICK j0 \in DOMAIN ms0 : Fits(j, j0) /\ co0[j0] # co[j]
  OBVIOUS
<1>5. j \in DOMAIN ms /\ ms[j].deps \subseteq DOMAIN ms /\ ms0[j0].deps \subseteq DOMAIN ms0
  BY <1>1 DEF Acyclic
<1>6. KeyOf(old, ms0, fp0, j0) = KeyOf(p.ws, ms, fp, j)
  BY <1>1, <1>4, <1>5, FingerprintsEquation
<1> HIDE DEF fp0, fp, co0, co
<1>7. /\ ms0[j0].name = ms[j].name
      /\ ms0[j0].source = ms[j].source
      /\ old.toolchain = p.ws.toolchain
      /\ OwnerProvenance(PackageOf(old, ms0[j0])) = OwnerProvenance(PackageOf(p.ws, ms[j]))
      /\ ModuleOptions(old, ms0[j0]) = ModuleOptions(p.ws, ms[j])
      /\ {<<ms0[d].name, fp0[d]>> : d \in ms0[j0].deps} = {<<ms[d].name, fp[d]>> : d \in ms[j].deps}
  BY <1>6 DEF KeyOf
<1>8. PackageOf(old, ms0[j0]).inputs = PackageOf(p.ws, ms[j]).inputs
  <2>1. PICK k \in DOMAIN p.ws.packages : /\ PackageOf(p.ws, ms[j]) = p.ws.packages[k]
                                          /\ p.ws.packages[k].name = ms[j].package
    BY <1>2, <1>5
  <2>2. PICK k0 \in DOMAIN old.packages : PackageOf(old, ms0[j0]) = old.packages[k0]
    BY <1>2
  <2>3. ~(p.ws.packages[k].rev = NoRev /\ p.ws.packages[k].name \in p.changed)
    BY <1>4, <2>1 DEF UnkeyedIn
  <2> QED BY <1>7, <2>1, <2>2, <2>3 DEF SameInputs
<1>9. ms0[j0].package = ms[j].package
  <2>1. ms[j].name \notin p.moved
    BY <1>4 DEF UnkeyedIn
  <2> QED BY <1>4, <1>5, <2>1 DEF SameOwners, fp0, fp, ms0, ms
\* The imports correspond, and so do their outputs.
<1>10. ASSUME NEW d \in ms[j].deps, NEW d0 \in ms0[j0].deps, fp0[d0] = fp[d]
      PROVE  co0[d0] = co[d]
  <2>1. d \in DOMAIN ms /\ d0 \in DOMAIN ms0 /\ d \notin S
    BY <1>3, <1>5
  <2>2. Closure(ms, d) \cup {d} \subseteq Closure(ms, j)
    BY <1>1, <1>5, ClosureEquation, ClosureIsLeast
  <2>3. ~UnkeyedIn(p, ms, d)
    BY <1>4, <2>2 DEF UnkeyedIn
  <2> QED BY <1>10, <2>1, <2>3
<1>11. /\ \A d \in ms[j].deps : \E d0 \in ms0[j0].deps :
              ms0[d0].name = ms[d].name /\ fp0[d0] = fp[d]
       /\ \A d0 \in ms0[j0].deps : \E d \in ms[j].deps :
              ms0[d0].name = ms[d].name /\ fp0[d0] = fp[d]
  <2> DEFINE A0 == {<<ms0[d].name, fp0[d]>> : d \in ms0[j0].deps}
             A == {<<ms[d].name, fp[d]>> : d \in ms[j].deps}
  <2>1. \A d \in ms[j].deps : <<ms[d].name, fp[d]>> \in A0
    BY <1>7
  <2>2. \A d0 \in ms0[j0].deps : <<ms0[d0].name, fp0[d0]>> \in A
    BY <1>7
  <2> QED BY <2>1, <2>2
<1>12. /\ \A d \in ms[j].deps : \E d0 \in ms0[j0].deps :
              ms0[d0].name = ms[d].name /\ co0[d0] = co[d]
       /\ \A d0 \in ms0[j0].deps : \E d \in ms[j].deps :
              ms0[d0].name = ms[d].name /\ co0[d0] = co[d]
  BY <1>10, <1>11
<1>13. /\ \A d \in ms[j].deps : co[d].imports = ImportsOf(ms, co, d)
       /\ \A d0 \in ms0[j0].deps : co0[d0].imports = ImportsOf(ms0, co0, d0)
  <2>1. ASSUME NEW d \in ms[j].deps PROVE co[d].imports = ImportsOf(ms, co, d)
    <3>1. d \in DOMAIN ms
      BY <1>5
    <3>2. CleanOutputs(p.ws, ms)[d].imports = ImportsOf(ms, CleanOutputs(p.ws, ms), d)
      BY <1>1, <3>1, CleanImports
    <3> QED BY <3>2 DEF co
  <2>2. ASSUME NEW d \in ms0[j0].deps PROVE co0[d].imports = ImportsOf(ms0, co0, d)
    <3>1. d \in DOMAIN ms0
      BY <1>5
    <3>2. CleanOutputs(old, ms0)[d].imports = ImportsOf(ms0, CleanOutputs(old, ms0), d)
      BY <1>1, <3>1, CleanImports
    <3> QED BY <3>2 DEF co0
  <2> QED BY <2>1, <2>2
<1>14. ImportsOf(ms0, co0, j0) = ImportsOf(ms, co, j)
  <2>1. /\ ImportsOf(ms, co, j) = {<<ms[d].name, co[d]>> : d \in ms[j].deps}
                                  \cup UNION {ImportsOf(ms, co, d) : d \in ms[j].deps}
        /\ ImportsOf(ms0, co0, j0) = {<<ms0[d].name, co0[d]>> : d \in ms0[j0].deps}
                                     \cup UNION {ImportsOf(ms0, co0, d) : d \in ms0[j0].deps}
    BY <1>1, <1>5, ImportsEquation
  <2>2. {<<ms0[d].name, co0[d]>> : d \in ms0[j0].deps} = {<<ms[d].name, co[d]>> : d \in ms[j].deps}
    BY <1>12
  <2>3. {ImportsOf(ms0, co0, d) : d \in ms0[j0].deps} = {ImportsOf(ms, co, d) : d \in ms[j].deps}
    <3>1. \A d \in ms[j].deps : \E d0 \in ms0[j0].deps :
              ImportsOf(ms0, co0, d0) = ImportsOf(ms, co, d)
      BY <1>12, <1>13
    <3>2. \A d0 \in ms0[j0].deps : \E d \in ms[j].deps :
              ImportsOf(ms0, co0, d0) = ImportsOf(ms, co, d)
      BY <1>12, <1>13
    <3> QED BY <3>1, <3>2
  <2> QED BY <2>1, <2>2, <2>3
<1>15. co0[j0] = co[j]
  <2>1. co0[j0] =
         [name |-> ms0[j0].name, package |-> ms0[j0].package,
          source |-> ms0[j0].source, options |-> ModuleOptions(old, ms0[j0]),
          toolchain |-> old.toolchain, inputs |-> PackageOf(old, ms0[j0]).inputs,
          imports |-> ImportsOf(ms0, co0, j0)]
    BY <1>1, CleanOutputFields DEF co0
  <2>2. co[j] =
         [name |-> ms[j].name, package |-> ms[j].package,
          source |-> ms[j].source, options |-> ModuleOptions(p.ws, ms[j]),
          toolchain |-> p.ws.toolchain, inputs |-> PackageOf(p.ws, ms[j]).inputs,
          imports |-> ImportsOf(ms, co, j)]
    BY <1>1, <1>5, CleanOutputFields DEF co
  <2> QED BY <1>7, <1>8, <1>9, <1>14, <2>1, <2>2
<1> QED BY <1>4, <1>15
-----------------------------------------------------------------------------
(* The invariant. *)

\* What is fixed before the first job.
PlanInv ==
    plan # NoPlan =>
        /\ plan \in Plans
        /\ modules = ModuleGraph(plan.ws)
        /\ fps = Fingerprints(plan.ws, modules)
        /\ clean = CleanOutputs(plan.ws, modules)
        /\ graph = DepsOf(modules)

\* What a module that has succeeded has left.
LayoutInv ==
    plan # NoPlan =>
        /\ DOMAIN layout = DOMAIN plan.layout
        /\ \A i \in succeeded :
               StaleHit(i) \/ Hidden(i) \/ layout[PathOf(modules[i])] = clean[i]

\* Only a compilation in this build stores what it has read in the wrong place.
Trusted(s) ==
    \A i \in Items :
        fps[i] \in DOMAIN s =>
            \/ Unkeyed(i)
            \/ i \in succeeded /\ Hidden(i)
            \/ s[fps[i]] \in {clean[i], Malformed}

StoreInv == plan # NoPlan => Trusted(store)

BuildInv == IndInv /\ PlanInv /\ LayoutInv /\ StoreInv

\* The invariant says what is promised.
LEMMA BuildInvClean == BuildInv => BuildsAreClean
<1> SUFFICES ASSUME BuildInv, plan # NoPlan, NEW i \in Items
             PROVE  \/ Hidden(i)
                    \/ /\ i \in succeeded => StaleHit(i) \/ layout[PathOf(modules[i])] = clean[i]
                       /\ fps[i] \in DOMAIN store =>
                              Unkeyed(i) \/ store[fps[i]] \in {clean[i], Malformed}
  BY DEF BuildsAreClean
<1> QED BY DEF BuildInv, LayoutInv, StoreInv, Trusted

\* What the assumption on the plans says of the plan of a run.
LEMMA PlanShape ==
    ASSUME IndInv, PlanInv, plan # NoPlan
    PROVE  /\ WellFormed(plan.ws) /\ Acyclic(modules) /\ Items = DOMAIN modules
           /\ \A i \in Items :
                  /\ graph.deps[i] = modules[i].deps
                  /\ clean[i] # NoArtifacts
                  /\ \E q \in DOMAIN plan.ws.packages :
                         plan.ws.packages[q].name = modules[i].package
                  /\ \A q \in DOMAIN plan.ws.packages :
                         <<plan.ws.packages[q].name, modules[i].name>> \in DOMAIN plan.layout
                  /\ \A j \in Items : modules[i].name = modules[j].name => i = j
                  /\ \A j \in Items : fps[i] = fps[j] => i = j
<1>1. /\ WellFormed(plan.ws)
      /\ \A i \in DOMAIN modules :
             /\ clean[i] # NoArtifacts
             /\ \A q \in DOMAIN plan.ws.packages :
                    <<plan.ws.packages[q].name, modules[i].name>> \in DOMAIN plan.layout
  BY BuildAssumption DEF PlanInv
<1>2. Acyclic(modules)
  BY <1>1, WellFormedIsAcyclic DEF PlanInv
<1>3. Items = DOMAIN modules /\ \A i \in Items : graph.deps[i] = modules[i].deps
  <2>1. graph.deps \in [Items -> SUBSET Items] /\ graph.deps = [i \in DOMAIN modules |-> modules[i].deps]
    BY GraphShape DEF IndInv, TypeOK, PlanInv, DepsOf
  <2> QED BY <2>1
<1>4. \A i \in DOMAIN modules :
          /\ \E q \in DOMAIN plan.ws.packages : plan.ws.packages[q].name = modules[i].package
          /\ \A j \in DOMAIN modules : modules[i].name = modules[j].name => i = j
  BY <1>1 DEF WellFormed, PlanInv
<1>5. \A i \in DOMAIN modules : fps[i].name = modules[i].name
  <2> TAKE i \in DOMAIN modules
  <2>1. fps[i] = KeyOf(plan.ws, modules, fps, i)
    BY <1>2, FingerprintsEquation DEF PlanInv
  <2>2. KeyOf(plan.ws, modules, fps, i).name = modules[i].name
    BY DEF KeyOf
  <2> QED BY <2>1, <2>2
<1> QED BY <1>1, <1>2, <1>3, <1>4, <1>5

\* Whoever runs, all that it imports has succeeded.
LEMMA ImportsFirst ==
    ASSUME IndInv, PlanInv, plan # NoPlan, NEW i \in started
    PROVE  i \in Items /\ Closure(modules, i) \subseteq succeeded
<1>1. /\ Acyclic(modules) /\ Items = DOMAIN modules
      /\ \A j \in Items : graph.deps[j] = modules[j].deps
  BY PlanShape
<1>2. \A j \in started : j \in Items /\ modules[j].deps \subseteq succeeded
  <2> TAKE j \in started
  <2>1. j \in Items /\ remaining[j] = 0 /\ graph \in Graphs
    BY DEF IndInv, TypeOK, PlaceInv
  <2>2. Cardinality(graph.deps[j] \ succeeded) = 0
    BY <2>1 DEF IndInv, CountInv
  <2> QED BY <1>1, <2>1, <2>2, UnfinishedCount
<1>3. IsClosed(modules, succeeded)
  BY <1>2 DEF IsClosed, IndInv, TypeOK
<1> QED BY <1>1, <1>2, <1>3, ClosureIsLeast
-----------------------------------------------------------------------------
(* Steps. *)

ElsewhereSame(k) ==
    /\ DOMAIN layout' = DOMAIN layout
    /\ \A d \in DOMAIN layout : d # PathOf(modules[k]) => layout'[d] = layout[d]

\* What a job leaves is seen only by those that import its module.
LEMMA HiddenStays ==
    ASSUME IndInv, PlanInv, plan # NoPlan, DOMAIN layout = DOMAIN plan.layout,
           UNCHANGED <<plan, modules>>,
           NEW k \in Items, ElsewhereSame(k), NEW i \in Items, k \notin Closure(modules, i)
    PROVE  Hidden(i)' = Hidden(i)
<1> DEFINE path == LeanPath(plan.ws)
<1>1. /\ Acyclic(modules) /\ Items = DOMAIN modules
      /\ \A t \in Items :
             /\ \E q \in DOMAIN plan.ws.packages : plan.ws.packages[q].name = modules[t].package
             /\ \A q \in DOMAIN plan.ws.packages :
                    <<plan.ws.packages[q].name, modules[t].name>> \in DOMAIN layout
             /\ modules[t].name = modules[k].name => t = k
  BY PlanShape
<1>2. DOMAIN path = DOMAIN plan.ws.packages
      /\ \A q \in DOMAIN path : path[q] = plan.ws.packages[q].name
  BY DEF LeanPath
<1>3. ASSUME NEW t \in Closure(modules, i)
      PROVE  /\ layout'[PathOf(modules[t])] = layout[PathOf(modules[t])]
             /\ FoundIn(t)' = FoundIn(t)
  <2>1. t \in Items /\ t # k /\ modules[t].name # modules[k].name
    BY <1>1, ClosureIsLeast
  <2>2. \A q \in DOMAIN path :
            layout'[<<path[q], modules[t].name>>] = layout[<<path[q], modules[t].name>>]
    <3> TAKE q \in DOMAIN path
    <3>1. <<path[q], modules[t].name>> \in DOMAIN layout
      BY <1>1, <1>2, <2>1
    <3>2. <<path[q], modules[t].name>> # PathOf(modules[k])
      BY <2>1 DEF PathOf
    <3> QED BY <3>1, <3>2 DEF ElsewhereSame
  <2>3. layout'[PathOf(modules[t])] = layout[PathOf(modules[t])]
    <3>1. PICK q \in DOMAIN path : path[q] = modules[t].package
      BY <1>1, <1>2, <2>1
    <3> QED BY <2>2, <3>1 DEF PathOf
  <2>4. FoundIn(t)' = FoundIn(t)
    <3> DEFINE has == {q \in DOMAIN path : layout[<<path[q], modules[t].name>>] # NoArtifacts}
               has1 == {q \in DOMAIN path : layout'[<<path[q], modules[t].name>>] # NoArtifacts}
    <3>1. has1 = has
      BY <2>2
    <3>2. /\ FoundIn(t) = path[CHOOSE q \in has : \A r \in has : q <= r]
          /\ FoundIn(t)' = path[CHOOSE q \in has1 : \A r \in has1 : q <= r]
      BY DEF FoundIn
    <3> HIDE DEF has, has1, path
    <3> QED BY <3>1, <3>2
  <2> QED BY <2>3, <2>4
<1>4. \A j \in Closure(modules, i) \cup {i} : Closure(modules, j) \subseteq Closure(modules, i)
  BY <1>1, ClosureEquation
<1> QED BY <1>3, <1>4 DEF Hidden

\* What a job has to leave for the invariant to hold.
LEMMA JobKeepsInv ==
    ASSUME BuildInv, IndInv', plan # NoPlan, UNCHANGED <<graph, fixedVars>>,
           NEW k \in started, k \notin succeeded,
           succeeded' \in {succeeded, succeeded \cup {k}}, ElsewhereSame(k),
           k \in succeeded' => \/ StaleHit(k) \/ Hidden(k)
                               \/ layout'[PathOf(modules[k])] = clean[k],
           \A i \in Items :
               fps[i] \in DOMAIN store' =>
                   \/ Unkeyed(i)
                   \/ i \in succeeded' /\ Hidden(i)
                   \/ store'[fps[i]] \in {clean[i], Malformed}
    PROVE  BuildInv'
<1>1. /\ Acyclic(modules) /\ Items = DOMAIN modules
      /\ DOMAIN layout = DOMAIN plan.layout
      /\ \A i \in Items :
             /\ PathOf(modules[i]) \in DOMAIN layout
             /\ modules[i].name = modules[k].name => i = k
  <2>1. DOMAIN layout = DOMAIN plan.layout
    BY DEF BuildInv, LayoutInv
  <2>2. k \in Items
    BY ImportsFirst DEF BuildInv
  <2> QED BY <2>1, <2>2, PlanShape DEF BuildInv, PathOf
<1>2. k \in Items /\ succeeded \subseteq started /\ Items' = Items
  BY ImportsFirst DEF BuildInv, IndInv, TypeOK, Items
<1>3. ASSUME NEW i \in succeeded'
      PROVE  i \in Items /\ Hidden(i)' = Hidden(i)
  <2>1. i \in started
    BY <1>2
  <2>2. i \in Items /\ Closure(modules, i) \subseteq succeeded
    BY <2>1, ImportsFirst DEF BuildInv
  <2> QED BY <1>1, <1>2, <2>2, HiddenStays DEF BuildInv, fixedVars
<1>4. \A i : Unkeyed(i)' = Unkeyed(i) /\ StaleHit(i)' = StaleHit(i)
  BY DEF StaleHit, Looking, Unkeyed, InputsChanged, Moved, fixedVars
<1>5. PlanInv'
  BY DEF BuildInv, PlanInv, fixedVars
<1>6. LayoutInv'
  <2> SUFFICES ASSUME NEW i \in succeeded'
               PROVE  StaleHit(i) \/ Hidden(i) \/ layout'[PathOf(modules[i])] = clean[i]
    BY <1>1, <1>3, <1>4 DEF LayoutInv, ElsewhereSame, fixedVars
  <2>1. CASE i = k
    BY <2>1
  <2>2. CASE i # k
    <3>1. i \in succeeded /\ i \in Items /\ PathOf(modules[i]) # PathOf(modules[k])
      BY <1>1, <1>2, <1>3, <2>2 DEF PathOf
    <3>2. layout'[PathOf(modules[i])] = layout[PathOf(modules[i])]
      BY <1>1, <3>1 DEF ElsewhereSame
    <3> QED BY <3>1, <3>2 DEF BuildInv, LayoutInv
  <2> QED BY <2>1, <2>2
<1>7. StoreInv'
  <2> SUFFICES ASSUME NEW i \in Items, fps[i] \in DOMAIN store'
               PROVE  \/ Unkeyed(i)' \/ (i \in succeeded' /\ Hidden(i)')
                      \/ store'[fps[i]] \in {clean[i], Malformed}
    BY <1>2 DEF StoreInv, Trusted, fixedVars
  <2> QED BY <1>3, <1>4
<1> QED BY <1>5, <1>6, <1>7 DEF BuildInv

\* Where the plan's artifacts come from, a fingerprint of this build stands for its module.
LEMMA HonestManifests ==
    ASSUME NEW past, HonestPast(past), IndInv, PlanInv, plan # NoPlan, NEW i \in Items,
           NEW s \in {plan.store, plan.remote}, fps[i] \in DOMAIN s
    PROVE  Unkeyed(i) \/ s[fps[i]] \in {clean[i], Malformed}
<1>1. WellFormed(plan.ws) /\ Items = DOMAIN modules
  BY PlanShape
<1>2. /\ FromCleanBuilds(s, past)
      /\ \A ws \in past : WellFormed(ws) /\ SameInputs(ws, plan) /\ SameOwners(ws, plan)
  BY DEF HonestPast, PlanInv
<1>3. CASE s[fps[i]] = Malformed
  BY <1>3
<1>4. ASSUME NEW ws \in past, NEW i0 \in DOMAIN ModuleGraph(ws),
             fps[i] = Fingerprints(ws, ModuleGraph(ws))[i0],
             s[fps[i]] = CleanOutputs(ws, ModuleGraph(ws))[i0], ~Unkeyed(i)
      PROVE  s[fps[i]] = clean[i]
  <2>1. ~UnkeyedIn(plan, ModuleGraph(plan.ws), i)
    BY <1>4 DEF Unkeyed, InputsChanged, Moved, UnkeyedIn, PlanInv
  <2>2. i \in DOMAIN ModuleGraph(plan.ws)
        /\ fps[i] = Fingerprints(plan.ws, ModuleGraph(plan.ws))[i]
        /\ clean[i] = CleanOutputs(plan.ws, ModuleGraph(plan.ws))[i]
    BY <1>1 DEF PlanInv
  <2>3. Fingerprints(ws, ModuleGraph(ws))[i0] = Fingerprints(plan.ws, ModuleGraph(plan.ws))[i]
    BY <1>4, <2>2
  <2>4. WellFormed(ws) /\ SameInputs(ws, plan) /\ SameOwners(ws, plan)
    BY <1>2
  <2>5. CleanOutputs(ws, ModuleGraph(ws))[i0] = CleanOutputs(plan.ws, ModuleGraph(plan.ws))[i]
    BY <1>1, <2>1, <2>2, <2>3, <2>4, FingerprintsDetermineOutputs
  <2> QED BY <1>4, <2>2, <2>5
<1> QED BY <1>2, <1>3, <1>4 DEF FromCleanBuilds

\* What a fetch adds to the store is as good as the remote it comes from.
LEMMA FetchIsTrusted ==
    ASSUME NEW past, HonestPast(past), BuildInv, plan # NoPlan, NEW k \in Items,
           NEW s \in StoresAfterFetch(k)
    PROVE  Trusted(s)
<1>1. Trusted(store)
  BY DEF BuildInv, StoreInv
<1>2. ASSUME fps[k] \in DOMAIN plan.remote, s = Put(store, fps[k], plan.remote[fps[k]])
      PROVE  Trusted(s)
  <2>1. /\ DOMAIN s = {fps[k]} \cup DOMAIN store
        /\ \A f \in DOMAIN s : s[f] = IF f = fps[k] THEN plan.remote[f] ELSE store[f]
    BY <1>2 DEF Put
  <2>2. Unkeyed(k) \/ plan.remote[fps[k]] \in {clean[k], Malformed}
    BY <1>2, HonestManifests DEF BuildInv
  <2>3. \A i \in Items : fps[i] = fps[k] => i = k
    BY PlanShape DEF BuildInv
  <2> QED BY <1>1, <2>1, <2>2, <2>3 DEF Trusted
<1> QED BY <1>1, <1>2 DEF StoresAfterFetch
-----------------------------------------------------------------------------
(* The job. *)

\* The artifacts lean reads are those of a clean build, and so is what it makes of them.
LEMMA CompiledIsClean ==
    ASSUME BuildInv, plan # NoPlan, NEW k \in started, ~Hidden(k), ~StaleHit(k)
    PROVE  LeanOutput(plan.ws, modules, k, Loaded(k)) = clean[k]
<1>1. /\ Acyclic(modules) /\ Items = DOMAIN modules
      /\ \A i \in Items : clean[i] # NoArtifacts
      /\ clean = CleanOutputs(plan.ws, modules)
  BY PlanShape DEF BuildInv, PlanInv
<1>2. k \in Items /\ Closure(modules, k) \subseteq succeeded
  BY ImportsFirst DEF BuildInv
<1>3. Closure(modules, k) \subseteq Items
  BY <1>1, <1>2, ClosureIsLeast
<1>4. ASSUME NEW t \in Closure(modules, k) PROVE layout[PathOf(modules[t])] = clean[t]
  <2>1. Closure(modules, t) \cup {t} \subseteq Closure(modules, k)
    BY <1>1, <1>2, ClosureEquation
  <2>2. ~Hidden(t) /\ ~StaleHit(t)
    BY <2>1 DEF Hidden, StaleHit, Unkeyed
  <2> QED BY <1>2, <2>2 DEF BuildInv, LayoutInv
<1>5. ASSUME NEW t \in Closure(modules, k), t \notin modules[k].deps
      PROVE  <<FoundIn(t), modules[t].name>> = PathOf(modules[t])
  <2>1. layout[PathOf(modules[t])] # NoArtifacts
    BY <1>1, <1>3, <1>4
  <2>2. FoundIn(t) = modules[t].package
    BY <1>5, <2>1 DEF Hidden
  <2> QED BY <2>2 DEF PathOf
<1>6. Loaded(k) = [t \in Closure(modules, k) |-> clean[t]]
  <2>1. \A t \in Closure(modules, k) :
            (IF t \in modules[k].deps THEN layout[PathOf(modules[t])]
             ELSE layout[<<FoundIn(t), modules[t].name>>]) = clean[t]
    BY <1>4, <1>5
  <2> QED BY <2>1 DEF Loaded
<1>7. clean[k] = OutputOf(plan.ws, modules, clean, k)
  BY <1>1, <1>2, CleanOutputsEquation
<1> QED BY <1>6, <1>7 DEF OutputOf

\* Each module has a place of its own in the layout.
LEMMA LeavesElsewhere ==
    ASSUME BuildInv, plan # NoPlan, NEW k \in Items, NEW artifacts, Leaves(k, artifacts)
    PROVE  ElsewhereSame(k) /\ layout'[PathOf(modules[k])] = artifacts
<1>1. PathOf(modules[k]) \in DOMAIN layout
  BY PlanShape DEF BuildInv, LayoutInv, PathOf
<1> QED BY <1>1 DEF Leaves, ElsewhereSame

\* What a job that ends well leaves.
LEMMA GoodJob ==
    ASSUME NEW past, HonestPast(past), BuildInv, IndInv', plan # NoPlan,
           UNCHANGED <<graph, fixedVars>>, NEW k \in started, k \notin succeeded,
           succeeded' = succeeded \cup {k}, Materialize(k) \/ Compile(k)
    PROVE  BuildInv'
<1>1. k \in Items /\ \A i \in Items : fps[i] = fps[k] => i = k
  <2>1. k \in Items
    BY ImportsFirst DEF BuildInv
  <2> QED BY <2>1, PlanShape DEF BuildInv
<1>2. CASE Materialize(k)
  <2>1. PICK s \in StoresAfterFetch(k) : Hit(k, s) /\ store' = s /\ Leaves(k, s[fps[k]])
    BY <1>2 DEF Materialize
  <2>2. Trusted(s)
    BY <1>1, FetchIsTrusted
  <2>3. ElsewhereSame(k) /\ layout'[PathOf(modules[k])] = s[fps[k]]
    BY <1>1, <2>1, LeavesElsewhere
  <2>4. StaleHit(k) \/ s[fps[k]] = clean[k]
    BY <1>1, <2>1, <2>2 DEF Hit, Trusted, StaleHit
  <2>5. \A i \in Items :
            fps[i] \in DOMAIN store' =>
                \/ Unkeyed(i)
                \/ i \in succeeded' /\ Hidden(i)
                \/ store'[fps[i]] \in {clean[i], Malformed}
    BY <2>1, <2>2 DEF Trusted
  <2> QED BY <2>3, <2>4, <2>5, JobKeepsInv
<1>3. CASE Compile(k)
  <2> DEFINE output == LeanOutput(plan.ws, modules, k, Loaded(k))
  <2>1. PICK s \in StoresAfterFetch(k) :
            /\ Leaves(k, output)
            /\ store' = IF Caching THEN Put(s, fps[k], output) ELSE s
    BY <1>3 DEF Compile
  <2>2. StaleHit(k) \/ Hidden(k) \/ output = clean[k]
    BY CompiledIsClean
  <2> HIDE DEF output
  <2>3. Trusted(s)
    BY <1>1, FetchIsTrusted
  <2>4. ElsewhereSame(k) /\ layout'[PathOf(modules[k])] = output
    BY <1>1, <2>1, LeavesElsewhere
  <2>5. ASSUME NEW i \in Items, fps[i] \in DOMAIN store'
        PROVE  \/ Unkeyed(i)
               \/ i \in succeeded' /\ Hidden(i)
               \/ store'[fps[i]] \in {clean[i], Malformed}
    <3>1. CASE store' = s
      BY <2>3, <2>5, <3>1 DEF Trusted
    <3>2. CASE store' = Put(s, fps[k], output)
      <4>1. DOMAIN store' = DOMAIN s \cup {fps[k]}
            /\ store'[fps[k]] = output
            /\ \A f \in DOMAIN s : f # fps[k] => store'[f] = s[f]
        BY <3>2 DEF Put
      <4>2. CASE i = k
        BY <2>2, <4>1, <4>2 DEF StaleHit
      <4>3. CASE i # k
        BY <1>1, <2>3, <2>5, <4>1, <4>3 DEF Trusted
      <4> QED BY <4>2, <4>3
    <3> QED BY <2>1, <3>1, <3>2
  <2> QED BY <2>2, <2>4, <2>5, JobKeepsInv
<1> QED BY <1>2, <1>3

\* What a job that fails or breaks off leaves is of no account.
LEMMA BadJob ==
    ASSUME NEW past, HonestPast(past), BuildInv, IndInv', plan # NoPlan,
           UNCHANGED <<graph, fixedVars, succeeded>>, NEW k \in started, k \notin succeeded,
           FailLookup(k) \/ FailAndCleanUp(k) \/ FailInsert(k) \/ BreakOff(k)
    PROVE  BuildInv'
<1>1. k \in Items
  BY ImportsFirst DEF BuildInv
<1>2. store' \in StoresAfterFetch(k)
  BY DEF FailLookup, FailAndCleanUp, FailInsert, BreakOff
<1>3. ElsewhereSame(k)
  <2>1. UNCHANGED layout \/ \E artifacts : Leaves(k, artifacts)
    BY DEF FailLookup, FailAndCleanUp, FailInsert, BreakOff
  <2> QED BY <1>1, <2>1, LeavesElsewhere DEF ElsewhereSame
<1>4. Trusted(store')
  BY <1>1, <1>2, FetchIsTrusted
<1>5. \A i \in Items :
          fps[i] \in DOMAIN store' =>
              \/ Unkeyed(i)
              \/ i \in succeeded' /\ Hidden(i)
              \/ store'[fps[i]] \in {clean[i], Malformed}
  BY <1>4 DEF Trusted
<1> QED BY <1>3, <1>5, JobKeepsInv

\* A worker in its job holds an item that has not succeeded.
LEMMA JobHolds ==
    ASSUME IndInv, NEW w \in Workers, pc[w] = "job"
    PROVE  item[w] \in started \ succeeded
BY DEF IndInv, PlaceInv, Holders, Holding

\* A job keeps the invariant, however it ends.
LEMMA JobInv ==
    ASSUME NEW past, HonestPast(past), BuildInv, NEW w \in Workers, Job(w)
    PROVE  BuildInv'
<1> USE DEF stateVars
<1>1. UNCHANGED fixedVars /\ UNCHANGED graph
  BY DEF Job, JobStep, FinishOk, FinishError, Panic
<1>2. JobStep(w) /\ pc[w] = "job"
  BY DEF Job, JobStep, FinishOk, FinishError, Panic
<1>3. IndInv'
  BY <1>2, IndInvStep DEF Next, BuildInv
<1>4. item[w] \in started /\ item[w] \notin succeeded
  BY <1>2, JobHolds DEF BuildInv
<1>5. CASE plan = NoPlan
  BY <1>1, <1>3, <1>5 DEF BuildInv, PlanInv, LayoutInv, StoreInv, fixedVars
<1>6. CASE plan # NoPlan /\ FinishOk(w) /\ (Materialize(item[w]) \/ Compile(item[w]))
  <2>1. succeeded' = succeeded \cup {item[w]}
    BY <1>6 DEF FinishOk
  <2> QED BY <1>1, <1>3, <1>4, <1>6, <2>1, GoodJob
<1>7. CASE /\ plan # NoPlan /\ FinishError(w)
           /\ FailLookup(item[w]) \/ FailAndCleanUp(item[w]) \/ FailInsert(item[w])
  <2>1. UNCHANGED succeeded
    BY <1>7 DEF FinishError
  <2> QED BY <1>1, <1>3, <1>4, <1>7, <2>1, BadJob
<1>8. CASE plan # NoPlan /\ Panic(w) /\ BreakOff(item[w])
  <2>1. UNCHANGED succeeded
    BY <1>8 DEF Panic
  <2> QED BY <1>1, <1>3, <1>4, <1>8, <2>1, BadJob
<1> QED BY <1>5, <1>6, <1>7, <1>8 DEF Job

-----------------------------------------------------------------------------
(* The theorem. *)

\* What a build starts with.
LEMMA BuildInitInv ==
    ASSUME NEW past, HonestPast(past), BuildInit
    PROVE  BuildInv
<1>1. IndInv /\ succeeded = {}
  BY InitIndInv DEF BuildInit, Init
<1>2. CASE plan = NoPlan
  BY <1>1, <1>2 DEF BuildInv, PlanInv, LayoutInv, StoreInv
<1>3. CASE plan # NoPlan
  <2>1. PlanInv /\ layout = plan.layout /\ store = plan.store
    BY <1>3 DEF BuildInit, PlanInv
  <2>2. LayoutInv
    BY <1>1, <2>1 DEF LayoutInv
  <2>3. Trusted(store)
    BY <1>1, <1>3, <2>1, HonestManifests DEF Trusted
  <2> QED BY <1>1, <2>1, <2>2, <2>3 DEF BuildInv, StoreInv
<1> QED BY <1>2, <1>3

\* Only jobs touch the layout and the store.
LEMMA PoolInv ==
    ASSUME BuildInv, [Next]_poolVars, UNCHANGED <<graph, succeeded, buildVars>>
    PROVE  BuildInv'
<1>1. IndInv'
  BY IndInvStep DEF BuildInv
<1>2. \A i : /\ Hidden(i)' = Hidden(i)
            /\ Unkeyed(i)' = Unkeyed(i) /\ StaleHit(i)' = StaleHit(i)
  BY DEF Hidden, StaleHit, Looking, Unkeyed, InputsChanged, Moved, FoundIn, buildVars, fixedVars
<1>3. Items' = Items
  BY DEF Items
<1>4. PlanInv' /\ LayoutInv' /\ StoreInv'
  BY <1>2, <1>3 DEF BuildInv, PlanInv, LayoutInv, StoreInv, Trusted, buildVars, fixedVars
<1> QED BY <1>1, <1>4 DEF BuildInv

\* Every step of a build keeps the invariant.
LEMMA BuildNextInv ==
    ASSUME NEW past, HonestPast(past), BuildInv, [BuildNext]_<<poolVars, buildVars>>
    PROVE  BuildInv'
<1>1. ASSUME NEW w \in Workers, Job(w) PROVE BuildInv'
  BY <1>1, JobInv
<1>2. ASSUME NEW w \in Workers, PoolStep(w) \/ SpuriousWake(w), UNCHANGED buildVars
      PROVE  BuildInv'
  <2>1. UNCHANGED <<graph, succeeded>>
    BY <1>2 DEF PoolStep, Leave, Take, Exhausted, Sleep, Notify, OnDone, NotifyFailed, SpuriousWake
  <2> QED BY <1>2, <2>1, PoolInv DEF Next
<1>3. ASSUME Join \/ Returned, UNCHANGED buildVars
      PROVE  BuildInv'
  <2>1. UNCHANGED <<graph, succeeded>>
    BY <1>3 DEF Join, Returned, poolVars
  <2> QED BY <1>3, <2>1, PoolInv DEF Next
<1>4. ASSUME UNCHANGED <<poolVars, buildVars>>
      PROVE  BuildInv'
  <2>1. UNCHANGED <<graph, succeeded>>
    BY <1>4 DEF poolVars
  <2> QED BY <1>4, <2>1, PoolInv
<1> QED BY <1>1, <1>2, <1>3, <1>4 DEF BuildNext

\* A build is a run of the job pool, so all that is proved of the pool holds of it: each
\* job sees its imports settled, and no worker waits for ever unless a job panics.
THEOREM BuildIsPoolRun == BuildSpec => Spec
<1>1. BuildInit => Init
  BY DEF BuildInit
<1>2. [BuildNext]_<<poolVars, buildVars>> => [Next]_poolVars
  BY DEF BuildNext, Job, Next, JobStep, poolVars
<1> QED BY <1>1, <1>2, PTL DEF BuildSpec, Spec

\* Wherever the artifacts that a build starts with come from clean builds, what it has
\* built is what a clean build would give: for every workspace, whatever was built before
\* it, whatever the layout, the store and the remote have kept or lost, and in whatever
\* order the pool runs the jobs, some of which may fail or panic (compile.rs,
\* fingerprint.rs).
THEOREM CleanBuilds ==
    ASSUME NEW CONSTANT past, HonestPast(past)
    PROVE  BuildSpec => []BuildsAreClean
<1>1. BuildInit => BuildInv
  BY BuildInitInv
<1>2. BuildInv /\ [BuildNext]_<<poolVars, buildVars>> => BuildInv'
  BY BuildNextInv
<1>3. BuildInv => BuildsAreClean
  BY BuildInvClean
<1> QED BY <1>1, <1>2, <1>3, PTL DEF BuildSpec
=============================================================================
