----------------------- MODULE CheckScheduler_proofs -----------------------
(***************************************************************************)
(* Proofs about the worker pool for any number of workers and any graph:   *)
(* type correctness, the exactness of in_flight, that the gated table is   *)
(* always a valid sequential prefix (DependencyOrder), that the verdict is *)
(* the one the graph determines, and that the pool implements the          *)
(* sequential checker.                                                     *)
(***************************************************************************)
EXTENDS CheckScheduler, BasicLemmas, FiniteSetTheorems, TLAPS

-----------------------------------------------------------------------------
(* The inductive invariant. *)

\* The dependencies of t that have not decremented its counter.
Unreleased(t) == {d \in graph.deps[t] : d \notin Tasks \/ t \notin released[d]}

Finishing == {"decrement", "complete"}
Settled == {"publish", "tally"} \cup Finishing

\* A busy worker has a task, and the lists of an idle worker are empty.
LocalsInv ==
    \A w \in Workers :
        /\ pc[w] \in Busy => task[w] \in Tasks
        /\ pc[w] \notin Finishing => newly[w] = << >>
        /\ pc[w] = "decrement" => rest[w] = Dependents(task[w]) \ released[task[w]]

\* The counter of a task is the number of dependencies still to come.
CountingInv == \A t \in Tasks : pending[t] = Cardinality(Unreleased(t))

\* A task that is queued, held or about to be queued waits for nothing.
ReadyInv ==
    /\ \A t \in Elements(queue) : pending[t] = 0
    /\ \A w \in Workers : \A t \in Elements(newly[w]) : pending[t] = 0
    /\ \A w \in Workers : pc[w] \in Busy => pending[task[w]] = 0

\* Every task is in at most one place: queued once, held by one worker, or
\* in the list of one worker.
UniqueInv ==
    /\ Injective(queue)
    /\ \A w \in Workers :
           /\ Injective(newly[w])
           /\ Elements(newly[w]) \cap Elements(queue) = {}
           /\ pc[w] \in Busy => task[w] \notin Elements(queue)
    /\ \A w, v \in Workers :
           /\ w # v => Elements(newly[w]) \cap Elements(newly[v]) = {}
           /\ pc[w] \in Busy => task[w] \notin Elements(newly[v])
           /\ w # v /\ pc[w] \in Busy /\ pc[v] \in Busy => task[w] # task[v]

\* A task decrements nothing before its own run is over.
FreshInv ==
    /\ \A t \in Tasks : pending[t] > 0 => released[t] = {}
    /\ \A t \in Elements(queue) : released[t] = {}
    /\ \A w \in Workers : \A t \in Elements(newly[w]) : released[t] = {}
    /\ \A w \in Workers : pc[w] \in Busy \ Finishing => released[task[w]] = {}

\* Flags are set by ready tasks, in order, and before any decrement.
AdmittedInv ==
    /\ \A t \in Tasks : NamesOf(graph, t) \cap admitted # {} => pending[t] = 0
    /\ \A t \in Tasks : released[t] # {} => Flipped(t)
    /\ \A w \in Workers : pc[w] \in Settled => Flipped(task[w])
    /\ \A w \in Workers : pc[w] = "admit" =>
           /\ next[w] \in 1 .. Len(graph.flips[task[w]])
           /\ \A i \in 1 .. next[w] - 1 : graph.flips[task[w]][i] \in admitted

PoolInv == LocalsInv /\ CountingInv /\ ReadyInv /\ UniqueInv /\ FreshInv /\ AdmittedInv

IndInv == TypeOK /\ InFlightExact /\ PoolInv

-----------------------------------------------------------------------------
(* Facts about graphs. *)

\* The graph under check has the shape GraphsAssumption gives it.
LEMMA GraphShape ==
    ASSUME graph \in Graphs
    PROVE  /\ graph.size \in Nat /\ Tasks = 1 .. graph.size /\ Tasks \subseteq Nat
           /\ IsFiniteSet(Tasks)
           /\ graph.deps \in [Tasks -> SUBSET Nat]
           /\ \A t \in Tasks : IsFiniteSet(graph.deps[t])
           /\ graph.flips \in [Tasks -> Seq(Nat)]
           /\ \A t \in Tasks : Len(graph.flips[t]) \in Nat \ {0}
           /\ \A t, u \in Tasks : t # u => NamesOf(graph, t) \cap NamesOf(graph, u) = {}
           /\ graph.content \in [Tasks -> Contents]
           /\ graph.quot \in [Tasks -> BOOLEAN]
           /\ graph.units \in [Tasks -> Nat]
<1>1. Tasks = 1 .. graph.size /\ graph.size \in Nat /\ Tasks \subseteq Nat
  BY GraphsAssumption DEF IsGraph, Tasks, TasksOf
<1>2. IsFiniteSet(Tasks)
  BY <1>1, FS_Interval
<1>3. \A t \in Tasks : Len(graph.flips[t]) \in Nat \ {0}
  <2> SUFFICES ASSUME NEW t \in Tasks PROVE Len(graph.flips[t]) \in Nat \ {0}
    OBVIOUS
  <2>1. graph.flips[t] \in Seq(Nat) /\ graph.flips[t] # << >>
    BY GraphsAssumption DEF IsGraph, Tasks
  <2> QED BY <2>1
<1> QED BY <1>1, <1>2, <1>3, GraphsAssumption DEF IsGraph, Tasks

\* Counting the dependencies still to come: none are left exactly at zero,
\* and removing one of them counts one less.
LEMMA UnreleasedCount ==
    ASSUME graph \in Graphs, NEW t \in Tasks
    PROVE  /\ IsFiniteSet(Unreleased(t)) /\ Cardinality(Unreleased(t)) \in Nat
           /\ Cardinality(Unreleased(t)) = 0 => Unreleased(t) = {}
<1>1. IsFiniteSet(graph.deps[t])
  BY GraphShape
<1>2. IsFiniteSet(Unreleased(t))
  BY <1>1, FS_Subset DEF Unreleased
<1> QED BY <1>2, FS_CardinalityType, FS_EmptySet

\* Every task has a name.
LEMMA NamesExist ==
    ASSUME graph \in Graphs, NEW t \in Tasks
    PROVE  NamesOf(graph, t) # {}
<1>1. Len(graph.flips[t]) \in Nat \ {0}
  BY GraphShape
<1>2. graph.flips[t][1] \in NamesOf(graph, t)
  BY <1>1 DEF NamesOf
<1> QED BY <1>2

-----------------------------------------------------------------------------
(* The initial states. *)

LEMMA InitIndInv == Init => IndInv
<1> SUFFICES ASSUME Init PROVE IndInv
  OBVIOUS
<1>1. graph \in Graphs
  BY DEF Init
<1> USE GraphShape, <1>1
<1>2. queue \in [1 .. Cardinality(Roots(graph)) -> Roots(graph)]
      /\ \A i, j \in DOMAIN queue : i < j => queue[i] < queue[j]
  BY DEF Init, Seeds
<1>3. Roots(graph) \subseteq Tasks /\ IsFiniteSet(Roots(graph))
  BY FS_Subset DEF Roots, Tasks
<1>4. Cardinality(Roots(graph)) \in Nat
  BY <1>3, FS_CardinalityType
<1>5. queue \in Seq(Tasks) /\ Len(queue) = Cardinality(Roots(graph))
  BY <1>2, <1>3, <1>4
<1>6. Elements(queue) \subseteq Roots(graph)
  BY <1>2, <1>5 DEF Elements
<1>7. Injective(queue)
  <2> SUFFICES ASSUME NEW i \in 1 .. Len(queue), NEW j \in 1 .. Len(queue), i # j
               PROVE  queue[i] # queue[j]
    BY DEF Injective
  <2>1. queue[i] \in Nat /\ queue[j] \in Nat
    BY <1>5
  <2>2. DOMAIN queue = 1 .. Len(queue)
    BY <1>5
  <2>3. i < j => queue[i] < queue[j]
    BY <1>2, <2>2
  <2>4. j < i => queue[j] < queue[i]
    BY <1>2, <2>2
  <2>5. i \in Nat /\ j \in Nat
    BY <1>4, <1>5
  <2> QED BY <2>1, <2>3, <2>4, <2>5
<1>8. \A t \in Tasks : Unreleased(t) = graph.deps[t]
  BY DEF Init, Unreleased
<1>9. \A t \in Tasks : pending[t] = Cardinality(Unreleased(t))
  BY <1>8 DEF Init, InitialPending
<1>10. \A t \in Tasks : pending[t] \in Nat
  BY <1>9, UnreleasedCount
<1>11. pending \in [Tasks -> Nat]
  BY <1>10 DEF Init
<1>12. TypeOK
  <2>1. pc \in [Workers -> Locations]
    BY DEF Init, Locations
  <2>2. error \in [Workers -> Contents \cup {"unknown_constant"}]
    BY DEF Init, Contents
  <2>3. newly \in [Workers -> Seq(Tasks)]
    BY DEF Init
  <2>4. /\ task \in [Workers -> Tasks \cup {0}] /\ sawQuot \in [Workers -> BOOLEAN]
        /\ next \in [Workers -> Nat] /\ rest \in [Workers -> SUBSET Tasks]
        /\ reported \in [Workers -> Nat] /\ released \in [Tasks -> SUBSET Tasks]
    BY DEF Init
  <2>5. /\ inFlight \in Nat /\ done \in Nat /\ lock \in Workers \cup {NoOne}
        /\ cancelled \in BOOLEAN /\ failure \in Failures \cup {NoFailure}
        /\ checked \in Nat /\ admitted \subseteq Nat /\ quotInitialized \in BOOLEAN
        /\ result \in Results \cup {Running}
    BY DEF Init
  <2> QED BY <1>1, <1>5, <1>11, <2>1, <2>2, <2>3, <2>4, <2>5 DEF TypeOK
<1>13. InFlightExact
  <2>1. {w \in Workers : pc[w] \in Busy} = {}
    BY DEF Init, Busy
  <2> QED BY <2>1, FS_EmptySet DEF InFlightExact, Init
<1>14. LocalsInv
  BY DEF LocalsInv, Init, Busy, Finishing
<1>15. CountingInv
  BY <1>9 DEF CountingInv
<1>16. \A t \in Elements(queue) : pending[t] = 0 /\ released[t] = {}
  BY <1>3, <1>6, <1>8, <1>9, FS_EmptySet DEF Roots, Init
<1>17. \A w \in Workers : newly[w] = << >> /\ pc[w] = "acquire"
  BY DEF Init
<1>18. ReadyInv
  BY <1>16, <1>17, EmptyElements DEF ReadyInv, Busy
<1>19. UniqueInv
  BY <1>7, <1>17, EmptyElements DEF UniqueInv, Busy
<1>20. FreshInv
  BY <1>16, <1>17, EmptyElements DEF FreshInv, Busy, Init
<1>21. AdmittedInv
  BY <1>17 DEF AdmittedInv, Settled, Finishing, Init
<1> QED
  BY <1>12, <1>13, <1>14, <1>15, <1>18, <1>19, <1>20, <1>21 DEF IndInv, PoolInv

-----------------------------------------------------------------------------
(* Steps that move no task: only program counters, the mutex, flags and    *)
(* worker-local results change.                                            *)

LEMMA QuietStep ==
    ASSUME IndInv,
           UNCHANGED <<graph, pending, queue, rest, newly, released, admitted, task>>,
           \A w \in Workers :
               /\ pc'[w] \in Busy => pc[w] \in Busy
               /\ pc'[w] \in Finishing <=> pc[w] \in Finishing
               /\ pc'[w] = "decrement" => pc[w] = "decrement"
               /\ pc'[w] \in Settled => pc[w] \in Settled
               /\ pc'[w] = "admit" => \/ pc[w] = "admit" /\ next'[w] = next[w]
                                      \/ next'[w] = 1
    PROVE  PoolInv'
<1> USE DEF IndInv, PoolInv
<1>1. Tasks' = Tasks /\ graph \in Graphs
  BY DEF Tasks, TypeOK
<1>2. \A t \in Tasks : Unreleased(t)' = Unreleased(t)
  BY <1>1 DEF Unreleased
<1>3. LocalsInv'
  BY <1>1 DEF LocalsInv, Dependents
<1>4. CountingInv'
  BY <1>1, <1>2 DEF CountingInv
<1>5. ReadyInv'
  BY DEF ReadyInv
<1>6. UniqueInv'
  BY DEF UniqueInv
<1>7. FreshInv'
  BY <1>1 DEF FreshInv
<1>8. AdmittedInv'
  <2>1. \A t \in Tasks : NamesOf(graph, t) \cap admitted' # {} => pending'[t] = 0
    BY DEF AdmittedInv
  <2>2. \A t \in Tasks : released'[t] # {} => Flipped(t)'
    BY DEF AdmittedInv, Flipped
  <2>3. \A w \in Workers : pc'[w] \in Settled => Flipped(task[w])'
    BY DEF AdmittedInv, Flipped
  <2>4. ASSUME NEW w \in Workers, pc'[w] = "admit"
        PROVE  /\ next'[w] \in 1 .. Len(graph.flips[task[w]])
               /\ \A i \in 1 .. next'[w] - 1 : graph.flips[task[w]][i] \in admitted
    <3>1. CASE pc[w] = "admit" /\ next'[w] = next[w]
      BY <3>1 DEF AdmittedInv
    <3>2. CASE next'[w] = 1
      <4>1. task[w] \in Tasks
        BY <2>4 DEF LocalsInv, Busy
      <4> QED BY <1>1, <3>2, <4>1, GraphShape
    <3> QED BY <2>4, <3>1, <3>2
  <2> QED BY <1>1, <2>1, <2>2, <2>3, <2>4 DEF AdmittedInv
<1> QED BY <1>3, <1>4, <1>5, <1>6, <1>7, <1>8

-----------------------------------------------------------------------------
(* in_flight. *)

BusyWorkers == {w \in Workers : pc[w] \in Busy}

LEMMA BusyCount ==
    /\ IsFiniteSet(BusyWorkers)
    /\ \A w \in BusyWorkers : Cardinality(BusyWorkers \ {w}) = Cardinality(BusyWorkers) - 1
    /\ \A w \in Workers \ BusyWorkers :
           Cardinality(BusyWorkers \cup {w}) = Cardinality(BusyWorkers) + 1
    /\ \A w \in BusyWorkers : Cardinality(BusyWorkers) \in Nat \ {0}
<1>1. IsFiniteSet(BusyWorkers)
  BY WorkersAssumption, FS_Subset DEF BusyWorkers
<1>2. \A w \in BusyWorkers : Cardinality(BusyWorkers) # 0
  BY <1>1, FS_EmptySet
<1> QED BY <1>1, <1>2, FS_CardinalityType, FS_AddElement, FS_RemoveElement

\* Pop adds its worker to the busy ones, Complete and Bail take theirs away,
\* and no other step changes who is busy.
LEMMA InFlightStep == IndInv /\ [Next]_vars => InFlightExact'
<1> SUFFICES ASSUME IndInv, [Next]_vars PROVE InFlightExact'
  OBVIOUS
<1> USE DEF IndInv, NotifyAllAndGoto, Goto, poolVars, tableVars, localVars
<1>0. pc \in [Workers -> Locations] /\ inFlight = Cardinality(BusyWorkers)
  BY DEF TypeOK, InFlightExact, BusyWorkers
<1>1. ASSUME BusyWorkers' = BusyWorkers, inFlight' = inFlight PROVE InFlightExact'
  BY <1>0, <1>1 DEF InFlightExact, BusyWorkers
<1>2. CASE UNCHANGED vars
  BY <1>1, <1>2 DEF vars, BusyWorkers
<1>3. ASSUME NEW w \in Workers, Pop(w) PROVE InFlightExact'
  <2>1. w \in Workers \ BusyWorkers /\ BusyWorkers' = BusyWorkers \cup {w}
    BY <1>0, <1>3 DEF Pop, BusyWorkers, Busy
  <2> QED BY <1>0, <1>3, <2>1, BusyCount DEF Pop, InFlightExact, BusyWorkers
<1>4. ASSUME NEW w \in Workers, Complete(w) \/ Bail(w) PROVE InFlightExact'
  <2>1. w \in BusyWorkers /\ BusyWorkers' = BusyWorkers \ {w}
    BY <1>0, <1>4 DEF Complete, Bail, BusyWorkers, Busy
  <2>2. inFlight' = inFlight - 1
    BY <1>4 DEF Complete, Bail
  <2> QED BY <1>0, <2>1, <2>2, BusyCount DEF InFlightExact, BusyWorkers
<1>5. ASSUME NEW w \in Workers, Acquire(w) \/ Wait(w) \/ SpuriousWake(w) \/ Drain(w)
      PROVE  InFlightExact'
  <2>1. BusyWorkers' = BusyWorkers
    BY <1>0, <1>5 DEF Acquire, Wait, SpuriousWake, Drain, BusyWorkers, Busy
  <2> QED BY <1>1, <1>5, <2>1 DEF Acquire, Wait, SpuriousWake, Drain
<1>6. ASSUME NEW w \in Workers,
             BuildView(w) \/ CheckTask(w) \/ Admit(w) \/ PublishQuot(w) \/ Tally(w)
      PROVE  InFlightExact'
  <2>1. BusyWorkers' = BusyWorkers
    BY <1>0, <1>6 DEF BuildView, CheckTask, Admit, PublishQuot, Tally, BusyWorkers, Busy
  <2> QED BY <1>1, <1>6, <2>1 DEF BuildView, CheckTask, Admit, PublishQuot, Tally
<1>7. ASSUME NEW w \in Workers,
             Decrement(w) \/ Progress(w) \/ RecordFailure(w) \/ Cancel(w)
      PROVE  InFlightExact'
  <2>1. BusyWorkers' = BusyWorkers
    BY <1>0, <1>7 DEF Decrement, Progress, RecordFailure, Cancel, BusyWorkers, Busy
  <2> QED BY <1>1, <1>7, <2>1 DEF Decrement, Progress, RecordFailure, Cancel
<1>8. CASE Join
  BY <1>1, <1>8 DEF Join, BusyWorkers
<1>9. CASE Returned
  BY <1>2, <1>9 DEF Returned
<1> QED BY <1>2, <1>3, <1>4, <1>5, <1>6, <1>7, <1>8, <1>9 DEF Next, Step

-----------------------------------------------------------------------------
(* Steps that move a task. *)

\* A worker takes the head of the queue: the queue held it once.
LEMMA PopStep ==
    ASSUME IndInv, NEW w \in Workers, Pop(w)
    PROVE  PoolInv'
<1> USE DEF IndInv, PoolInv
<1>1. /\ queue \in Seq(Tasks) /\ queue # << >> /\ Injective(queue)
      /\ Elements(queue') = Elements(queue) \ {Head(queue)}
      /\ Injective(queue') /\ Head(queue) \in Elements(queue) /\ Head(queue) \in Tasks
  BY TailElements DEF Pop, TypeOK, UniqueInv
<1>2. /\ task' = [task EXCEPT ![w] = Head(queue)] /\ pc' = [pc EXCEPT ![w] = "view"]
      /\ pc[w] = "choose"
      /\ UNCHANGED <<graph, pending, rest, newly, released, admitted, next>>
  BY DEF Pop, Goto, tableVars
<1>3. /\ pc \in [Workers -> Locations] /\ task \in [Workers -> Tasks \cup {0}]
      /\ graph \in Graphs /\ Tasks' = Tasks
  BY <1>2 DEF TypeOK, Tasks
<1>4. \A t \in Tasks : Unreleased(t)' = Unreleased(t)
  BY <1>2, <1>3 DEF Unreleased
<1>5. LocalsInv'
  <2> SUFFICES ASSUME NEW v \in Workers
               PROVE  /\ pc'[v] \in Busy => task'[v] \in Tasks
                      /\ pc'[v] \notin Finishing => newly'[v] = << >>
                      /\ pc'[v] = "decrement" =>
                             rest'[v] = Dependents(task[v])' \ released'[task'[v]]
    BY <1>3 DEF LocalsInv
  <2>1. CASE v = w
    BY <1>1, <1>2, <1>3, <2>1 DEF LocalsInv, Finishing
  <2>2. CASE v # w
    BY <1>2, <1>3, <2>2 DEF LocalsInv, Dependents
  <2> QED BY <2>1, <2>2
<1>6. CountingInv'
  BY <1>2, <1>3, <1>4 DEF CountingInv
<1>7. ReadyInv'
  BY <1>1, <1>2, <1>3 DEF ReadyInv
<1>8. UniqueInv'
  <2>1. /\ task'[w] = Head(queue) /\ task'[w] \notin Elements(queue')
        /\ \A v \in Workers \ {w} : pc'[v] = pc[v] /\ task'[v] = task[v]
    BY <1>1, <1>2, <1>3
  <2>2. \A v \in Workers : /\ Head(queue) \notin Elements(newly[v])
                           /\ v # w /\ pc[v] \in Busy => task[v] # Head(queue)
    BY <1>1 DEF UniqueInv
  <2>3. \A v \in Workers :
           /\ Injective(newly'[v])
           /\ Elements(newly'[v]) \cap Elements(queue') = {}
           /\ pc'[v] \in Busy => task'[v] \notin Elements(queue')
    BY <1>1, <1>2, <2>1 DEF UniqueInv
  <2>4. \A u, v \in Workers :
           /\ u # v => Elements(newly'[u]) \cap Elements(newly'[v]) = {}
           /\ pc'[u] \in Busy => task'[u] \notin Elements(newly'[v])
           /\ u # v /\ pc'[u] \in Busy /\ pc'[v] \in Busy => task'[u] # task'[v]
    BY <1>2, <2>1, <2>2 DEF UniqueInv
  <2> QED BY <1>1, <2>3, <2>4 DEF UniqueInv
<1>9. FreshInv'
  BY <1>1, <1>2, <1>3 DEF FreshInv
<1>10. AdmittedInv'
  BY <1>2, <1>3 DEF AdmittedInv, Flipped, Settled, Finishing
<1> QED BY <1>5, <1>6, <1>7, <1>8, <1>9, <1>10

\* One more flag of a ready task is set; after the last one all are.
LEMMA AdmitStep ==
    ASSUME IndInv, NEW w \in Workers, Admit(w)
    PROVE  PoolInv'
<1> USE DEF IndInv, PoolInv
<1> DEFINE t == task[w]
           names == graph.flips[t]
<1>1. /\ pc[w] = "admit" /\ t \in Tasks /\ pending[t] = 0
      /\ graph \in Graphs /\ Tasks' = Tasks
      /\ pc \in [Workers -> Locations] /\ next \in [Workers -> Nat]
  BY DEF Admit, LocalsInv, ReadyInv, TypeOK, Busy, Tasks
<1>2. /\ admitted' = admitted \cup {names[next[w]]}
      /\ UNCHANGED <<graph, pending, queue, rest, newly, released, task>>
  BY DEF Admit, poolVars
<1>3. /\ next[w] \in 1 .. Len(names) /\ Len(names) \in Nat
      /\ \A i \in 1 .. next[w] - 1 : names[i] \in admitted
  BY <1>1, GraphShape DEF AdmittedInv
<1>4. \/ /\ next[w] < Len(names) /\ pc' = pc /\ next' = [next EXCEPT ![w] = next[w] + 1]
      \/ /\ next[w] = Len(names) /\ next' = [next EXCEPT ![w] = 1]
         /\ pc' = [pc EXCEPT ![w] = IF graph.quot[t] THEN "publish" ELSE "tally"]
  BY <1>3 DEF Admit, Goto
<1>5. /\ \A v \in Workers \ {w} : pc'[v] = pc[v] /\ next'[v] = next[v]
      /\ pc'[w] \in {"admit", "publish", "tally"}
  BY <1>1, <1>4
<1>6. \A u \in Tasks : Unreleased(u)' = Unreleased(u)
  BY <1>1, <1>2 DEF Unreleased
<1>7. LocalsInv'
  BY <1>1, <1>2, <1>5 DEF LocalsInv, Dependents, Busy, Finishing
<1>8. CountingInv'
  BY <1>1, <1>2, <1>6 DEF CountingInv
<1>9. ReadyInv'
  BY <1>1, <1>2, <1>5 DEF ReadyInv, Busy
<1>10. UniqueInv'
  BY <1>1, <1>2, <1>5 DEF UniqueInv, Busy
<1>11. FreshInv'
  BY <1>1, <1>2, <1>5 DEF FreshInv, Busy, Finishing
<1>12. AdmittedInv'
  <2>1. ASSUME NEW u \in Tasks, NamesOf(graph, u) \cap admitted' # {}
        PROVE  pending'[u] = 0
    <3>1. CASE u = t
      BY <1>1, <1>2, <3>1
    <3>2. CASE u # t
      <4>1. names[next[w]] \in NamesOf(graph, t)
        BY <1>3 DEF NamesOf
      <4>2. names[next[w]] \notin NamesOf(graph, u)
        BY <1>1, <3>2, <4>1, GraphShape
      <4> QED BY <1>2, <2>1, <4>2 DEF AdmittedInv
    <3> QED BY <3>1, <3>2
  <2>2. \A u \in Tasks : released'[u] # {} => Flipped(u)'
    BY <1>2 DEF AdmittedInv, Flipped
  <2>3. \A v \in Workers \ {w} : pc'[v] \in Settled => Flipped(task[v])'
    BY <1>2, <1>5 DEF AdmittedInv, Flipped
  <2>4. ASSUME pc'[w] # "admit" PROVE Flipped(t)'
    <3>1. next[w] = Len(names)
      BY <1>1, <1>4, <2>4
    <3>2. \A i \in 1 .. Len(names) : names[i] \in admitted'
      BY <1>2, <1>3, <3>1
    <3> QED BY <1>2, <3>2 DEF Flipped, NamesOf
  <2>5. ASSUME NEW v \in Workers, pc'[v] = "admit"
        PROVE  /\ next'[v] \in 1 .. Len(graph.flips[task[v]])
               /\ \A i \in 1 .. next'[v] - 1 : graph.flips[task[v]][i] \in admitted'
    <3>1. CASE v = w
      <4>1. next[w] < Len(names) /\ next'[w] = next[w] + 1
        BY <1>1, <1>4, <2>5, <3>1
      <4>2. next'[w] \in 1 .. Len(names) /\ next'[w] - 1 = next[w]
        BY <1>3, <4>1
      <4>3. \A i \in 1 .. next[w] : i \in 1 .. next[w] - 1 \/ i = next[w]
        BY <1>3
      <4>4. \A i \in 1 .. next[w] : names[i] \in admitted'
        BY <1>2, <1>3, <4>3
      <4> QED BY <3>1, <4>2, <4>4
    <3>2. CASE v # w
      BY <1>2, <1>5, <2>5, <3>2 DEF AdmittedInv
    <3> QED BY <3>1, <3>2
  <2>6. "admit" \notin Settled
    BY DEF Settled, Finishing
  <2> QED BY <1>1, <1>2, <2>1, <2>2, <2>3, <2>4, <2>5, <2>6 DEF AdmittedInv
<1> QED BY <1>7, <1>8, <1>9, <1>10, <1>11, <1>12

\* The worker starts on its dependents: it has decremented none of them.
LEMMA TallyStep ==
    ASSUME IndInv, NEW w \in Workers, Tally(w)
    PROVE  PoolInv'
<1> USE DEF IndInv, PoolInv
<1>1. /\ pc[w] = "tally" /\ task[w] \in Tasks /\ released[task[w]] = {} /\ newly[w] = << >>
      /\ graph \in Graphs /\ Tasks' = Tasks /\ pc \in [Workers -> Locations]
      /\ newly \in [Workers -> Seq(Tasks)] /\ rest \in [Workers -> SUBSET Tasks]
  BY DEF Tally, LocalsInv, FreshInv, TypeOK, Busy, Finishing, Tasks
<1>2. /\ rest' = [rest EXCEPT ![w] = Dependents(task[w])] /\ newly' = newly
      /\ UNCHANGED <<graph, pending, queue, released, task, admitted, next>>
      /\ pc' = [pc EXCEPT ![w] = IF Dependents(task[w]) = {} THEN "complete"
                                 ELSE "decrement"]
  BY <1>1 DEF Tally, Goto, poolVars, tableVars
<1>3. pc'[w] \in Finishing /\ \A v \in Workers \ {w} : pc'[v] = pc[v] /\ rest'[v] = rest[v]
  BY <1>1, <1>2 DEF Finishing
<1>4. \A u \in Tasks : Unreleased(u)' = Unreleased(u)
  BY <1>1, <1>2 DEF Unreleased
<1>5. LocalsInv'
  BY <1>1, <1>2, <1>3 DEF LocalsInv, Dependents, Busy, Finishing
<1>6. CountingInv'
  BY <1>1, <1>2, <1>4 DEF CountingInv
<1>7. ReadyInv'
  BY <1>1, <1>2, <1>3 DEF ReadyInv, Busy
<1>8. UniqueInv'
  BY <1>1, <1>2, <1>3 DEF UniqueInv, Busy
<1>9. FreshInv'
  BY <1>1, <1>2, <1>3 DEF FreshInv
<1>10. AdmittedInv'
  BY <1>1, <1>2, <1>3 DEF AdmittedInv, Flipped, Settled, Finishing
<1> QED BY <1>5, <1>6, <1>7, <1>8, <1>9, <1>10

\* One edge is released: the counter of the dependent drops by one, and at
\* zero this worker alone takes the dependent into its list.
LEMMA DecrementStep ==
    ASSUME IndInv, NEW w \in Workers, Decrement(w)
    PROVE  PoolInv' /\ pending' \in [Tasks -> Nat]
<1> USE DEF IndInv, PoolInv
<1>1. PICK u \in rest[w] :
          /\ pending' = [pending EXCEPT ![u] = pending[u] - 1]
          /\ newly' = [newly EXCEPT ![w] = IF pending[u] = 1 THEN Append(newly[w], u)
                                           ELSE newly[w]]
          /\ rest' = [rest EXCEPT ![w] = rest[w] \ {u}]
          /\ released' = [released EXCEPT ![task[w]] = released[task[w]] \cup {u}]
          /\ pc' = [pc EXCEPT ![w] = IF rest[w] = {u} THEN "complete" ELSE "decrement"]
  BY DEF Decrement, Goto
<1> DEFINE d == task[w]
<1>2. /\ pc[w] = "decrement" /\ d \in Tasks /\ rest[w] = Dependents(d) \ released[d]
      /\ graph \in Graphs /\ Tasks' = Tasks /\ pc \in [Workers -> Locations]
      /\ UNCHANGED <<graph, queue, task, admitted, next>>
      /\ pending \in [Tasks -> Nat] /\ newly \in [Workers -> Seq(Tasks)]
      /\ rest \in [Workers -> SUBSET Tasks] /\ released \in [Tasks -> SUBSET Tasks]
  BY DEF Decrement, LocalsInv, TypeOK, Busy, Tasks, poolVars, tableVars
<1>3. u \in Tasks /\ d \in graph.deps[u] /\ u \notin released[d] /\ d \in Unreleased(u)
  BY <1>1, <1>2 DEF Dependents, Unreleased
<1>4. \A x \in Tasks : Unreleased(x)' = IF x = u THEN Unreleased(u) \ {d} ELSE Unreleased(x)
  BY <1>1, <1>2, <1>3 DEF Unreleased
<1>5. /\ pending[u] \in Nat \ {0}
      /\ pending[u] - 1 = Cardinality(Unreleased(u) \ {d})
  <2>1. IsFiniteSet(Unreleased(u)) /\ pending[u] = Cardinality(Unreleased(u))
    BY <1>2, <1>3, UnreleasedCount DEF CountingInv
  <2>2. Cardinality(Unreleased(u) \ {d}) = Cardinality(Unreleased(u)) - 1
    BY <1>3, <2>1, FS_RemoveElement
  <2>3. Cardinality(Unreleased(u) \ {d}) \in Nat
    BY <2>1, FS_RemoveElement, FS_CardinalityType
  <2> QED BY <1>2, <1>3, <2>1, <2>2, <2>3
<1>6. pending' \in [Tasks -> Nat]
  BY <1>1, <1>2, <1>3, <1>5
\* Nobody else knows u: it was still waiting.
<1>7. /\ u \notin Elements(queue) /\ \A v \in Workers : u \notin Elements(newly[v])
      /\ \A v \in Workers : pc[v] \in Busy => task[v] # u
      /\ released[u] = {} /\ NamesOf(graph, u) \cap admitted = {}
  <2>1. pending[u] # 0 /\ pending[u] > 0
    BY <1>5
  <2>2. u \notin Elements(queue) /\ \A v \in Workers : u \notin Elements(newly[v])
    BY <2>1 DEF ReadyInv
  <2>3. \A v \in Workers : pc[v] \in Busy => task[v] # u
    BY <2>1 DEF ReadyInv
  <2>4. released[u] = {}
    BY <1>3, <2>1 DEF FreshInv
  <2>5. NamesOf(graph, u) \cap admitted = {}
    BY <1>3, <2>1 DEF AdmittedInv
  <2> QED BY <2>2, <2>3, <2>4, <2>5
<1>8. d # u
  BY <1>2, <1>7 DEF Busy
<1>9. /\ newly'[w] \in Seq(Tasks)
      /\ \/ newly'[w] = newly[w] /\ pending'[u] > 0
         \/ /\ Elements(newly'[w]) = Elements(newly[w]) \cup {u} /\ pending'[u] = 0
            /\ Injective(newly[w]) => Injective(newly'[w])
  <2>1. CASE pending[u] = 1
    <3>1. newly'[w] = Append(newly[w], u) /\ pending'[u] = 0
      BY <1>1, <1>2, <1>3, <2>1
    <3> QED BY <1>2, <1>3, <1>7, <3>1, AppendElements
  <2>2. CASE pending[u] # 1
    BY <1>1, <1>2, <1>3, <1>5, <2>2
  <2> QED BY <2>1, <2>2
<1>10. /\ \A v \in Workers \ {w} : newly'[v] = newly[v] /\ pc'[v] = pc[v] /\ rest'[v] = rest[v]
       /\ pc'[w] \in Finishing
       /\ \A x \in Tasks \ {u} : pending'[x] = pending[x]
       /\ \A x \in Tasks \ {d} : released'[x] = released[x]
       /\ released'[d] = released[d] \cup {u}
  BY <1>1, <1>2, <1>3 DEF Finishing
<1>11. LocalsInv'
  <2>1. \A v \in Workers : pc'[v] \in Busy => task'[v] \in Tasks
    BY <1>2, <1>10 DEF LocalsInv, Busy
  <2>2. \A v \in Workers : pc'[v] \notin Finishing => newly'[v] = << >>
    BY <1>2, <1>10 DEF LocalsInv
  <2>3. ASSUME NEW v \in Workers, pc'[v] = "decrement"
        PROVE  rest'[v] = Dependents(task[v]) \ released'[task[v]]
    <3>1. CASE v = w
      BY <1>1, <1>2, <1>10, <3>1
    <3>2. CASE v # w
      <4>1. task[v] # d /\ task[v] \in Tasks
        BY <1>2, <1>10, <2>3, <3>2 DEF UniqueInv, LocalsInv, Busy
      <4> QED BY <1>10, <2>3, <3>2, <4>1 DEF LocalsInv
    <3> QED BY <3>1, <3>2
  <2> QED BY <1>2, <2>1, <2>2, <2>3 DEF LocalsInv, Dependents
<1>12. CountingInv'
  <2>1. pending'[u] = Cardinality(Unreleased(u)')
    <3>1. pending'[u] = pending[u] - 1
      BY <1>1, <1>2, <1>3
    <3>2. Unreleased(u)' = Unreleased(u) \ {d}
      BY <1>3, <1>4
    <3> QED BY <1>5, <3>1, <3>2
  <2>2. ASSUME NEW x \in Tasks, x # u PROVE pending'[x] = Cardinality(Unreleased(x)')
    BY <1>4, <1>10, <2>2 DEF CountingInv
  <2>3. \A x \in Tasks : pending'[x] = Cardinality(Unreleased(x)')
    BY <2>1, <2>2
  <2> QED BY <1>2, <2>3 DEF CountingInv
<1>13. ReadyInv'
  <2>1. \A x \in Elements(queue) : x \in Tasks /\ pending'[x] = 0
    BY <1>2, <1>7, <1>10, ElementsInside DEF ReadyInv, TypeOK
  <2>2. \A v \in Workers : \A x \in Elements(newly[v]) : x \in Tasks /\ pending'[x] = 0
    BY <1>2, <1>7, <1>10, ElementsInside DEF ReadyInv
  <2>3. \A v \in Workers : \A x \in Elements(newly'[v]) : pending'[x] = 0
    BY <1>9, <1>10, <2>2
  <2>4. \A v \in Workers : pc'[v] \in Busy => pending'[task[v]] = 0
    <3> SUFFICES ASSUME NEW v \in Workers, pc'[v] \in Busy PROVE pending'[task[v]] = 0
      OBVIOUS
    <3>1. pc[v] \in Busy
      BY <1>2, <1>10 DEF Busy
    <3>2. task[v] \in Tasks /\ task[v] # u /\ pending[task[v]] = 0
      BY <1>7, <3>1 DEF ReadyInv, LocalsInv
    <3> QED BY <1>10, <3>2
  <2> QED BY <1>2, <2>1, <2>3, <2>4 DEF ReadyInv
<1>14. UniqueInv'
  <2>1. \A v \in Workers :
           /\ Injective(newly'[v])
           /\ Elements(newly'[v]) \cap Elements(queue) = {}
           /\ pc'[v] \in Busy => task[v] \notin Elements(queue)
    BY <1>2, <1>7, <1>9, <1>10 DEF UniqueInv, Busy
  <2>2. \A v, x \in Workers :
           v # x => Elements(newly'[v]) \cap Elements(newly'[x]) = {}
    BY <1>7, <1>9, <1>10 DEF UniqueInv
  <2>3. \A v, x \in Workers :
           /\ pc'[v] \in Busy => task[v] \notin Elements(newly'[x])
           /\ v # x /\ pc'[v] \in Busy /\ pc'[x] \in Busy => task[v] # task[x]
    BY <1>2, <1>7, <1>9, <1>10 DEF UniqueInv, Busy
  <2> QED BY <1>2, <2>1, <2>2, <2>3 DEF UniqueInv
<1>15. FreshInv'
  <2>1. \A x \in Tasks : pending'[x] > 0 => released'[x] = {}
    <3>1. pending'[d] = 0
      BY <1>2, <1>8, <1>10 DEF ReadyInv, Busy
    <3>2. ASSUME NEW x \in Tasks, x # d, pending'[x] > 0 PROVE released'[x] = {}
      <4>1. x = u \/ pending[x] > 0
        BY <1>10, <3>2
      <4> QED BY <1>7, <1>10, <3>2, <4>1 DEF FreshInv
    <3> QED BY <3>1, <3>2
  <2>2. \A x \in Elements(queue) : x \in Tasks /\ x # d /\ released'[x] = {}
    BY <1>2, <1>10, ElementsInside DEF FreshInv, UniqueInv, Busy, TypeOK
  <2>3. \A v \in Workers : \A x \in Elements(newly[v]) :
            x \in Tasks /\ x # d /\ released'[x] = {}
    BY <1>2, <1>10, ElementsInside DEF FreshInv, UniqueInv, Busy
  <2>4. released'[u] = {}
    BY <1>3, <1>7, <1>8, <1>10
  <2>5. \A v \in Workers : \A x \in Elements(newly'[v]) : released'[x] = {}
    BY <1>9, <1>10, <2>3, <2>4
  <2>6. \A v \in Workers : pc'[v] \in Busy \ Finishing => released'[task[v]] = {}
    BY <1>2, <1>10 DEF FreshInv, UniqueInv, LocalsInv, Busy
  <2> QED BY <1>2, <2>1, <2>2, <2>5, <2>6 DEF FreshInv
<1>16. AdmittedInv'
  <2>1. \A x \in Tasks : NamesOf(graph, x) \cap admitted # {} => pending'[x] = 0
    BY <1>7, <1>10 DEF AdmittedInv
  <2>2. Flipped(d)
    BY <1>2 DEF AdmittedInv, Settled, Finishing
  <2>3. \A x \in Tasks : released'[x] # {} => Flipped(x)
    BY <1>10, <2>2 DEF AdmittedInv
  <2>4. \A v \in Workers : pc'[v] \in Settled => Flipped(task[v])
    BY <1>10, <2>2 DEF AdmittedInv
  <2>5. \A v \in Workers : pc'[v] = "admit" => pc[v] = "admit"
    BY <1>10 DEF Finishing
  <2> QED BY <1>2, <2>1, <2>3, <2>4, <2>5 DEF AdmittedInv, Flipped
<1> QED BY <1>6, <1>11, <1>12, <1>13, <1>14, <1>15, <1>16

\* The list joins the queue: the two had no task in common.
LEMMA CompleteStep ==
    ASSUME IndInv, NEW w \in Workers, Complete(w)
    PROVE  PoolInv' /\ queue' \in Seq(Tasks)
<1> USE DEF IndInv, PoolInv
<1>1. /\ queue \in Seq(Tasks) /\ newly \in [Workers -> Seq(Tasks)]
      /\ pc \in [Workers -> Locations] /\ graph \in Graphs /\ Tasks' = Tasks
      /\ pc[w] = "complete"
  BY DEF Complete, TypeOK, Tasks
<1>2. /\ queue' = queue \o newly[w] /\ newly' = [newly EXCEPT ![w] = << >>]
      /\ UNCHANGED <<graph, pending, rest, released, task, admitted, next>>
  BY DEF Complete, tableVars
<1>3. /\ pc'[w] = "progress"
      /\ \A v \in Workers \ {w} :
             (pc'[v] = pc[v]) \/ (pc[v] = "waiting" /\ pc'[v] = "acquire")
  BY <1>1 DEF Complete, NotifyAllAndGoto
<1>4. /\ queue' \in Seq(Tasks) /\ Elements(queue') = Elements(queue) \cup Elements(newly[w])
      /\ Injective(queue')
  BY <1>1, <1>2, ConcatElements DEF UniqueInv
<1>5. newly'[w] = << >> /\ \A v \in Workers \ {w} : newly'[v] = newly[v]
  BY <1>1, <1>2
<1>6. \A t \in Tasks : Unreleased(t)' = Unreleased(t)
  BY <1>1, <1>2 DEF Unreleased
<1>7. \A v \in Workers : pc'[v] \in Busy => v # w /\ pc[v] \in Busy /\ pc'[v] = pc[v]
  BY <1>3 DEF Busy
<1>8. LocalsInv'
  BY <1>1, <1>2, <1>3, <1>5 DEF LocalsInv, Dependents, Busy, Finishing
<1>9. CountingInv'
  BY <1>1, <1>2, <1>6 DEF CountingInv
<1>10. ReadyInv'
  BY <1>2, <1>4, <1>5, <1>7, EmptyElements DEF ReadyInv
<1>11. UniqueInv'
  <2>1. \A v \in Workers :
           /\ Injective(newly'[v])
           /\ Elements(newly'[v]) \cap Elements(queue') = {}
           /\ pc'[v] \in Busy => task[v] \notin Elements(queue')
    BY <1>4, <1>5, <1>7, EmptyElements DEF UniqueInv
  <2>2. \A u, v \in Workers :
           /\ u # v => Elements(newly'[u]) \cap Elements(newly'[v]) = {}
           /\ pc'[u] \in Busy => task[u] \notin Elements(newly'[v])
           /\ u # v /\ pc'[u] \in Busy /\ pc'[v] \in Busy => task[u] # task[v]
    BY <1>5, <1>7, EmptyElements DEF UniqueInv
  <2> QED BY <1>2, <1>4, <2>1, <2>2 DEF UniqueInv
<1>12. FreshInv'
  BY <1>1, <1>2, <1>4, <1>5, <1>7, EmptyElements DEF FreshInv
<1>13. AdmittedInv'
  BY <1>1, <1>2, <1>3 DEF AdmittedInv, Flipped, Settled, Finishing
<1> QED BY <1>4, <1>8, <1>9, <1>10, <1>11, <1>12, <1>13

-----------------------------------------------------------------------------
(* Types. *)

\* Whatever the slot and the counters say, check_parallel returns a verdict.
LEMMA JoinReturns == TypeOK /\ Join => result' \in Results
<1> SUFFICES ASSUME TypeOK, Join PROVE result' \in Results
  OBVIOUS
<1>1. PICK b \in Tasks \cup {0} : result' = Outcome(b)
  BY DEF Join
<1>2. b \in Nat /\ graph.size \in Nat
  BY GraphShape DEF TypeOK
<1>3. CASE failure # NoFailure
  <2>1. failure \in Failures
    BY <1>3 DEF TypeOK
  <2> QED BY <1>1, <1>3, <2>1 DEF Outcome, Results
<1>4. CASE failure = NoFailure
  BY <1>1, <1>2, <1>4 DEF Outcome, Results, TypeOK
<1> QED BY <1>3, <1>4

\* Every step keeps every variable in its domain; that the counters do not
\* run below zero is what IndInv is needed for.
LEMMA TypeStep == IndInv /\ [Next]_vars => TypeOK'
<1> SUFFICES ASSUME IndInv, [Next]_vars PROVE TypeOK'
  OBVIOUS
<1> USE DEF IndInv, NotifyAllAndGoto, Goto, poolVars, tableVars, localVars
<1>1. TypeOK /\ graph \in Graphs
  BY DEF TypeOK
<1>2. CASE UNCHANGED vars
  BY <1>1, <1>2 DEF TypeOK, vars, Tasks
<1>3. ASSUME NEW w \in Workers, Acquire(w) \/ Wait(w) \/ SpuriousWake(w) \/ Drain(w)
      PROVE  TypeOK'
  BY <1>1, <1>3 DEF TypeOK, Acquire, Wait, SpuriousWake, Drain, Locations, Tasks
<1>4. ASSUME NEW w \in Workers, Pop(w) PROVE TypeOK'
  <2>1. Tail(queue) \in Seq(Tasks) /\ Head(queue) \in Tasks
    BY <1>1, <1>4 DEF TypeOK, Pop
  <2> QED BY <1>1, <1>4, <2>1 DEF TypeOK, Pop, Locations, Tasks
<1>5. ASSUME NEW w \in Workers, BuildView(w) PROVE TypeOK'
  BY <1>1, <1>5 DEF TypeOK, BuildView, Locations, Tasks
<1>6. ASSUME NEW w \in Workers, CheckTask(w) PROVE TypeOK'
  <2>1. task[w] \in Tasks
    BY <1>6 DEF CheckTask, PoolInv, LocalsInv, Busy
  <2>2. Verdict(task[w], sawQuot[w]) \in Contents \cup {"unknown_constant"}
    BY <1>1, <2>1, GraphShape DEF Verdict, Contents
  <2> QED BY <1>1, <1>6, <2>2 DEF TypeOK, CheckTask, Locations, Tasks
<1>7. ASSUME NEW w \in Workers, Admit(w) PROVE TypeOK'
  <2>1. task[w] \in Tasks
    BY <1>7 DEF Admit, PoolInv, LocalsInv, Busy
  <2>2. graph.flips[task[w]][next[w]] \in Nat
    <3>1. next[w] \in 1 .. Len(graph.flips[task[w]])
      BY <1>7 DEF Admit, PoolInv, AdmittedInv
    <3>2. graph.flips[task[w]] \in Seq(Nat)
      BY <1>1, <2>1, GraphShape
    <3> QED BY <3>1, <3>2
  <2>3. next \in [Workers -> Nat] /\ pc \in [Workers -> Locations]
    BY <1>1 DEF TypeOK
  <2>4. CASE next[w] < Len(graph.flips[task[w]])
    <3>1. next' = [next EXCEPT ![w] = next[w] + 1] /\ pc' = pc
      BY <1>7, <2>4 DEF Admit
    <3>2. next' \in [Workers -> Nat] /\ pc' \in [Workers -> Locations]
      BY <2>3, <3>1
    <3> QED BY <1>1, <1>7, <2>2, <3>2 DEF TypeOK, Admit, Tasks
  <2>5. CASE ~(next[w] < Len(graph.flips[task[w]]))
    <3>1. /\ next' = [next EXCEPT ![w] = 1]
          /\ pc' = [pc EXCEPT ![w] = IF graph.quot[task[w]] THEN "publish" ELSE "tally"]
      BY <1>7, <2>5 DEF Admit
    <3>2. next' \in [Workers -> Nat] /\ pc' \in [Workers -> Locations]
      BY <2>3, <3>1 DEF Locations
    <3> QED BY <1>1, <1>7, <2>2, <3>2 DEF TypeOK, Admit, Tasks
  <2> QED BY <2>4, <2>5
<1>8. ASSUME NEW w \in Workers, PublishQuot(w) PROVE TypeOK'
  BY <1>1, <1>8 DEF TypeOK, PublishQuot, Locations, Tasks
<1>9. ASSUME NEW w \in Workers, Tally(w) PROVE TypeOK'
  <2>1. task[w] \in Tasks
    BY <1>9 DEF Tally, PoolInv, LocalsInv, Busy
  <2>2. graph.units[task[w]] \in Nat /\ Dependents(task[w]) \subseteq Tasks
    BY <1>1, <2>1, GraphShape DEF Dependents
  <2>3. checked' \in Nat
    BY <1>1, <1>9, <2>2 DEF TypeOK, Tally
  <2>4. rest' \in [Workers -> SUBSET Tasks] /\ newly' \in [Workers -> Seq(Tasks)]
    BY <1>1, <1>9, <2>2 DEF TypeOK, Tally
  <2>5. pc' \in [Workers -> Locations]
    BY <1>1, <1>9 DEF TypeOK, Tally, Locations
  <2> QED BY <1>1, <1>9, <2>3, <2>4, <2>5 DEF TypeOK, Tally, Tasks
<1>10. ASSUME NEW w \in Workers, Decrement(w) PROVE TypeOK'
  <2>1. pending' \in [Tasks -> Nat]
    BY <1>10, DecrementStep
  <2>2. PICK u \in rest[w] :
          /\ newly' = [newly EXCEPT ![w] = IF pending[u] = 1 THEN Append(newly[w], u)
                                           ELSE newly[w]]
          /\ rest' = [rest EXCEPT ![w] = rest[w] \ {u}]
          /\ released' = [released EXCEPT ![task[w]] = released[task[w]] \cup {u}]
          /\ pc' = [pc EXCEPT ![w] = IF rest[w] = {u} THEN "complete" ELSE "decrement"]
    BY <1>10 DEF Decrement
  <2>3. u \in Tasks
    BY <1>1, <2>2 DEF TypeOK
  <2>4. newly' \in [Workers -> Seq(Tasks)]
    BY <1>1, <2>2, <2>3 DEF TypeOK
  <2>5. rest' \in [Workers -> SUBSET Tasks] /\ released' \in [Tasks -> SUBSET Tasks]
    BY <1>1, <2>2, <2>3 DEF TypeOK
  <2>6. pc' \in [Workers -> Locations]
    BY <1>1, <2>2 DEF TypeOK, Locations
  <2> QED BY <1>1, <1>10, <2>1, <2>4, <2>5, <2>6 DEF TypeOK, Decrement, Tasks
<1>11. ASSUME NEW w \in Workers, Complete(w) PROVE TypeOK'
  <2>1. queue' \in Seq(Tasks)
    BY <1>11, CompleteStep
  <2>2. inFlight - 1 \in Nat
    BY <1>11, BusyCount DEF Complete, InFlightExact, BusyWorkers, Busy
  <2>3. << >> \in Seq(Tasks)
    OBVIOUS
  <2> QED BY <1>1, <1>11, <2>1, <2>2, <2>3 DEF TypeOK, Complete, Locations, Tasks
<1>12. ASSUME NEW w \in Workers, Progress(w) PROVE TypeOK'
  BY <1>1, <1>12 DEF TypeOK, Progress, Locations, Tasks
<1>13. ASSUME NEW w \in Workers, RecordFailure(w) PROVE TypeOK'
  <2>1. task[w] \in Nat /\ error[w] \in Contents \cup {"unknown_constant"}
    BY <1>1, GraphShape DEF TypeOK
  <2>2. failure' \in Failures \cup {NoFailure}
    BY <1>1, <1>13, <2>1 DEF RecordFailure, Failures, TypeOK
  <2> QED BY <1>1, <1>13, <2>2 DEF TypeOK, RecordFailure, Locations, Tasks
<1>14. ASSUME NEW w \in Workers, Cancel(w) PROVE TypeOK'
  BY <1>1, <1>14 DEF TypeOK, Cancel, Locations, Tasks
<1>15. ASSUME NEW w \in Workers, Bail(w) PROVE TypeOK'
  <2>1. inFlight - 1 \in Nat
    BY <1>15, BusyCount DEF Bail, InFlightExact, BusyWorkers, Busy
  <2> QED BY <1>1, <1>15, <2>1 DEF TypeOK, Bail, Locations, Tasks
<1>16. CASE Join
  BY <1>1, <1>16, JoinReturns DEF TypeOK, Join, Tasks
<1>17. CASE Returned
  BY <1>2, <1>17 DEF Returned
<1> QED
  BY <1>2, <1>3, <1>4, <1>5, <1>6, <1>7, <1>8, <1>9, <1>10, <1>11, <1>12, <1>13, <1>14,
     <1>15, <1>16, <1>17 DEF Next, Step

-----------------------------------------------------------------------------
(* The theorems. *)

\* The inductive step: the five actions that move a task have a lemma each,
\* every other action is a quiet step.
LEMMA IndInvStep == IndInv /\ [Next]_vars => IndInv'
<1> SUFFICES ASSUME IndInv, [Next]_vars PROVE PoolInv'
  BY TypeStep, InFlightStep DEF IndInv
<1>1. pc \in [Workers -> Locations] /\ next \in [Workers -> Nat]
  BY DEF IndInv, TypeOK
<1>2. CASE UNCHANGED vars
  BY <1>2, QuietStep DEF vars, localVars, tableVars, poolVars
<1>3. ASSUME NEW w \in Workers,
             Pop(w) \/ Admit(w) \/ Tally(w) \/ Decrement(w) \/ Complete(w)
      PROVE  PoolInv'
  BY <1>3, PopStep, AdmitStep, TallyStep, DecrementStep, CompleteStep
<1> USE DEF poolVars, tableVars, localVars

\* One worker moves on; the others stay where they are.
<1>4. ASSUME NEW w \in Workers,
             Acquire(w) \/ Wait(w) \/ SpuriousWake(w) \/ Progress(w) \/ Cancel(w)
      PROVE  PoolInv'
  <2>1. UNCHANGED <<graph, pending, queue, rest, newly, released, admitted, task, next>>
    BY <1>4 DEF Acquire, Wait, SpuriousWake, Progress, Cancel
  <2>2. \A v \in Workers : (pc'[v] = pc[v])
                           \/ (pc'[v] \notin Busy /\ pc[v] \notin Finishing)
                           \/ (pc[v] = "cancel" /\ pc'[v] = "bail")
    BY <1>1, <1>4 DEF Acquire, Wait, SpuriousWake, Progress, Cancel, Goto, Busy, Finishing
  <2> QED BY <2>1, <2>2, QuietStep DEF Busy, Settled, Finishing
<1>5. ASSUME NEW w \in Workers, BuildView(w) \/ PublishQuot(w) \/ RecordFailure(w)
      PROVE  PoolInv'
  <2>1. UNCHANGED <<graph, pending, queue, rest, newly, released, admitted, task, next>>
    BY <1>5 DEF BuildView, PublishQuot, RecordFailure
  <2>2. \A v \in Workers : (pc'[v] = pc[v])
                           \/ (pc[v] = "view" /\ pc'[v] = "check")
                           \/ (pc[v] = "publish" /\ pc'[v] = "tally")
                           \/ (pc[v] = "fail" /\ pc'[v] = "cancel")
    BY <1>1, <1>5 DEF BuildView, PublishQuot, RecordFailure, Goto
  <2> QED BY <2>1, <2>2, QuietStep DEF Busy, Settled, Finishing
<1>6. ASSUME NEW w \in Workers, CheckTask(w) PROVE PoolInv'
  <2>1. /\ UNCHANGED <<graph, pending, queue, rest, newly, released, admitted, task>>
        /\ next' = [next EXCEPT ![w] = 1]
    BY <1>6 DEF CheckTask
  <2>2. /\ pc[w] = "check" /\ pc'[w] \in {"admit", "fail"} /\ next'[w] = 1
        /\ \A v \in Workers \ {w} : pc'[v] = pc[v] /\ next'[v] = next[v]
    BY <1>1, <1>6, <2>1 DEF CheckTask, Goto
  <2> QED BY <2>1, <2>2, QuietStep DEF Busy, Settled, Finishing
\* One worker leaves and wakes the waiting ones.
<1>7. ASSUME NEW w \in Workers, Drain(w) \/ Bail(w) PROVE PoolInv'
  <2>1. UNCHANGED <<graph, pending, queue, rest, newly, released, admitted, task, next>>
    BY <1>7 DEF Drain, Bail
  <2>2. \A v \in Workers : (pc'[v] = pc[v])
                           \/ (pc[v] = "waiting" /\ pc'[v] = "acquire")
                           \/ (pc[v] \in {"choose", "bail"} /\ pc'[v] = "exited")
    BY <1>1, <1>7 DEF Drain, Bail, NotifyAllAndGoto
  <2> QED BY <2>1, <2>2, QuietStep DEF Busy, Settled, Finishing
<1>8. CASE Join
  BY <1>8, QuietStep DEF Join
<1>9. CASE Returned
  BY <1>2, <1>9 DEF Returned
<1> QED
  BY <1>2, <1>3, <1>4, <1>5, <1>6, <1>7, <1>8, <1>9 DEF Next, Step

\* A flag is set only by a task whose counter is at zero; then every
\* dependency has decremented it, which each does after its own last flag.
LEMMA IndInvOrders == IndInv => DependencyOrder
<1> SUFFICES ASSUME IndInv, NEW t \in Tasks, NamesOf(graph, t) \cap admitted # {},
                    NEW d \in graph.deps[t]
             PROVE  d \in Tasks /\ Flipped(d)
  BY DEF DependencyOrder
<1>1. graph \in Graphs
  BY DEF IndInv, TypeOK
<1>2. Cardinality(Unreleased(t)) = 0
  BY DEF IndInv, PoolInv, AdmittedInv, CountingInv
<1>3. Unreleased(t) = {}
  BY <1>1, <1>2, UnreleasedCount
<1>4. d \in Tasks /\ t \in released[d]
  BY <1>3 DEF Unreleased
<1> QED BY <1>4 DEF IndInv, PoolInv, AdmittedInv

\* The pool always satisfies the invariant the theorems below rest on.
THEOREM Inductive == Spec => []IndInv
<1>1. Init => IndInv
  BY InitIndInv
<1>2. IndInv /\ [Next]_vars => IndInv'
  BY IndInvStep
<1> QED BY <1>1, <1>2, PTL DEF Spec

\* No worker ever decrements a pending counter that is already zero, and no
\* critical section takes in_flight below zero: neither unsigned counter of
\* check_parallel can wrap, whatever the graph, the number of workers and
\* the schedule.
THEOREM TypeCorrect == Spec => []TypeOK
<1>1. IndInv => TypeOK
  BY DEF IndInv
<1> QED BY <1>1, Inductive, PTL

\* ReadyState.in_flight is the number of workers between their pop and the
\* critical section that ends the task, at every moment of every run.
THEOREM InFlightCorrect == Spec => []InFlightExact
<1>1. IndInv => InFlightExact
  BY DEF IndInv
<1> QED BY <1>1, Inductive, PTL

\* A name's flag in CheckedConstants is visible only when every name of
\* every dependency of its task is: what a checking thread sees is a prefix
\* some sequential run would have built.
THEOREM AdmissionInDependencyOrder == Spec => []DependencyOrder
<1>1. IndInv => DependencyOrder
  BY IndInvOrders
<1> QED BY <1>1, Inductive, PTL

-----------------------------------------------------------------------------
(* The verdict: what else is invariant.                                    *)

\* Every name a check looks up is admitted by a task that the check waits
\* for, and a check that reduces a quotient recursor waits for the quotient
\* task.  LookupsAreOrdered allows a lookup of the task's own names besides,
\* which the kernel answers with "unknown constant".
LooksBack ==
    \A t \in Tasks :
        /\ graph.uses[t] \subseteq UNION {NamesOf(graph, d) : d \in Ancestors(t)}
        /\ graph.reduces[t] => \E d \in Ancestors(t) : graph.quot[d]

Touched(t) == NamesOf(graph, t) \cap admitted # {}

Accepted == {t \in Tasks : Flipped(t)}

Held(t) == \E w \in Workers : pc[w] \in Busy /\ task[w] = t

\* The tasks whose run is over.
Over == {t \in Accepted : ~Held(t)}

Failing == {"fail", "cancel", "bail"}

\* What is admitted, or about to be, is good.
GoodInv ==
    /\ \A t \in Tasks : Touched(t) => graph.content[t] = "ok"
    /\ \A w \in Workers : pc[w] \in {"admit"} \cup Settled => graph.content[task[w]] = "ok"

\* A sequential checker gets through whatever is admitted.
SequentialInv ==
    \A S \in SUBSET Tasks : ClosedUnderChecking(S) => \A t \in Tasks : Touched(t) => t \in S

\* The quotient flag is up before any dependent of the quotient task runs.
QuotInv ==
    /\ \A t \in Tasks : graph.quot[t] /\ released[t] # {} => quotInitialized
    /\ \A w \in Workers :
           pc[w] \in {"tally"} \cup Finishing /\ graph.quot[task[w]] => quotInitialized
    /\ \A w \in Workers :
           pc[w] = "check" /\ (\E d \in Ancestors(task[w]) : graph.quot[d]) => sawQuot[w]

\* The task is eligible for a sequential checker, which rejects it with e.
IsBad(t, e) ==
    /\ t \in Tasks /\ graph.deps[t] \subseteq Accepted
    /\ graph.content[t] # "ok" /\ e = graph.content[t]

BlameInv ==
    LooksBack =>
        /\ \A w \in Workers : pc[w] = "fail" => IsBad(task[w], error[w])
        /\ failure # NoFailure => IsBad(failure.task, failure.error)

\* The failure slot is filled before the flag is raised.
CancelInv ==
    /\ \A w \in Workers : pc[w] \in {"cancel", "bail"} => failure # NoFailure
    /\ \A w \in Workers : pc[w] = "bail" => cancelled
    /\ cancelled => failure # NoFailure

\* A task whose check has not succeeded yet has admitted nothing.
UntouchedInv ==
    /\ \A t \in Elements(queue) : ~Touched(t)
    /\ \A w \in Workers : \A t \in Elements(newly[w]) : ~Touched(t)
    /\ \A w \in Workers : pc[w] \in {"view", "check"} \cup Failing => ~Touched(task[w])

\* Until a check fails, no ready task is lost.
PlacedInv ==
    ~cancelled => \A t \in Tasks : pending[t] = 0 =>
        \/ t \in Elements(queue)
        \/ \E w \in Workers : t \in Elements(newly[w])
        \/ Held(t)
        \/ t \in Accepted

\* ReadyState.done counts the tasks that are over, and these have
\* decremented the counters of all their dependents.
OverInv ==
    /\ done = Cardinality(Over)
    /\ \A t \in Over : Dependents(t) \subseteq released[t]
    /\ \A w \in Workers : pc[w] = "complete" => Dependents(task[w]) \subseteq released[task[w]]

\* check_parallel returns when all workers have.
JoinInv == result # Running => \A w \in Workers : pc[w] = "exited"

VerdictInv ==
    /\ GoodInv /\ SequentialInv /\ QuotInv /\ BlameInv /\ CancelInv /\ DrainIsFinal
    /\ UntouchedInv /\ PlacedInv /\ OverInv /\ JoinInv

-----------------------------------------------------------------------------
(* Who writes what. *)

\* Each variable has one or two writers.
LEMMA Writers ==
    ASSUME IndInv, [Next]_vars
    PROVE  /\ graph' = graph
           /\ admitted' # admitted => \E w \in Workers : Admit(w)
           /\ quotInitialized' # quotInitialized => \E w \in Workers : PublishQuot(w)
           /\ released' # released \/ pending' # pending => \E w \in Workers : Decrement(w)
           /\ queue' # queue => \E w \in Workers : Pop(w) \/ Complete(w)
           /\ newly' # newly => \E w \in Workers : Decrement(w) \/ Complete(w)
           /\ done' # done => \E w \in Workers : Complete(w)
           /\ failure' # failure => \E w \in Workers : RecordFailure(w)
           /\ cancelled' # cancelled => \E w \in Workers : Cancel(w)
           /\ result' # result => Join
<1> USE DEF poolVars, tableVars, localVars
<1>1. CASE UNCHANGED vars
  BY <1>1 DEF vars
<1>2. ASSUME NEW w \in Workers, Tally(w) PROVE newly' = newly
  <2>1. newly \in [Workers -> Seq(Tasks)] /\ newly[w] = << >>
    BY <1>2 DEF IndInv, PoolInv, TypeOK, LocalsInv, Tally, Finishing
  <2> QED BY <1>2, <2>1 DEF Tally
<1>3. ASSUME NEW w \in Workers, Tally(w) PROVE UNCHANGED <<graph, admitted, quotInitialized,
          released, pending, queue, newly, done, failure, cancelled, result>>
  BY <1>2, <1>3 DEF Tally
<1>4. ASSUME NEW w \in Workers,
             Acquire(w) \/ Drain(w) \/ Wait(w) \/ SpuriousWake(w) \/ BuildView(w)
                 \/ CheckTask(w) \/ Progress(w) \/ Bail(w)
      PROVE  UNCHANGED <<graph, admitted, quotInitialized,
                 released, pending, queue, newly, done, failure, cancelled, result>>
  BY <1>4 DEF Acquire, Drain, Wait, SpuriousWake, BuildView, CheckTask, Progress, Bail
<1>5. ASSUME NEW w \in Workers, Pop(w)
      PROVE  UNCHANGED <<graph, admitted, quotInitialized,
                 released, pending, newly, done, failure, cancelled, result>>
  BY <1>5 DEF Pop
<1>6. ASSUME NEW w \in Workers, Admit(w)
      PROVE  UNCHANGED <<graph, quotInitialized,
                 released, pending, queue, newly, done, failure, cancelled, result>>
  BY <1>6 DEF Admit
<1>7. ASSUME NEW w \in Workers, PublishQuot(w)
      PROVE  UNCHANGED <<graph, admitted,
                 released, pending, queue, newly, done, failure, cancelled, result>>
  BY <1>7 DEF PublishQuot
<1>8. ASSUME NEW w \in Workers, Decrement(w)
      PROVE  UNCHANGED <<graph, admitted, quotInitialized,
                 queue, done, failure, cancelled, result>>
  BY <1>8 DEF Decrement
<1>9. ASSUME NEW w \in Workers, Complete(w)
      PROVE  UNCHANGED <<graph, admitted, quotInitialized,
                 released, pending, failure, cancelled, result>>
  BY <1>9 DEF Complete
<1>10. ASSUME NEW w \in Workers, RecordFailure(w)
       PROVE  UNCHANGED <<graph, admitted, quotInitialized,
                  released, pending, queue, newly, done, cancelled, result>>
  BY <1>10 DEF RecordFailure
<1>11. ASSUME NEW w \in Workers, Cancel(w)
       PROVE  UNCHANGED <<graph, admitted, quotInitialized,
                  released, pending, queue, newly, done, failure, result>>
  BY <1>11 DEF Cancel
<1>12. CASE Join
  BY <1>12 DEF Join
<1>13. CASE Returned
  BY <1>1, <1>13 DEF Returned
<1> QED
  BY <1>1, <1>3, <1>4, <1>5, <1>6, <1>7, <1>8, <1>9, <1>10, <1>11, <1>12, <1>13
  DEF Next, Step

\* Each location is entered by one or two actions, and a worker stops being
\* busy in two.  Only a pop gives a worker another task.
LEMMA Entries ==
    ASSUME IndInv, [Next]_vars, NEW v \in Workers
    PROVE  /\ task'[v] # task[v] => Pop(v)
           /\ sawQuot'[v] # sawQuot[v] => BuildView(v)
           /\ error'[v] # error[v] => CheckTask(v)
           /\ pc'[v] # pc[v] =>
                  /\ pc'[v] = "view" => Pop(v)
                  /\ pc'[v] = "check" => BuildView(v)
                  /\ pc'[v] \in {"admit", "fail"} => CheckTask(v)
                  /\ pc'[v] = "publish" => Admit(v)
                  /\ pc'[v] = "tally" => Admit(v) \/ PublishQuot(v)
                  /\ pc'[v] = "decrement" => Tally(v)
                  /\ pc'[v] = "complete" => Tally(v) \/ Decrement(v)
                  /\ pc'[v] = "cancel" => RecordFailure(v)
                  /\ pc'[v] = "bail" => Cancel(v)
                  /\ pc'[v] = "exited" => (Acquire(v) /\ cancelled) \/ Drain(v) \/ Bail(v)
                  /\ pc[v] \in Busy => pc'[v] \in Busy \/ Complete(v) \/ Bail(v)
                  /\ pc[v] # "exited"
<1> USE DEF poolVars, tableVars, localVars, Goto, NotifyAllAndGoto, Busy
<1>0. /\ pc \in [Workers -> Locations] /\ task \in [Workers -> Tasks \cup {0}]
      /\ sawQuot \in [Workers -> BOOLEAN]
      /\ error \in [Workers -> Contents \cup {"unknown_constant"}]
  BY DEF IndInv, TypeOK
<1>1. CASE UNCHANGED vars
  BY <1>1 DEF vars
<1>2. ASSUME NEW w \in Workers, w # v, Step(w) \/ SpuriousWake(w)
      PROVE  /\ task'[v] = task[v] /\ sawQuot'[v] = sawQuot[v] /\ error'[v] = error[v]
             /\ (pc'[v] = pc[v]) \/ (pc[v] = "waiting" /\ pc'[v] = "acquire")
  <2>1. CASE Acquire(w) \/ Pop(w) \/ Drain(w) \/ Wait(w) \/ SpuriousWake(w)
    BY <1>0, <1>2, <2>1 DEF Acquire, Pop, Drain, Wait, SpuriousWake
  <2>2. CASE BuildView(w) \/ CheckTask(w) \/ Admit(w) \/ PublishQuot(w)
    BY <1>0, <1>2, <2>2 DEF BuildView, CheckTask, Admit, PublishQuot
  <2>3. CASE Tally(w) \/ Decrement(w) \/ Complete(w) \/ Progress(w)
    BY <1>0, <1>2, <2>3 DEF Tally, Decrement, Complete, Progress
  <2>4. CASE RecordFailure(w) \/ Cancel(w) \/ Bail(w)
    BY <1>0, <1>2, <2>4 DEF RecordFailure, Cancel, Bail
  <2> QED BY <1>2, <2>1, <2>2, <2>3, <2>4 DEF Step
<1>3. CASE Acquire(v)
  BY <1>0, <1>3 DEF Acquire
<1>4. CASE Pop(v)
  <2>1. pc[v] = "choose" /\ pc'[v] = "view" /\ UNCHANGED <<sawQuot, error>>
    BY <1>0, <1>4 DEF Pop
  <2> QED BY <1>4, <2>1
<1>5. CASE Drain(v)
  <2>1. pc[v] = "choose" /\ pc'[v] = "exited" /\ UNCHANGED <<task, sawQuot, error>>
    BY <1>0, <1>5 DEF Drain
  <2> QED BY <1>5, <2>1
<1>6. CASE Wait(v) \/ SpuriousWake(v) \/ Progress(v)
  BY <1>0, <1>6 DEF Wait, SpuriousWake, Progress
<1>7. CASE BuildView(v)
  <2>1. pc[v] = "view" /\ pc'[v] = "check" /\ UNCHANGED <<task, error>>
    BY <1>0, <1>7 DEF BuildView
  <2> QED BY <1>7, <2>1
<1>8. CASE CheckTask(v)
  <2>1. pc[v] = "check" /\ pc'[v] \in {"admit", "fail"} /\ UNCHANGED <<task, sawQuot>>
    BY <1>0, <1>8 DEF CheckTask
  <2> QED BY <1>8, <2>1
<1>9. CASE Admit(v)
  <2>1. pc[v] = "admit" /\ pc'[v] \in {"admit", "publish", "tally"}
        /\ UNCHANGED <<task, sawQuot, error>>
    BY <1>0, <1>9 DEF Admit
  <2> QED BY <1>9, <2>1
<1>10. CASE PublishQuot(v)
  <2>1. pc[v] = "publish" /\ pc'[v] = "tally" /\ UNCHANGED <<task, sawQuot, error>>
    BY <1>0, <1>10 DEF PublishQuot
  <2> QED BY <1>10, <2>1
<1>11. CASE Tally(v)
  <2>1. pc[v] = "tally" /\ pc'[v] \in {"complete", "decrement"}
        /\ UNCHANGED <<task, sawQuot, error>>
    BY <1>0, <1>11 DEF Tally
  <2> QED BY <1>11, <2>1
<1>12. CASE Decrement(v)
  <2>1. pc[v] = "decrement" /\ pc'[v] \in {"complete", "decrement"}
        /\ UNCHANGED <<task, sawQuot, error>>
    BY <1>0, <1>12 DEF Decrement
  <2> QED BY <1>12, <2>1
<1>13. CASE Complete(v)
  <2>1. pc[v] = "complete" /\ pc'[v] = "progress" /\ UNCHANGED <<task, sawQuot, error>>
    BY <1>0, <1>13 DEF Complete
  <2> QED BY <1>13, <2>1
<1>14. CASE RecordFailure(v)
  <2>1. pc[v] = "fail" /\ pc'[v] = "cancel" /\ UNCHANGED <<task, sawQuot, error>>
    BY <1>0, <1>14 DEF RecordFailure
  <2> QED BY <1>14, <2>1
<1>15. CASE Cancel(v)
  <2>1. pc[v] = "cancel" /\ pc'[v] = "bail" /\ UNCHANGED <<task, sawQuot, error>>
    BY <1>0, <1>15 DEF Cancel
  <2> QED BY <1>15, <2>1
<1>16. CASE Bail(v)
  <2>1. pc[v] = "bail" /\ pc'[v] = "exited" /\ UNCHANGED <<task, sawQuot, error>>
    BY <1>0, <1>16 DEF Bail
  <2> QED BY <1>16, <2>1
<1>17. CASE Join
  BY <1>17 DEF Join
<1>18. CASE Returned
  BY <1>1, <1>18 DEF Returned
<1>19. CASE \E w \in Workers : w # v /\ (Step(w) \/ SpuriousWake(w))
  <2>1. PICK w \in Workers : w # v /\ (Step(w) \/ SpuriousWake(w))
    BY <1>19
  <2> HIDE DEF poolVars, tableVars, localVars, Goto, NotifyAllAndGoto
  <2>2. /\ task'[v] = task[v] /\ sawQuot'[v] = sawQuot[v] /\ error'[v] = error[v]
        /\ (pc'[v] = pc[v]) \/ (pc[v] = "waiting" /\ pc'[v] = "acquire")
    BY <1>2, <2>1
  <2> QED BY <2>2
<1> QED
  BY <1>1, <1>3, <1>4, <1>5, <1>6, <1>7, <1>8, <1>9, <1>10, <1>11, <1>12, <1>13, <1>14,
     <1>15, <1>16, <1>17, <1>18, <1>19 DEF Next, Step

-----------------------------------------------------------------------------
(* What a ready task knows. *)

\* A counter at zero means that every dependency exists, is accepted and
\* has released the task, and so have the dependencies' own dependencies.
LEMMA ReadyTasks ==
    ASSUME IndInv, NEW t \in Tasks, pending[t] = 0
    PROVE  /\ \A d \in graph.deps[t] : d \in Tasks /\ t \in released[d] /\ Flipped(d)
           /\ \A d \in Ancestors(t) : d \in Tasks /\ released[d] # {} /\ Flipped(d)
<1>1. graph \in Graphs
  BY DEF IndInv, TypeOK
<1>2. ASSUME NEW u \in Tasks, pending[u] = 0, NEW d \in graph.deps[u]
      PROVE  d \in Tasks /\ u \in released[d]
  <2>1. Cardinality(Unreleased(u)) = 0
    BY <1>2 DEF IndInv, PoolInv, CountingInv
  <2>2. Unreleased(u) = {}
    BY <1>1, <2>1, UnreleasedCount
  <2> QED BY <1>2, <2>2 DEF Unreleased
<1>3. \A d \in Tasks : released[d] # {} => Flipped(d) /\ pending[d] = 0
  <2> SUFFICES ASSUME NEW d \in Tasks, released[d] # {} PROVE Flipped(d) /\ pending[d] = 0
    OBVIOUS
  <2>1. pending[d] \in Nat
    BY DEF IndInv, TypeOK
  <2> QED BY <2>1 DEF IndInv, PoolInv, AdmittedInv, FreshInv
<1> DEFINE S == {d \in Tasks : released[d] # {}}
<1>4. \A u \in S \cup {t} : graph.deps[u] \cap Tasks \subseteq S
  BY <1>2, <1>3
<1>5. \A d \in Ancestors(t) : d \in Tasks /\ d \in S
  BY <1>4 DEF Ancestors
<1> QED BY <1>2, <1>3, <1>5

\* A step of Admit raises one flag, and that of a name of the worker's task.
LEMMA AdmitOne ==
    ASSUME IndInv, NEW w \in Workers, Admit(w)
    PROVE  /\ pc[w] = "admit" /\ task[w] \in Tasks
           /\ \A t \in Tasks \ {task[w]} :
                  NamesOf(graph, t) \cap admitted' = NamesOf(graph, t) \cap admitted
<1> DEFINE n == graph.flips[task[w]][next[w]]
<1>1. pc[w] = "admit" /\ admitted' = admitted \cup {n} /\ graph \in Graphs
  BY DEF Admit, IndInv, TypeOK
<1>2. task[w] \in Tasks /\ next[w] \in 1 .. Len(graph.flips[task[w]])
  BY <1>1 DEF IndInv, PoolInv, LocalsInv, AdmittedInv, Busy
<1>3. n \in NamesOf(graph, task[w])
  BY <1>2 DEF NamesOf
<1>4. \A t \in Tasks \ {task[w]} : n \notin NamesOf(graph, t)
  BY <1>1, <1>2, <1>3, GraphShape
<1> QED BY <1>1, <1>2, <1>4

\* Flags only rise, and they rise in the task whose worker admits it.
LEMMA Touching ==
    ASSUME IndInv, [Next]_vars
    PROVE  /\ Tasks' = Tasks /\ Accepted \subseteq Accepted'
           /\ \A t \in Tasks :
                  /\ Flipped(t) => Touched(t) /\ Flipped(t)'
                  /\ Touched(t) => pending[t] = 0
                  /\ Touched(t)' =>
                         Touched(t) \/ \E w \in Workers : pc[w] = "admit" /\ task[w] = t
                  /\ Flipped(t)' =>
                         Flipped(t) \/ \E w \in Workers : pc[w] = "admit" /\ task[w] = t
<1>1. graph \in Graphs /\ graph' = graph /\ Tasks' = Tasks
  BY Writers DEF IndInv, TypeOK, Tasks
<1>2. admitted \subseteq admitted'
  BY Writers DEF Admit
<1>3. \A t \in Tasks : NamesOf(graph, t) # {}
  BY <1>1, NamesExist
<1>4. ASSUME NEW t \in Tasks, NEW n \in NamesOf(graph, t), n \in admitted' \ admitted
      PROVE  \E w \in Workers : pc[w] = "admit" /\ task[w] = t
  <2>1. PICK w \in Workers : Admit(w)
    BY <1>4, Writers
  <2>2. pc[w] = "admit" /\ task[w] = t
    BY <1>4, <2>1, AdmitOne
  <2> QED BY <2>2
<1>5. ASSUME NEW t \in Tasks
      PROVE  /\ Flipped(t) => Touched(t) /\ Flipped(t)'
             /\ Touched(t)' =>
                    Touched(t) \/ \E w \in Workers : pc[w] = "admit" /\ task[w] = t
             /\ Flipped(t)' =>
                    Flipped(t) \/ \E w \in Workers : pc[w] = "admit" /\ task[w] = t
  BY <1>1, <1>2, <1>3, <1>4 DEF Flipped, Touched
<1>6. \A t \in Tasks : Touched(t) => pending[t] = 0
  BY DEF IndInv, PoolInv, AdmittedInv, Touched
<1> QED BY <1>1, <1>5, <1>6 DEF Accepted

-----------------------------------------------------------------------------
(* What is admitted is good. *)

LEMMA GoodStep == IndInv /\ GoodInv /\ [Next]_vars => GoodInv'
<1> SUFFICES ASSUME IndInv, GoodInv, [Next]_vars PROVE GoodInv'
  OBVIOUS
<1>1. graph' = graph /\ Tasks' = Tasks
  BY Writers, Touching
<1>2. ASSUME NEW t \in Tasks, Touched(t)' PROVE graph.content[t] = "ok"
  BY <1>2, Touching DEF GoodInv
<1>3. ASSUME NEW w \in Workers, pc'[w] \in {"admit"} \cup Settled
      PROVE  graph.content[task'[w]] = "ok"
  <2>1. CASE pc[w] \in {"admit"} \cup Settled
    <3>1. task'[w] = task[w]
      BY <2>1, Entries DEF Pop, Settled, Finishing
    <3> QED BY <2>1, <3>1 DEF GoodInv
  <2>2. CASE pc[w] \notin {"admit"} \cup Settled
    <3>1. CheckTask(w) /\ pc'[w] = "admit"
      BY <1>3, <2>2, Entries DEF Settled, Finishing, Admit, PublishQuot, Tally, Decrement
    <3>2. pc[w] = "check" /\ pc \in [Workers -> Locations] /\ task' = task
      BY <3>1 DEF CheckTask, IndInv, TypeOK
    <3>3. Verdict(task[w], sawQuot[w]) = "ok"
      BY <3>1, <3>2 DEF CheckTask, Goto
    <3> QED BY <3>2, <3>3 DEF Verdict
  <2> QED BY <2>1, <2>2
<1> QED BY <1>1, <1>2, <1>3 DEF GoodInv

\* The task being admitted is good, and a sequential checker has got
\* through all of its dependencies.
LEMMA SequentialStep == IndInv /\ GoodInv /\ SequentialInv /\ [Next]_vars => SequentialInv'
<1> SUFFICES ASSUME IndInv, GoodInv, SequentialInv, [Next]_vars,
                    NEW S \in SUBSET Tasks, ClosedUnderChecking(S),
                    NEW t \in Tasks, Touched(t)'
             PROVE  t \in S
  BY Touching, Writers DEF SequentialInv, ClosedUnderChecking
<1>1. CASE Touched(t)
  BY <1>1 DEF SequentialInv
<1>2. CASE \E w \in Workers : pc[w] = "admit" /\ task[w] = t
  <2>1. pending[t] = 0 /\ graph.content[t] = "ok"
    BY <1>2 DEF GoodInv, IndInv, PoolInv, ReadyInv, Busy
  <2>2. \A d \in graph.deps[t] : d \in S
    BY <2>1, ReadyTasks, Touching DEF SequentialInv
  <2> QED BY <2>1, <2>2 DEF ClosedUnderChecking
<1> QED BY <1>1, <1>2, Touching

\* run_quot raises the flag before its worker decrements anything, so it is
\* up when the last dependency of a check that needs it is over.
LEMMA QuotStep == IndInv /\ QuotInv /\ [Next]_vars => QuotInv'
<1> SUFFICES ASSUME IndInv, QuotInv, [Next]_vars PROVE QuotInv'
  OBVIOUS
<1>1. graph' = graph /\ Tasks' = Tasks
  BY Writers, Touching
<1>2. quotInitialized => quotInitialized'
  BY Writers DEF PublishQuot
<1>3. ASSUME NEW t \in Tasks, graph.quot[t], released'[t] # {} PROVE quotInitialized
  <2>1. CASE released[t] # {}
    BY <1>3, <2>1 DEF QuotInv
  <2>2. CASE released[t] = {}
    <3>1. PICK w \in Workers : Decrement(w)
      BY <1>3, <2>2, Writers
    <3>2. pc[w] = "decrement" /\ task[w] = t
      BY <1>3, <2>2, <3>1 DEF Decrement, IndInv, TypeOK
    <3> QED BY <1>3, <3>2 DEF QuotInv, Finishing
  <2> QED BY <2>1, <2>2
<1>4. ASSUME NEW w \in Workers, pc'[w] \in {"tally"} \cup Finishing, graph.quot[task'[w]]
      PROVE  quotInitialized'
  <2>1. CASE pc[w] \in {"tally"} \cup Finishing
    <3>1. task'[w] = task[w]
      BY <2>1, Entries DEF Pop, Finishing
    <3> QED BY <1>2, <1>4, <2>1, <3>1 DEF QuotInv
  <2>2. CASE pc[w] \notin {"tally"} \cup Finishing
    <3>1. pc'[w] = "tally" /\ (Admit(w) \/ PublishQuot(w))
      BY <1>4, <2>2, Entries DEF Finishing, Tally, Decrement
    <3>2. task' = task /\ pc \in [Workers -> Locations]
      BY <3>1 DEF Admit, PublishQuot, localVars, IndInv, TypeOK
    <3>3. CASE Admit(w)
      BY <1>4, <3>1, <3>2, <3>3 DEF Admit, Goto
    <3>4. CASE PublishQuot(w)
      BY <3>4 DEF PublishQuot
    <3> QED BY <3>1, <3>3, <3>4
  <2> QED BY <2>1, <2>2
<1>5. ASSUME NEW w \in Workers, pc'[w] = "check",
             NEW d \in Ancestors(task'[w]), graph.quot[d]
      PROVE  sawQuot'[w]
  <2>1. CASE pc[w] = "check"
    <3>1. task'[w] = task[w] /\ sawQuot'[w] = sawQuot[w]
      BY <2>1, Entries DEF Pop, BuildView
    <3> QED BY <1>5, <2>1, <3>1 DEF QuotInv
  <2>2. CASE pc[w] # "check"
    <3>1. BuildView(w)
      BY <1>5, <2>2, Entries
    <3>2. pc[w] = "view" /\ task' = task /\ sawQuot'[w] = quotInitialized
      BY <3>1 DEF BuildView, IndInv, TypeOK
    <3>3. task[w] \in Tasks /\ pending[task[w]] = 0
      BY <3>2 DEF IndInv, PoolInv, LocalsInv, ReadyInv, Busy
    <3>4. d \in Tasks /\ released[d] # {}
      BY <1>5, <3>2, <3>3, ReadyTasks
    <3> QED BY <1>5, <3>2, <3>4 DEF QuotInv
  <2> QED BY <2>1, <2>2
<1>6. \A w \in Workers :
          (pc[w] = "check" /\ \E d \in Ancestors(task[w]) : graph.quot[d])' => sawQuot'[w]
  BY <1>1, <1>5 DEF Ancestors
<1> QED BY <1>1, <1>2, <1>3, <1>4, <1>6 DEF QuotInv

-----------------------------------------------------------------------------
(* What is rejected is bad. *)

\* How the graph orders its lookups does not change in a run.
LEMMA LooksBackStays ==
    ASSUME IndInv, [Next]_vars
    PROVE  LooksBack' <=> LooksBack
<1>1. graph' = graph /\ Tasks' = Tasks
  BY Writers, Touching
<1>2. \A t \in Tasks : Ancestors(t)' = Ancestors(t)
  BY <1>1 DEF Ancestors
<1> QED BY <1>1, <1>2 DEF LooksBack

\* A failed check of a graph that orders the lookups found every constant
\* and the quotient flag: its error is the one the task's content deserves.
LEMMA FailedCheck ==
    ASSUME IndInv, QuotInv, LooksBack, NEW w \in Workers, pc[w] = "check",
           Verdict(task[w], sawQuot[w]) # "ok"
    PROVE  IsBad(task[w], Verdict(task[w], sawQuot[w]))
<1> DEFINE t == task[w]
<1>1. t \in Tasks /\ pending[t] = 0
  BY DEF IndInv, PoolInv, LocalsInv, ReadyInv, Busy
<1>2. /\ \A d \in graph.deps[t] : d \in Tasks /\ Flipped(d)
      /\ \A d \in Ancestors(t) : Flipped(d)
  BY <1>1, ReadyTasks
<1>3. graph.uses[t] \subseteq admitted
  BY <1>1, <1>2 DEF LooksBack, Flipped
<1>4. graph.reduces[t] => sawQuot[w]
  BY <1>1 DEF LooksBack, QuotInv
<1>5. Verdict(t, sawQuot[w]) = graph.content[t]
  BY <1>3, <1>4 DEF Verdict
<1> QED BY <1>1, <1>2, <1>5 DEF IsBad, Accepted

LEMMA BlameStep == IndInv /\ QuotInv /\ BlameInv /\ [Next]_vars => BlameInv'
<1> SUFFICES ASSUME IndInv, QuotInv, BlameInv, [Next]_vars, LooksBack'
             PROVE  /\ \A w \in Workers : pc'[w] = "fail" => IsBad(task[w], error[w])'
                    /\ failure' # NoFailure => IsBad(failure.task, failure.error)'
  BY DEF BlameInv
<1>1. graph' = graph /\ Tasks' = Tasks /\ Accepted \subseteq Accepted'
  BY Writers, Touching
<1>2. LooksBack
  BY LooksBackStays
<1>3. ASSUME NEW w \in Workers, pc'[w] = "fail"
      PROVE  /\ task'[w] \in Tasks /\ graph.deps[task'[w]] \subseteq Accepted
             /\ graph.content[task'[w]] # "ok" /\ error'[w] = graph.content[task'[w]]
  <2>1. CASE pc[w] = "fail"
    <3>1. task'[w] = task[w] /\ error'[w] = error[w]
      BY <2>1, Entries DEF Pop, CheckTask
    <3> QED BY <1>2, <2>1, <3>1 DEF BlameInv, IsBad
  <2>2. CASE pc[w] # "fail"
    <3>1. CheckTask(w)
      BY <1>3, <2>2, Entries
    <3>2. /\ pc[w] = "check" /\ task' = task /\ pc \in [Workers -> Locations]
          /\ error'[w] = Verdict(task[w], sawQuot[w])
      BY <3>1 DEF CheckTask, IndInv, TypeOK
    <3>3. error'[w] # "ok"
      BY <1>3, <3>1, <3>2 DEF CheckTask, Goto
    <3> QED BY <1>2, <3>2, <3>3, FailedCheck DEF IsBad
  <2> QED BY <2>1, <2>2
<1>4. ASSUME failure' # NoFailure
      PROVE  /\ failure'.task \in Tasks /\ graph.deps[failure'.task] \subseteq Accepted
             /\ graph.content[failure'.task] # "ok"
             /\ failure'.error = graph.content[failure'.task]
  <2>1. CASE failure' = failure
    BY <1>2, <1>4, <2>1 DEF BlameInv, IsBad
  <2>2. CASE failure' # failure
    <3>1. PICK w \in Workers : RecordFailure(w)
      BY <2>2, Writers
    <3>2. pc[w] = "fail" /\ failure' = [task |-> task[w], error |-> error[w]]
      BY <2>2, <3>1 DEF RecordFailure
    <3>3. IsBad(task[w], error[w])
      BY <1>2, <3>2 DEF BlameInv
    <3> QED BY <3>2, <3>3 DEF IsBad
  <2> QED BY <2>1, <2>2
<1> QED BY <1>1, <1>3, <1>4 DEF IsBad

\* The slot is never emptied again, and RecordFailure leaves it full.
LEMMA CancelStep == IndInv /\ CancelInv /\ [Next]_vars => CancelInv'
<1> SUFFICES ASSUME IndInv, CancelInv, [Next]_vars PROVE CancelInv'
  OBVIOUS
<1>1. ASSUME NEW w \in Workers, RecordFailure(w) PROVE failure' # NoFailure
  <2>1. task[w] \in Nat /\ error[w] \in Contents \cup {"unknown_constant"}
    BY GraphShape DEF IndInv, TypeOK
  <2>2. [task |-> task[w], error |-> error[w]] \in Failures
    BY <2>1 DEF Failures
  <2> QED BY <1>1, <2>2, SlotsAssumption DEF RecordFailure
<1>2. failure # NoFailure => failure' # NoFailure
  BY <1>1, Writers
<1>3. cancelled => cancelled'
  BY Writers DEF Cancel
<1>4. ASSUME NEW w \in Workers, pc'[w] \in {"cancel", "bail"} PROVE failure' # NoFailure
  <2>1. CASE pc[w] \in {"cancel", "bail"}
    BY <1>2, <2>1 DEF CancelInv
  <2>2. CASE pc[w] \notin {"cancel", "bail"}
    BY <1>1, <1>4, <2>2, Entries DEF Cancel
  <2> QED BY <2>1, <2>2
<1>5. ASSUME NEW w \in Workers, pc'[w] = "bail" PROVE cancelled'
  BY <1>3, <1>5, Entries DEF CancelInv, Cancel
<1>6. ASSUME cancelled' PROVE failure' # NoFailure
  <2>1. CASE cancelled
    BY <1>2, <2>1 DEF CancelInv
  <2>2. CASE ~cancelled
    <3>1. PICK w \in Workers : Cancel(w)
      BY <1>6, <2>2, Writers
    <3>2. pc[w] = "cancel"
      BY <3>1 DEF Cancel
    <3> QED BY <1>2, <3>2 DEF CancelInv
  <2> QED BY <2>1, <2>2
<1> QED BY <1>4, <1>5, <1>6 DEF CancelInv

-----------------------------------------------------------------------------
(* The end of the pool. *)

\* A worker that drains has seen an empty queue and nobody busy; from then
\* on there is nothing to pop, hence nobody to become busy.
LEMMA DrainStep == IndInv /\ CancelInv /\ DrainIsFinal /\ [Next]_vars => DrainIsFinal'
<1> SUFFICES ASSUME IndInv, CancelInv, DrainIsFinal, [Next]_vars, ~cancelled',
                    NEW v \in Workers, pc'[v] = "exited"
             PROVE  queue' = << >> /\ \A w \in Workers : pc'[w] \notin Busy
  BY DEF DrainIsFinal
<1>1. ~cancelled
  BY Writers DEF Cancel
<1>2. queue = << >> /\ \A w \in Workers : pc[w] \notin Busy
  <2>1. CASE pc[v] = "exited"
    BY <1>1, <2>1 DEF DrainIsFinal
  <2>2. CASE pc[v] # "exited"
    <3>1. Drain(v)
      BY <1>1, <2>2, Entries DEF Bail, CancelInv
    <3>2. queue = << >> /\ Cardinality(BusyWorkers) = 0
      BY <3>1 DEF Drain, IndInv, InFlightExact, BusyWorkers
    <3>3. BusyWorkers = {}
      BY <3>2, BusyCount, FS_EmptySet
    <3> QED BY <3>2, <3>3 DEF BusyWorkers
  <2> QED BY <2>1, <2>2
<1>3. queue' = << >>
  BY <1>2, Writers DEF Pop, Complete, Busy
<1>4. ASSUME NEW w \in Workers, pc'[w] \in Busy PROVE FALSE
  <2>1. pc'[w] # pc[w] /\ ~Pop(w)
    BY <1>2, <1>4 DEF Pop
  <2> QED
    BY <1>2, <1>4, <2>1, Entries
    DEF Busy, BuildView, CheckTask, Admit, PublishQuot, Tally, Decrement, RecordFailure, Cancel
<1> QED BY <1>3, <1>4

\* The verdict is read when no worker is left, and nothing moves after it.
LEMMA JoinStep == IndInv /\ JoinInv /\ [Next]_vars => JoinInv'
<1> SUFFICES ASSUME IndInv, JoinInv, [Next]_vars, result' # Running, NEW w \in Workers
             PROVE  pc'[w] = "exited"
  BY DEF JoinInv
<1>1. pc[w] = "exited"
  BY Writers DEF JoinInv, Join
<1> QED BY <1>1, Entries

-----------------------------------------------------------------------------
(* Where the ready tasks are. *)

\* A ready task stays where it is or moves on: from a list to the queue,
\* from the queue to a worker.
LEMMA Moving ==
    ASSUME IndInv, [Next]_vars, NEW t \in Tasks
    PROVE  /\ t \in Elements(queue') =>
                  t \in Elements(queue) \/ \E w \in Workers : t \in Elements(newly[w])
           /\ \A w \in Workers : t \in Elements(newly'[w]) =>
                  t \in Elements(newly[w]) \/ pending[t] > 0
           /\ t \in Elements(queue) =>
                  t \in Elements(queue') \/ \E w \in Workers : Pop(w) /\ t = Head(queue)
           /\ \A w \in Workers : t \in Elements(newly[w]) =>
                  t \in Elements(queue') \/ t \in Elements(newly'[w])
           /\ pending'[t] = 0 =>
                  pending[t] = 0 \/ \E w \in Workers : t \in Elements(newly'[w])
           /\ released[t] \subseteq released'[t]
<1>1. /\ queue \in Seq(Tasks) /\ newly \in [Workers -> Seq(Tasks)] /\ Injective(queue)
      /\ pending \in [Tasks -> Nat] /\ rest \in [Workers -> SUBSET Tasks]
      /\ released \in [Tasks -> SUBSET Tasks]
  BY DEF IndInv, PoolInv, UniqueInv, TypeOK
<1>2. CASE UNCHANGED <<queue, newly, pending, released>>
  BY <1>2
<1>3. ASSUME NEW w \in Workers, Pop(w)
      PROVE  /\ Elements(queue') = Elements(queue) \ {Head(queue)}
             /\ UNCHANGED <<newly, pending, released>>
  BY <1>1, <1>3, TailElements DEF Pop
<1>4. ASSUME NEW w \in Workers, Complete(w)
      PROVE  /\ Elements(queue') = Elements(queue) \cup Elements(newly[w])
             /\ \A v \in Workers \ {w} : newly'[v] = newly[v]
             /\ Elements(newly'[w]) = {}
             /\ UNCHANGED <<pending, released>>
  BY <1>1, <1>4, ConcatElements, EmptyElements DEF Complete
<1>5. ASSUME NEW w \in Workers, Decrement(w)
      PROVE  /\ queue' = queue
             /\ \A v \in Workers \ {w} : newly'[v] = newly[v]
             /\ \A x \in Tasks : released[x] \subseteq released'[x]
             /\ \E u \in Tasks :
                    /\ \A x \in Tasks \ {u} : pending'[x] = pending[x]
                    /\ pending[u] > 0
                    /\ \/ newly'[w] = newly[w] /\ pending'[u] # 0
                       \/ Elements(newly'[w]) = Elements(newly[w]) \cup {u}
  <2>1. PICK u \in rest[w] :
          /\ pending' = [pending EXCEPT ![u] = pending[u] - 1]
          /\ newly' = [newly EXCEPT ![w] = IF pending[u] = 1 THEN Append(newly[w], u)
                                           ELSE newly[w]]
          /\ released' = [released EXCEPT ![task[w]] = released[task[w]] \cup {u}]
    BY <1>5 DEF Decrement
  <2>2. u \in Tasks
    BY <1>1, <2>1
  <2>3. pending' \in [Tasks -> Nat]
    BY <1>5, DecrementStep
  <2>4. pending[u] > 0 /\ \A x \in Tasks \ {u} : pending'[x] = pending[x]
    <3>1. pending'[u] = pending[u] - 1
      BY <1>1, <2>1, <2>2
    <3>2. pending[u] \in Nat /\ pending'[u] \in Nat
      BY <1>1, <2>2, <2>3
    <3> QED BY <1>1, <2>1, <2>2, <3>1, <3>2
  <2>5. \/ newly'[w] = newly[w] /\ pending'[u] # 0
        \/ Elements(newly'[w]) = Elements(newly[w]) \cup {u}
    <3>1. CASE pending[u] = 1
      <4>1. newly'[w] = Append(newly[w], u) /\ newly[w] \in Seq(Tasks)
        BY <1>1, <2>1, <3>1
      <4> QED BY <2>2, <4>1, AppendElements
    <3>2. CASE pending[u] # 1
      BY <1>1, <2>1, <2>2, <3>2
    <3> QED BY <3>1, <3>2
  <2>6. queue' = queue
    BY <1>5 DEF Decrement, poolVars
  <2>7. \A v \in Workers \ {w} : newly'[v] = newly[v]
    BY <1>1, <2>1
  <2>8. \A x \in Tasks : released[x] \subseteq released'[x]
    BY <1>1, <2>1
  <2> QED BY <2>2, <2>4, <2>5, <2>6, <2>7, <2>8
<1>6. CASE \E w \in Workers : Pop(w)
  BY <1>3, <1>6
<1>7. CASE \E w \in Workers : Complete(w)
  BY <1>4, <1>7
<1>8. CASE \E w \in Workers : Decrement(w)
  <2>1. PICK w \in Workers : Decrement(w)
    BY <1>8
  <2>2. PICK u \in Tasks :
            /\ \A x \in Tasks \ {u} : pending'[x] = pending[x]
            /\ pending[u] > 0
            /\ \/ newly'[w] = newly[w] /\ pending'[u] # 0
               \/ Elements(newly'[w]) = Elements(newly[w]) \cup {u}
    BY <1>5, <2>1
  <2> QED BY <1>5, <2>1, <2>2
<1> QED BY <1>2, <1>6, <1>7, <1>8, Writers

\* A worker holds its task until the critical section that ends it, and
\* gets one by popping it.
LEMMA Holding ==
    ASSUME IndInv, [Next]_vars, NEW t \in Tasks
    PROVE  /\ Held(t)' => Held(t) \/ \E w \in Workers : Pop(w) /\ t = Head(queue)
           /\ Held(t) => Held(t)' \/ \E w \in Workers :
                                         task[w] = t /\ (Complete(w) \/ Bail(w))
           /\ \A w \in Workers : Pop(w) /\ t = Head(queue) => Held(t)'
           /\ \A w \in Workers : pc[w] = "admit" /\ task[w] = t => Held(t)'
<1>1. pc \in [Workers -> Locations] /\ task \in [Workers -> Tasks \cup {0}]
  BY DEF IndInv, TypeOK
<1>2. ASSUME NEW w \in Workers, Pop(w)
      PROVE  task'[w] = Head(queue) /\ pc'[w] = "view"
  BY <1>1, <1>2 DEF Pop, Goto
<1>3. ASSUME NEW w \in Workers, pc'[w] \in Busy, task'[w] = t
      PROVE  (pc[w] \in Busy /\ task[w] = t) \/ (Pop(w) /\ t = Head(queue))
  <2>1. CASE Pop(w)
    BY <1>2, <1>3, <2>1
  <2>2. CASE ~Pop(w)
    <3>1. task'[w] = task[w]
      BY <2>2, Entries
    <3>2. pc[w] \in Busy
      BY <1>3, <2>2, Entries
      DEF Busy, BuildView, CheckTask, Admit, PublishQuot, Tally, Decrement, RecordFailure,
          Cancel
    <3> QED BY <1>3, <3>1, <3>2
  <2> QED BY <2>1, <2>2
<1>4. ASSUME NEW w \in Workers, pc[w] \in Busy, task[w] = t
      PROVE  (pc'[w] \in Busy /\ task'[w] = t) \/ Complete(w) \/ Bail(w)
  BY <1>4, Entries DEF Busy, Pop
<1>5. ASSUME NEW w \in Workers, pc[w] = "admit" PROVE ~Complete(w) /\ ~Bail(w)
  BY <1>5 DEF Complete, Bail
<1> QED BY <1>2, <1>3, <1>4, <1>5 DEF Held, Busy

\* Admitting concerns the one worker that holds the task; a task that waits
\* in the queue, in a list, or with another worker stays untouched.
LEMMA UntouchedStep == IndInv /\ UntouchedInv /\ [Next]_vars => UntouchedInv'
<1> SUFFICES ASSUME IndInv, UntouchedInv, [Next]_vars PROVE UntouchedInv'
  OBVIOUS
<1>1. /\ queue \in Seq(Tasks) /\ newly \in [Workers -> Seq(Tasks)] /\ Tasks' = Tasks
      /\ queue' \in Seq(Tasks) /\ newly' \in [Workers -> Seq(Tasks)]
  BY Touching, TypeStep DEF IndInv, TypeOK
<1>2. ASSUME NEW t \in Tasks,
             t \in Elements(queue) \/ (\E w \in Workers : t \in Elements(newly[w]))
                 \/ pending[t] > 0
      PROVE  ~Touched(t)'
  <2>1. ~Touched(t)
    BY <1>2, Touching DEF UntouchedInv
  <2>2. \A w \in Workers : ~(pc[w] = "admit" /\ task[w] = t)
    BY <1>2 DEF IndInv, PoolInv, UniqueInv, ReadyInv, Busy
  <2> QED BY <2>1, <2>2, Touching
<1>3. \A t \in Elements(queue') : t \in Tasks /\ ~Touched(t)'
  BY <1>1, <1>2, Moving, ElementsInside
<1>4. \A w \in Workers : \A t \in Elements(newly'[w]) : t \in Tasks /\ ~Touched(t)'
  BY <1>1, <1>2, Moving, ElementsInside
<1>5. ASSUME NEW w \in Workers, pc'[w] \in {"view", "check"} \cup Failing,
             NEW t \in {task'[w]}
      PROVE  ~Touched(t)'
  <2>1. CASE pc[w] \in {"view", "check"} \cup Failing
    <3>1. task'[w] = task[w] /\ task[w] \in Tasks
      BY <2>1, Entries DEF Pop, Failing, IndInv, PoolInv, LocalsInv, Busy
    <3>2. \A v \in Workers : ~(pc[v] = "admit" /\ task[v] = task[w])
      BY <2>1 DEF Failing, IndInv, PoolInv, UniqueInv, Busy
    <3> QED BY <1>5, <2>1, <3>1, <3>2, Touching DEF UntouchedInv
  <2>2. CASE pc[w] \notin {"view", "check"} \cup Failing
    <3>1. Pop(w)
      BY <1>5, <2>2, Entries DEF Failing, BuildView, CheckTask, RecordFailure, Cancel
    <3>2. task'[w] = Head(queue)
      BY <3>1 DEF Pop, IndInv, TypeOK
    <3>3. Head(queue) \in Elements(queue) /\ Head(queue) \in Tasks
      BY <1>1, <3>1, TailElements DEF Pop, IndInv, PoolInv, UniqueInv
    <3> QED BY <1>2, <1>5, <3>2, <3>3
  <2> QED BY <2>1, <2>2
<1>6. \A w \in Workers : (pc[w] \in {"view", "check"} \cup Failing => ~Touched(task[w]))'
  BY <1>5
<1> QED BY <1>3, <1>4, <1>6 DEF UntouchedInv

\* Before any failure a ready task is queued, listed, held or accepted: the
\* one action that drops a task, Bail, comes after the flag is raised.
LEMMA PlacedStep == IndInv /\ CancelInv /\ PlacedInv /\ [Next]_vars => PlacedInv'
<1> SUFFICES ASSUME IndInv, CancelInv, PlacedInv, [Next]_vars, ~cancelled',
                    NEW t \in Tasks, pending'[t] = 0
             PROVE  \/ t \in Elements(queue')
                    \/ \E w \in Workers : t \in Elements(newly'[w])
                    \/ Held(t)'
                    \/ Flipped(t)'
  BY Touching DEF PlacedInv, Accepted
<1>1. ~cancelled
  BY Writers DEF Cancel
<1>2. CASE t \in Elements(queue)
  BY <1>2, Moving, Holding
<1>3. CASE \E w \in Workers : t \in Elements(newly[w])
  BY <1>3, Moving
<1>4. CASE Held(t)
  <2>1. CASE Held(t)'
    BY <2>1
  <2>2. CASE \E w \in Workers : task[w] = t /\ (Complete(w) \/ Bail(w))
    <3>1. PICK w \in Workers : task[w] = t /\ (Complete(w) \/ Bail(w))
      BY <2>2
    <3>2. pc[w] = "complete"
      BY <1>1, <3>1 DEF Complete, Bail, CancelInv
    <3>3. Flipped(t)
      BY <3>1, <3>2 DEF IndInv, PoolInv, AdmittedInv, Settled, Finishing
    <3> QED BY <3>3, Touching
  <2> QED BY <1>4, <2>1, <2>2, Holding
<1>5. CASE t \in Accepted
  BY <1>5, Touching DEF Accepted
<1>6. CASE pending[t] # 0
  BY <1>6, Moving
<1> QED BY <1>1, <1>2, <1>3, <1>4, <1>5, <1>6 DEF PlacedInv

\* Only the completion critical section makes a task over, and it counts
\* it: no other worker holds the task.
LEMMA OverStep == IndInv /\ UntouchedInv /\ OverInv /\ [Next]_vars => OverInv'
<1> SUFFICES ASSUME IndInv, UntouchedInv, OverInv, [Next]_vars PROVE OverInv'
  OBVIOUS
<1>1. graph' = graph /\ Tasks' = Tasks /\ graph \in Graphs
  BY Writers, Touching DEF IndInv, TypeOK
<1>2. IsFiniteSet(Over) /\ Over \subseteq Tasks
  BY <1>1, GraphShape, FS_Subset DEF Over, Accepted
<1>3. ASSUME NEW t \in Over PROVE t \in Over'
  <2>1. t \in Tasks /\ Flipped(t) /\ Flipped(t)' /\ Touched(t) /\ ~Held(t)
    BY <1>3, Touching DEF Over, Accepted
  <2>2. \A w \in Workers : ~(Pop(w) /\ t = Head(queue))
    <3> SUFFICES ASSUME NEW w \in Workers, Pop(w) PROVE Head(queue) # t
      OBVIOUS
    <3>1. Head(queue) \in Elements(queue)
      BY TailElements DEF Pop, IndInv, PoolInv, UniqueInv, TypeOK
    <3> QED BY <2>1, <3>1 DEF UntouchedInv
  <2>3. ~Held(t)'
    BY <2>1, <2>2, Holding
  <2> QED BY <1>1, <2>1, <2>3 DEF Over, Accepted
<1>4. ASSUME NEW t \in Over', t \notin Over
      PROVE  t \in Tasks /\ Flipped(t) /\ \E w \in Workers : Complete(w) /\ task[w] = t
  <2>1. t \in Tasks /\ Flipped(t)' /\ ~Held(t)'
    BY <1>1, <1>4 DEF Over, Accepted
  <2>2. Flipped(t) /\ Touched(t)
    BY <2>1, Touching, Holding
  <2>3. Held(t)
    BY <1>4, <2>1, <2>2 DEF Over, Accepted
  <2>4. PICK w \in Workers : task[w] = t /\ (Complete(w) \/ Bail(w))
    BY <2>1, <2>3, Holding
  <2>5. ~Bail(w)
    BY <2>2, <2>4 DEF Bail, UntouchedInv, Failing
  <2> QED BY <2>1, <2>2, <2>4, <2>5
<1>5. ASSUME NEW w \in Workers, Complete(w)
      PROVE  /\ Over' = Over \cup {task[w]} /\ task[w] \notin Over /\ done' = done + 1
             /\ Dependents(task[w]) \subseteq released[task[w]]
  <2>1. pc[w] = "complete" /\ UNCHANGED <<admitted, task, released>> /\ done' = done + 1
    BY <1>5 DEF Complete, tableVars
  <2>2. task[w] \in Tasks /\ Flipped(task[w])
    BY <2>1 DEF IndInv, PoolInv, LocalsInv, AdmittedInv, Settled, Finishing, Busy
  <2>3. task[w] \notin Over
    BY <2>1 DEF Over, Held, Busy
  <2>4. ~Held(task[w])'
    <3>1. \A v \in Workers : pc'[v] \in Busy => v # w /\ pc[v] \in Busy
      BY <1>5 DEF Complete, NotifyAllAndGoto, Busy
    <3>2. \A v \in Workers : v # w /\ pc[v] \in Busy => task[v] # task[w]
      BY <2>1 DEF IndInv, PoolInv, UniqueInv, Busy
    <3> QED BY <2>1, <3>1, <3>2 DEF Held
  <2>5. task[w] \in Over'
    BY <1>1, <2>1, <2>2, <2>4 DEF Over, Accepted, Flipped
  <2>6. ASSUME NEW t \in Over', t \notin Over PROVE t = task[w]
    <3>1. PICK v \in Workers : Complete(v) /\ task[v] = t
      BY <1>4, <2>6
    <3>2. t \notin {task[v]} \/ v = w
      <4>1. pc[v] = "complete" /\ pc \in [Workers -> Locations]
        BY <3>1 DEF Complete, IndInv, TypeOK
      <4>2. pc'[v] = "progress"
        BY <3>1, <4>1 DEF Complete, NotifyAllAndGoto
      <4>3. v # w => pc'[v] \in {pc[v], "acquire"}
        BY <1>5, <4>1 DEF Complete, NotifyAllAndGoto
      <4> QED BY <4>1, <4>2, <4>3
    <3> QED BY <3>1, <3>2
  <2>7. Dependents(task[w]) \subseteq released[task[w]]
    BY <2>1 DEF OverInv
  <2> QED BY <1>3, <2>1, <2>3, <2>5, <2>6, <2>7
<1>6. done' = Cardinality(Over')
  <2>1. CASE \E w \in Workers : Complete(w)
    BY <1>2, <1>5, <2>1, FS_AddElement DEF OverInv
  <2>2. CASE ~\E w \in Workers : Complete(w)
    <3>1. Over' = Over
      BY <1>3, <1>4, <2>2
    <3>2. done' = done
      BY <2>2, Writers
    <3> QED BY <3>1, <3>2 DEF OverInv
  <2> QED BY <2>1, <2>2
<1>7. ASSUME NEW t \in Over' PROVE Dependents(t) \subseteq released'[t]
  <2>1. t \in Tasks
    BY <1>1, <1>7 DEF Over, Accepted
  <2>2. Dependents(t) \subseteq released[t]
    BY <1>4, <1>5, <1>7 DEF OverInv
  <2> QED BY <2>1, <2>2, Moving
<1>8. ASSUME NEW w \in Workers, pc'[w] = "complete"
      PROVE  Dependents(task'[w]) \subseteq released'[task'[w]]
  <2>1. CASE pc[w] = "complete"
    <3>1. task'[w] = task[w] /\ task[w] \in Tasks
      BY <2>1, Entries DEF Pop, IndInv, PoolInv, LocalsInv, Busy
    <3> QED BY <2>1, <3>1, Moving DEF OverInv
  <2>2. CASE Tally(w)
    <3>1. Dependents(task[w]) = {} /\ task' = task
      BY <1>8, <2>2 DEF Tally, Goto, IndInv, TypeOK
    <3> QED BY <3>1
  <2>3. CASE Decrement(w)
    <3>1. /\ pc[w] = "decrement" /\ task' = task /\ task[w] \in Tasks
          /\ pc \in [Workers -> Locations] /\ released \in [Tasks -> SUBSET Tasks]
          /\ rest[w] = Dependents(task[w]) \ released[task[w]]
      BY <2>3 DEF Decrement, IndInv, PoolInv, LocalsInv, TypeOK, Busy
    <3>2. PICK u \in rest[w] :
            /\ released' = [released EXCEPT ![task[w]] = released[task[w]] \cup {u}]
            /\ pc' = [pc EXCEPT ![w] = IF rest[w] = {u} THEN "complete" ELSE "decrement"]
      BY <2>3 DEF Decrement, Goto
    <3>3. rest[w] = {u} /\ released'[task[w]] = released[task[w]] \cup {u}
      BY <1>8, <3>1, <3>2
    <3> QED BY <3>1, <3>3
  <2> QED BY <1>8, <2>1, <2>2, <2>3, Entries
<1>9. \A t \in Over' : (Dependents(t) \subseteq released[t])'
  BY <1>1, <1>7 DEF Dependents
<1>10. \A w \in Workers :
           (pc[w] = "complete" => Dependents(task[w]) \subseteq released[task[w]])'
  BY <1>1, <1>8 DEF Dependents
<1> QED BY <1>6, <1>9, <1>10 DEF OverInv

-----------------------------------------------------------------------------
(* The verdict. *)

\* Every task without dependencies is seeded: the queue lists Roots without
\* repetition and is as long as Roots is large.
LEMMA SeedsCoverRoots ==
    ASSUME Init, NEW t \in Roots(graph)
    PROVE  t \in Elements(queue)
<1> SUFFICES ASSUME t \notin Elements(queue) PROVE FALSE
  OBVIOUS
<1> DEFINE n == Cardinality(Roots(graph))
<1>1. IndInv /\ graph \in Graphs
  BY InitIndInv DEF Init
<1>2. Roots(graph) \subseteq Tasks /\ IsFiniteSet(Roots(graph)) /\ n \in Nat
  BY <1>1, GraphShape, FS_Subset, FS_CardinalityType DEF Roots, Tasks
<1>3. queue \in [1 .. n -> Roots(graph)] /\ Len(queue) = n
  BY <1>1, <1>2 DEF Init, Seeds, IndInv, TypeOK
<1>4. queue \in [1 .. n -> Roots(graph) \ {t}]
  BY <1>3 DEF Elements
<1>5. IsFiniteSet(Roots(graph) \ {t}) /\ Cardinality(Roots(graph) \ {t}) = n - 1
  BY <1>2, FS_RemoveElement
<1>6. n # 0
  BY <1>2, FS_EmptySet
<1>7. IsFiniteSet(1 .. n) /\ Cardinality(1 .. n) = n
  BY <1>2, <1>6, FS_Interval
<1>8. \E i, j \in 1 .. n : i # j /\ queue[i] = queue[j]
  BY <1>2, <1>4, <1>5, <1>7, FS_PigeonHole
<1> QED BY <1>1, <1>3, <1>8 DEF IndInv, PoolInv, UniqueInv, Injective

LEMMA InitVerdictInv == Init => VerdictInv
<1> SUFFICES ASSUME Init PROVE VerdictInv
  OBVIOUS
<1>1. /\ graph \in Graphs /\ admitted = {} /\ ~cancelled /\ failure = NoFailure
      /\ result = Running /\ done = 0
      /\ \A w \in Workers : pc[w] = "acquire" /\ newly[w] = << >>
      /\ \A t \in Tasks : released[t] = {} /\ pending[t] = Cardinality(graph.deps[t])
  BY DEF Init, InitialPending
<1>2. \A t \in Tasks : ~Touched(t) /\ ~Flipped(t)
  BY <1>1, NamesExist DEF Touched, Flipped
<1>3. GoodInv /\ SequentialInv
  BY <1>1, <1>2 DEF GoodInv, SequentialInv, Settled, Finishing
<1>4. QuotInv /\ BlameInv /\ CancelInv /\ DrainIsFinal /\ JoinInv
  BY <1>1 DEF QuotInv, BlameInv, CancelInv, DrainIsFinal, JoinInv, Finishing
<1>5. UntouchedInv
  <2>1. \A t \in Elements(queue) : t \in Tasks
    BY InitIndInv, ElementsInside DEF IndInv, TypeOK
  <2> QED BY <1>1, <1>2, <2>1, EmptyElements DEF UntouchedInv, Failing
<1>6. PlacedInv
  <2> SUFFICES ASSUME NEW t \in Tasks, pending[t] = 0 PROVE t \in Elements(queue)
    BY DEF PlacedInv
  <2>1. graph.deps[t] = {}
    BY <1>1, GraphShape, FS_EmptySet
  <2> QED BY <2>1, SeedsCoverRoots DEF Roots, Tasks
<1>7. OverInv
  <2>1. Over = {}
    BY <1>2 DEF Over, Accepted
  <2> QED BY <1>1, <2>1, FS_EmptySet DEF OverInv
<1> QED BY <1>3, <1>4, <1>5, <1>6, <1>7 DEF VerdictInv

LEMMA VerdictInvStep == IndInv /\ VerdictInv /\ [Next]_vars => VerdictInv'
  BY GoodStep, SequentialStep, QuotStep, BlameStep, CancelStep, DrainStep, UntouchedStep,
     PlacedStep, OverStep, JoinStep
  DEF VerdictInv

\* A sequential checker gets through everything that is accepted.
LEMMA AcceptedIsCheckable == IndInv /\ SequentialInv => Accepted \subseteq Checkable
<1> SUFFICES ASSUME IndInv, SequentialInv, NEW t \in Tasks, Flipped(t) PROVE t \in Checkable
  BY DEF Accepted
<1>1. Touched(t)
  BY NamesExist DEF IndInv, TypeOK, Touched, Flipped
<1> QED BY <1>1 DEF SequentialInv, Checkable

\* What is left when the workers are gone and none has failed: the accepted
\* tasks are those whose counter is at zero, they are all counted in done,
\* and no other task has all of its dependencies among them.
LEMMA AtTheEnd ==
    ASSUME IndInv, VerdictInv, \A w \in Workers : pc[w] = "exited", failure = NoFailure
    PROVE  /\ done = Cardinality(Accepted)
           /\ \A t \in Tasks : pending[t] = 0 <=> t \in Accepted
           /\ \A t \in Tasks : graph.deps[t] \subseteq Accepted => t \in Accepted
<1>1. /\ ~cancelled /\ queue = << >>
      /\ \A w \in Workers : pc[w] \notin Busy /\ newly[w] = << >>
  BY WorkersAssumption
  DEF VerdictInv, CancelInv, DrainIsFinal, IndInv, PoolInv, LocalsInv, Finishing
<1>2. Over = Accepted
  BY <1>1 DEF Over, Accepted, Held
<1>3. \A t \in Tasks : pending[t] = 0 => t \in Accepted
  BY <1>1, EmptyElements DEF VerdictInv, PlacedInv, Held
<1>4. \A t \in Tasks : t \in Accepted => pending[t] = 0
  BY NamesExist DEF Accepted, Flipped, IndInv, TypeOK, PoolInv, AdmittedInv
<1>5. ASSUME NEW t \in Tasks, graph.deps[t] \subseteq Accepted PROVE t \in Accepted
  <2>1. \A d \in graph.deps[t] : d \in Tasks /\ t \in released[d]
    BY <1>2, <1>5 DEF VerdictInv, OverInv, Dependents, Accepted
  <2>2. Unreleased(t) = {}
    BY <2>1 DEF Unreleased
  <2>3. pending[t] = 0
    BY <2>2, FS_EmptySet DEF IndInv, PoolInv, CountingInv
  <2> QED BY <1>3, <2>3
<1> QED BY <1>2, <1>3, <1>4, <1>5 DEF VerdictInv, OverInv

\* The verdict that Join reads off the failure slot and the counters is the
\* one the graph determines.
LEMMA JoinIsExact ==
    ASSUME IndInv, VerdictInv, LooksBack, Join
    PROVE  VerdictExact'
<1>1. /\ \A w \in Workers : pc[w] = "exited"
      /\ UNCHANGED <<graph, pending, failure, done, admitted>>
  BY DEF Join, poolVars, tableVars
<1>2. PICK b \in Tasks \cup {0} : StuckDecl(b) /\ result' = Outcome(b)
  BY DEF Join
<1>3. /\ graph \in Graphs /\ Accepted \subseteq Checkable /\ Accepted \subseteq Tasks
      /\ Checkable \subseteq Tasks
  BY AcceptedIsCheckable DEF IndInv, TypeOK, VerdictInv, Accepted, Checkable
<1>4. Tasks' = Tasks /\ Checkable' = Checkable /\ Rejectable' = Rejectable
  BY <1>1 DEF Tasks, Checkable, ClosedUnderChecking, Rejectable
<1>5. CASE failure # NoFailure
  <2>1. IsBad(failure.task, failure.error)
    BY <1>5 DEF VerdictInv, BlameInv
  <2>2. failure.task \in Rejectable /\ failure.error = graph.content[failure.task]
    BY <1>3, <2>1 DEF IsBad, Rejectable
  <2>3. result'.verdict = "failed" /\ result'.failure = failure
    BY <1>2, <1>5 DEF Outcome
  <2> QED BY <1>1, <1>4, <2>2, <2>3 DEF VerdictExact
<1>6. CASE failure = NoFailure
  <2>1. /\ done = Cardinality(Accepted)
        /\ \A t \in Tasks : pending[t] = 0 <=> t \in Accepted
        /\ \A t \in Tasks : graph.deps[t] \subseteq Accepted => t \in Accepted
    BY <1>1, <1>6, AtTheEnd
  <2>2. IsFiniteSet(Tasks) /\ Cardinality(Tasks) = graph.size
    BY <1>3, GraphShape, FS_Interval
  <2>3. CASE done = graph.size
    <3>1. Accepted = Tasks
      BY <1>3, <2>1, <2>2, <2>3, FS_Subset
    <3>2. Checkable = Tasks /\ \A t \in Tasks : Flipped(t)
      BY <1>3, <3>1 DEF Accepted
    <3>3. result'.verdict = "ok"
      BY <1>2, <1>6, <2>3 DEF Outcome
    <3> QED BY <1>1, <1>4, <3>2, <3>3 DEF VerdictExact, Flipped
  <2>4. CASE done # graph.size
    <3>1. Checkable = Accepted
      <4>1. Accepted \in SUBSET Tasks /\ ClosedUnderChecking(Accepted)
        BY <1>3, <2>1 DEF ClosedUnderChecking
      <4> QED BY <1>3, <4>1 DEF Checkable
    <3>2. Rejectable = {}
      <4> SUFFICES ASSUME NEW t \in Rejectable PROVE FALSE
        OBVIOUS
      <4>1. t \in Tasks /\ t \in Accepted /\ graph.content[t] # "ok"
        BY <2>1, <3>1 DEF Rejectable
      <4> QED BY <1>3, <4>1, NamesExist DEF VerdictInv, GoodInv, Touched, Accepted, Flipped
    <3>3. b \in Tasks \ Checkable
      <4>1. PICK t \in Tasks : t \notin Accepted
        BY <1>3, <2>1, <2>2, <2>4
      <4>2. pending \in [Tasks -> Nat]
        BY DEF IndInv, TypeOK
      <4>3. t \in Stuck
        BY <2>1, <4>1, <4>2 DEF Stuck
      <4>4. b \in Stuck
        BY <1>2, <4>3 DEF StuckDecl
      <4> QED BY <2>1, <3>1, <4>2, <4>4 DEF Stuck
    <3>4. result'.verdict = "cycle" /\ result'.blamed = b
      BY <1>2, <1>6, <2>4 DEF Outcome
    <3> QED BY <1>1, <1>4, <3>2, <3>3, <3>4 DEF VerdictExact
  <2> QED BY <2>3, <2>4
<1> QED BY <1>5, <1>6

\* Once check_parallel has returned, nothing moves.
LEMMA NothingAfterReturn ==
    ASSUME IndInv, VerdictInv, [Next]_vars, result # Running
    PROVE  UNCHANGED <<graph, admitted, result>>
<1>1. \A w \in Workers : pc[w] = "exited"
  BY DEF VerdictInv, JoinInv
<1> QED BY <1>1, Writers DEF Admit, Join

\* The invariant of the verdict, for every run.
LEMMA VerdictInductive == Spec => [](IndInv /\ VerdictInv)
<1>1. Init => IndInv /\ VerdictInv
  BY InitIndInv, InitVerdictInv
<1>2. IndInv /\ VerdictInv /\ [Next]_vars => (IndInv /\ VerdictInv)'
  BY IndInvStep, VerdictInvStep
<1> QED BY <1>1, <1>2, PTL DEF Spec

\* The drain test of schedule.rs is final: when a worker has returned and
\* no check has failed, no ready task is queued, running or about to be
\* queued, whatever the graph and the schedule.
THEOREM DrainCorrect == Spec => []DrainIsFinal
<1>1. VerdictInv => DrainIsFinal
  BY DEF VerdictInv
<1> QED BY <1>1, VerdictInductive, PTL

\* check_parallel returns the verdict the graph determines, for any number
\* of workers and every schedule, on every graph that orders its lookups.
THEOREM VerdictCorrect == Spec => [](LooksBack => VerdictExact)
<1> DEFINE Exact == LooksBack => VerdictExact
<1>1. Init => Exact
  BY DEF Init, VerdictExact
<1>2. IndInv /\ VerdictInv /\ Exact /\ [Next]_vars => Exact'
  <2> SUFFICES ASSUME IndInv, VerdictInv, Exact, [Next]_vars, LooksBack'
               PROVE  VerdictExact'
    OBVIOUS
  <2>1. graph' = graph /\ Tasks' = Tasks
    BY Writers, Touching
  <2>2. LooksBack
    BY LooksBackStays
  <2>3. CASE result # Running
    <3>1. UNCHANGED <<graph, admitted, result>>
      BY <2>3, NothingAfterReturn
    <3>2. Checkable' = Checkable /\ Rejectable' = Rejectable
      BY <2>1 DEF Checkable, ClosedUnderChecking, Rejectable
    <3> QED BY <2>1, <2>2, <2>3, <3>1, <3>2 DEF VerdictExact, Flipped
  <2>4. CASE result = Running /\ result' # Running
    BY <2>2, <2>4, Writers, JoinIsExact
  <2>5. CASE result' = Running
    BY <2>5 DEF VerdictExact
  <2> QED BY <2>3, <2>4, <2>5
<1> QED BY <1>1, <1>2, VerdictInductive, PTL DEF Spec

-----------------------------------------------------------------------------
(* The pool implements the sequential checker. *)

\* The last flag of a task is its turn in the sequential order, every other
\* flag is a stutter.
LEMMA AdmitIsAccept ==
    ASSUME IndInv, VerdictInv, NEW w \in Workers, Admit(w), [Next]_vars
    PROVE  [Sequential!Next]_Sequential!vars
<1> DEFINE t == task[w]
<1>1. /\ pc[w] = "admit" /\ t \in Tasks
      /\ \A u \in Tasks \ {t} : Flipped(u)' <=> Flipped(u)
  BY AdmitOne, Writers DEF Flipped
<1>2. graph' = graph /\ Tasks' = Tasks /\ result' = result /\ result = Running
  BY <1>1, Touching, Writers DEF Admit, VerdictInv, JoinInv
<1>3. CASE Accepted' = Accepted
  BY <1>2, <1>3 DEF Sequential!vars, Accepted
<1>4. CASE Accepted' # Accepted
  <2>1. t \notin Accepted /\ Accepted' = Accepted \cup {t}
    BY <1>1, <1>2, <1>4, Touching DEF Accepted
  <2>2. graph.deps[t] \subseteq Accepted /\ graph.content[t] = "ok"
    <3>1. pending[t] = 0
      BY <1>1 DEF IndInv, PoolInv, ReadyInv, Busy
    <3> QED BY <1>1, <3>1, ReadyTasks DEF Accepted, VerdictInv, GoodInv
  <2>3. t \in Sequential!Tasks
    BY <1>1 DEF Sequential!Tasks, Tasks, TasksOf
  <2>4. Sequential!Accept(t)
    BY <1>2, <2>1, <2>2, <2>3 DEF Sequential!Accept, Sequential!Eligible, Accepted
  <2> QED BY <2>3, <2>4 DEF Sequential!Next
<1> QED BY <1>3, <1>4

\* Reading the verdict is the step by which the sequential checker stops.
LEMMA JoinIsVerdict ==
    ASSUME IndInv, VerdictInv, LooksBack, Join, [Next]_vars
    PROVE  Sequential!Next
<1>1. /\ \A w \in Workers : pc[w] = "exited"
      /\ result = Running /\ UNCHANGED <<graph, admitted>>
  BY DEF Join, tableVars
<1>2. PICK b \in Tasks \cup {0} : StuckDecl(b) /\ result' = Outcome(b)
  BY DEF Join
<1>3. result' # Running
  BY JoinReturns, SlotsAssumption DEF IndInv
<1>4. Accepted' = Accepted /\ Sequential!Tasks = Tasks /\ Accepted \subseteq Tasks
  BY <1>1 DEF Accepted, Flipped, Tasks, TasksOf, Sequential!Tasks
<1>5. CASE failure # NoFailure
  <2> DEFINE t == failure.task
  <2>1. IsBad(t, failure.error)
    BY <1>5 DEF VerdictInv, BlameInv
  <2>2. t \in Tasks /\ t \notin Accepted
    BY <2>1, NamesExist DEF IsBad, Accepted, Flipped, VerdictInv, GoodInv, Touched, IndInv,
                            TypeOK
  <2>3. result'.verdict = "failed"
    BY <1>2, <1>5 DEF Outcome
  <2>4. Sequential!Reject(t)
    BY <1>1, <1>3, <1>4, <2>1, <2>2, <2>3
    DEF Sequential!Reject, Sequential!Eligible, IsBad, Accepted
  <2> QED BY <1>4, <2>2, <2>4 DEF Sequential!Next
<1>6. CASE failure = NoFailure
  <2>1. /\ done = Cardinality(Accepted)
        /\ \A t \in Tasks : graph.deps[t] \subseteq Accepted => t \in Accepted
    BY <1>1, <1>6, AtTheEnd
  <2>2. IsFiniteSet(Tasks) /\ Cardinality(Tasks) = graph.size
    BY GraphShape, FS_Interval DEF IndInv, TypeOK
  <2>3. CASE done = graph.size
    <3>1. Accepted = Tasks
      BY <1>4, <2>1, <2>2, <2>3, FS_Subset
    <3>2. result'.verdict = "ok"
      BY <1>2, <1>6, <2>3 DEF Outcome
    <3>3. Sequential!Succeed
      BY <1>1, <1>3, <1>4, <3>1, <3>2 DEF Sequential!Succeed, Accepted
    <3> QED BY <3>3 DEF Sequential!Next
  <2>4. CASE done # graph.size
    <3>1. Accepted # Tasks /\ Sequential!Eligible = {}
      BY <1>4, <2>1, <2>2, <2>4 DEF Sequential!Eligible, Accepted
    <3>2. result'.verdict = "cycle"
      BY <1>2, <1>6, <2>4 DEF Outcome
    <3>3. Sequential!Stall
      BY <1>1, <1>3, <1>4, <3>1, <3>2 DEF Sequential!Stall, Accepted
    <3> QED BY <3>3 DEF Sequential!Next
  <2> QED BY <2>3, <2>4
<1> QED BY <1>5, <1>6

\* Whatever the schedule, the worker pool accepts the tasks and stops as one
\* thread does that takes them in some dependency order, on every graph that
\* orders its lookups: threads change the order of the work and nothing else.
THEOREM PoolIsSequential == Spec /\ []LooksBack => ImplementsSequentialCheck
<1>1. Init => Sequential!Init
  <2> SUFFICES ASSUME Init PROVE Sequential!Init
    OBVIOUS
  <2>1. graph \in Graphs /\ admitted = {} /\ result = Running
    BY DEF Init
  <2>2. \A t \in Tasks : ~Flipped(t)
    BY <2>1, NamesExist DEF Flipped
  <2> QED BY <2>1, <2>2 DEF Sequential!Init
<1>2. IndInv /\ VerdictInv /\ LooksBack /\ [Next]_vars => [Sequential!Next]_Sequential!vars
  <2> SUFFICES ASSUME IndInv, VerdictInv, LooksBack, [Next]_vars
               PROVE  [Sequential!Next]_Sequential!vars
    OBVIOUS
  <2>1. CASE \E w \in Workers : Admit(w)
    BY <2>1, AdmitIsAccept
  <2>2. CASE Join
    BY <2>2, JoinIsVerdict
  <2>3. CASE UNCHANGED <<admitted, result>>
    <3>1. Accepted' = Accepted /\ graph' = graph
      BY <2>3, Writers, Touching DEF Accepted, Flipped
    <3> QED BY <2>3, <3>1 DEF Sequential!vars, Accepted
  <2> QED BY <2>1, <2>2, <2>3, Writers
<1> QED
  BY <1>1, <1>2, VerdictInductive, PTL DEF Spec, ImplementsSequentialCheck, Sequential!Spec

=============================================================================
