--------------------------- MODULE CheckScheduler ---------------------------
(***************************************************************************)
(* The worker pool of leanr_check (crates/leanr_check/src/schedule.rs):    *)
(* check_parallel hands the tasks of a dependency graph to a pool of       *)
(* threads.  A task runs once its per-task counter of unchecked            *)
(* dependencies reaches zero; its kernel check sees only constants whose   *)
(* admitted flag is set (crates/leanr_kernel/src/checked.rs).              *)
(*                                                                         *)
(* Atomicity.  One action is one critical section of the ready mutex, or   *)
(* one access to an atomic or to the failure mutex.  The mutex itself is   *)
(* the variable `lock', so that the cancelled flag, which is written       *)
(* without it, can change between the load at the top of the loop and the  *)
(* wait at the bottom.                                                     *)
(***************************************************************************)
EXTENDS Naturals, Sequences, FiniteSets

CONSTANTS Workers,      \* the threads of the pool, jobs.max(1) of them
          Graphs,       \* the dependency graphs a run may be given
          NoOne,        \* the ready mutex is free
          NoFailure,    \* the failure slot is None
          Running       \* check_parallel has not returned

(***************************************************************************)
(* A graph as the pool sees it, one entry per task of DepGraph.            *)
(*   deps[t]     dependency ids; a forged graph may name a task that does  *)
(*               not exist                                                 *)
(*   flips[t]    the names run_task admits when t succeeds, in order       *)
(*   admits[t]   the names the graph lists as admitted by t                *)
(*   uses[t]     the names the kernel check of t looks up in the table     *)
(*   content[t]  what the kernel says once all lookups succeed: "ok",      *)
(*               "rejected" (check_declaration fails) or "mismatch"        *)
(*               (resolve_and_compare fails)                               *)
(*   quot[t]     t is the quotient task                                    *)
(*   reduces[t]  the check of t reduces a quotient recursor                *)
(*   units[t]    task_checked_count                                        *)
(***************************************************************************)
ASSUME WorkersAssumption ==
    /\ Workers # {} /\ IsFiniteSet(Workers)
    /\ NoOne \notin Workers

Contents == {"ok", "rejected", "mismatch"}

TasksOf(g) == 1 .. g.size

NamesOf(g, t) == {g.flips[t][i] : i \in 1 .. Len(g.flips[t])}

IsGraph(g) ==
    /\ g.size \in Nat
    /\ g.deps \in [TasksOf(g) -> SUBSET Nat]
    /\ \A t \in TasksOf(g) : IsFiniteSet(g.deps[t])
    /\ g.flips \in [TasksOf(g) -> Seq(Nat)]
    /\ \A t \in TasksOf(g) : g.flips[t] # << >>
    /\ \A t, u \in TasksOf(g) : t # u => NamesOf(g, t) \cap NamesOf(g, u) = {}
    /\ g.uses \in [TasksOf(g) -> SUBSET Nat]
    /\ g.content \in [TasksOf(g) -> Contents]
    /\ g.quot \in [TasksOf(g) -> BOOLEAN]
    /\ g.reduces \in [TasksOf(g) -> BOOLEAN]
    /\ g.units \in [TasksOf(g) -> Nat]

ASSUME GraphsAssumption == \A g \in Graphs : IsGraph(g)

VARIABLES
    graph,            \* the graph under check, fixed
    pending,          \* per-task atomic counter of unfinished dependencies
    queue,            \* ReadyState.queue
    inFlight,         \* ReadyState.in_flight
    done,             \* ReadyState.done
    lock,             \* holder of the ready mutex
    cancelled,        \* the cancellation flag
    failure,          \* the first-failure slot
    checked,          \* CheckStats.checked accumulator
    admitted,         \* names whose CheckedConstants flag is set
    quotInitialized,  \* the shared quotient flag
    pc,               \* where each worker is
    task,             \* the task each worker runs
    sawQuot,          \* quot_initialized as loaded into the worker's view
    next,             \* index of the next name of flips[task] to admit
    rest,             \* dependents of the task still to be decremented
    newly,            \* dependents this worker made ready
    error,            \* the error a failed task returned
    reported,         \* argument of the worker's progress call
    released,         \* history: the dependents each task has decremented
    result            \* what check_parallel returned

poolVars == <<queue, inFlight, done, lock>>
tableVars == <<admitted, quotInitialized>>
localVars == <<task, sawQuot, next, rest, newly, error, reported>>
vars == <<graph, pending, poolVars, cancelled, failure, checked, tableVars,
          pc, localVars, released, result>>

Tasks == TasksOf(graph)

Locations == {"acquire", "choose", "waiting", "view", "check", "admit", "publish",
              "tally", "decrement", "complete", "progress", "fail", "cancel",
              "bail", "exited"}

Failures == [task : Nat, error : Contents \cup {"unknown_constant"}]

Results == [verdict : {"ok"}, checked : Nat]
           \cup [verdict : {"failed"}, failure : Failures]
           \cup [verdict : {"cycle"}, blamed : Nat]

\* None is not a failure, and no verdict says that the run goes on.
ASSUME SlotsAssumption == NoFailure \notin Failures /\ Running \notin Results

-----------------------------------------------------------------------------
\* The reverse adjacency: the tasks that list t among their dependencies.
Dependents(t) == {u \in Tasks : t \in graph.deps[u]}

\* The initial counter: one per dependency, out-of-range ids included.
\* Mutation: the counter starts one short.
InitialPendingOneShort(t) ==
    IF graph.deps[t] = {} THEN 0 ELSE Cardinality(graph.deps[t]) - 1

InitialPending(t) == Cardinality(graph.deps[t])

\* The queue is seeded with the tasks that have no dependency, by index.
Roots(g) == {t \in TasksOf(g) : g.deps[t] = {}}

Seeds(g) == {q \in [1 .. Cardinality(Roots(g)) -> Roots(g)] :
                \A i, j \in DOMAIN q : i < j => q[i] < q[j]}

Init ==
    /\ graph \in Graphs
    /\ pending = [t \in Tasks |-> InitialPending(t)]
    /\ queue \in Seeds(graph)
    /\ inFlight = 0
    /\ done = 0
    /\ lock = NoOne
    /\ cancelled = FALSE
    /\ failure = NoFailure
    /\ checked = 0
    /\ admitted = {}
    /\ quotInitialized = FALSE
    /\ pc = [w \in Workers |-> "acquire"]
    /\ task = [w \in Workers |-> 0]
    /\ sawQuot = [w \in Workers |-> FALSE]
    /\ next = [w \in Workers |-> 1]
    /\ rest = [w \in Workers |-> {}]
    /\ newly = [w \in Workers |-> << >>]
    /\ error = [w \in Workers |-> "ok"]
    /\ reported = [w \in Workers |-> 0]
    /\ released = [t \in Tasks |-> {}]
    /\ result = Running

Goto(w, l) == pc' = [pc EXCEPT ![w] = l]

\* notify_all by w, which itself goes on at l: every waiter leaves the wait
\* set and contends for the mutex again.
NotifyAllAndGoto(w, l) ==
    pc' = [v \in Workers |-> IF v = w THEN l
                             ELSE IF pc[v] = "waiting" THEN "acquire" ELSE pc[v]]

-----------------------------------------------------------------------------
\* Lock the ready mutex and load the cancelled flag; on true the guard is
\* dropped and the worker returns.
Acquire(w) ==
    /\ pc[w] = "acquire"
    /\ lock = NoOne
    /\ IF cancelled THEN lock' = NoOne /\ Goto(w, "exited")
                    ELSE lock' = w /\ Goto(w, "choose")
    /\ UNCHANGED <<graph, pending, queue, inFlight, done, cancelled, failure, checked,
                   tableVars, localVars, released, result>>

\* Take the oldest ready task.
Pop(w) ==
    /\ pc[w] = "choose"
    /\ queue # << >>
    /\ task' = [task EXCEPT ![w] = Head(queue)]
    /\ queue' = Tail(queue)
    /\ inFlight' = inFlight + 1
    /\ lock' = NoOne
    /\ Goto(w, "view")
    /\ UNCHANGED <<graph, pending, done, cancelled, failure, checked, tableVars,
                   sawQuot, next, rest, newly, error, reported, released, result>>

\* Nothing queued and nothing running: wake the peers and return.
\* Mutation: an empty queue alone is taken for the end.
DrainWhenEmpty(w) ==
    /\ pc[w] = "choose"
    /\ queue = << >>
    /\ lock' = NoOne
    /\ NotifyAllAndGoto(w, "exited")
    /\ UNCHANGED <<graph, pending, queue, inFlight, done, cancelled, failure, checked,
                   tableVars, localVars, released, result>>

Drain(w) ==
    /\ pc[w] = "choose"
    /\ queue = << >>
    /\ inFlight = 0
    /\ lock' = NoOne
    /\ NotifyAllAndGoto(w, "exited")
    /\ UNCHANGED <<graph, pending, queue, inFlight, done, cancelled, failure, checked,
                   tableVars, localVars, released, result>>

\* cv.wait: join the wait set and release the mutex in one step.
Wait(w) ==
    /\ pc[w] = "choose"
    /\ queue = << >>
    /\ inFlight > 0
    /\ lock' = NoOne
    /\ Goto(w, "waiting")
    /\ UNCHANGED <<graph, pending, queue, inFlight, done, cancelled, failure, checked,
                   tableVars, localVars, released, result>>

\* A condition variable may wake without a notification.
SpuriousWake(w) ==
    /\ pc[w] = "waiting"
    /\ Goto(w, "acquire")
    /\ UNCHANGED <<graph, pending, poolVars, cancelled, failure, checked, tableVars,
                   localVars, released, result>>

-----------------------------------------------------------------------------
\* run_task builds its view: the quotient flag is loaded once, here.
BuildView(w) ==
    /\ pc[w] = "view"
    /\ sawQuot' = [sawQuot EXCEPT ![w] = quotInitialized]
    /\ Goto(w, "check")
    /\ UNCHANGED <<graph, pending, poolVars, cancelled, failure, checked, tableVars,
                   task, next, rest, newly, error, reported, released, result>>

\* What the kernel returns for t.  The lookups read flags that only ever
\* rise, so reading them one by one or all at once gives the same verdicts.
Verdict(t, quotSeen) ==
    CASE ~(graph.uses[t] \subseteq admitted) -> "unknown_constant"
      [] graph.uses[t] \subseteq admitted /\ graph.reduces[t] /\ ~quotSeen -> "rejected"
      [] OTHER -> graph.content[t]

CheckTask(w) ==
    /\ pc[w] = "check"
    /\ LET v == Verdict(task[w], sawQuot[w]) IN
           /\ error' = [error EXCEPT ![w] = v]
           /\ Goto(w, IF v = "ok" THEN "admit" ELSE "fail")
    /\ next' = [next EXCEPT ![w] = 1]
    /\ UNCHANGED <<graph, pending, poolVars, cancelled, failure, checked, tableVars,
                   task, sawQuot, rest, newly, reported, released, result>>

\* One table.admit call: one Release store.
\* Mutation: only the first name of a task is admitted.
AdmitFirstOnly(w) ==
    /\ pc[w] = "admit"
    /\ admitted' = admitted \cup {graph.flips[task[w]][1]}
    /\ Goto(w, IF graph.quot[task[w]] THEN "publish" ELSE "tally")
    /\ UNCHANGED <<graph, pending, poolVars, cancelled, failure, checked, quotInitialized,
                   localVars, released, result>>

Admit(w) ==
    /\ pc[w] = "admit"
    /\ LET names == graph.flips[task[w]] IN
           /\ admitted' = admitted \cup {names[next[w]]}
           /\ IF next[w] < Len(names)
              THEN next' = [next EXCEPT ![w] = @ + 1] /\ UNCHANGED pc
              ELSE /\ next' = [next EXCEPT ![w] = 1]
                   /\ Goto(w, IF graph.quot[task[w]] THEN "publish" ELSE "tally")
    /\ UNCHANGED <<graph, pending, poolVars, cancelled, failure, checked, quotInitialized,
                   task, sawQuot, rest, newly, error, reported, released, result>>

\* run_quot stores the quotient flag after its last admit.
PublishQuot(w) ==
    /\ pc[w] = "publish"
    /\ quotInitialized' = TRUE
    /\ Goto(w, "tally")
    /\ UNCHANGED <<graph, pending, poolVars, cancelled, failure, checked, admitted,
                   localVars, released, result>>

-----------------------------------------------------------------------------
\* checked.fetch_add, and the loop over the dependents begins.
Tally(w) ==
    /\ pc[w] = "tally"
    /\ checked' = checked + graph.units[task[w]]
    /\ rest' = [rest EXCEPT ![w] = Dependents(task[w])]
    /\ newly' = [newly EXCEPT ![w] = << >>]
    /\ Goto(w, IF Dependents(task[w]) = {} THEN "complete" ELSE "decrement")
    /\ UNCHANGED <<graph, pending, poolVars, cancelled, failure, tableVars,
                   task, sawQuot, next, error, reported, released, result>>

\* One fetch_sub, dependents in index order; the 1 -> 0 transition hands
\* the dependent to this worker.
Decrement(w) ==
    /\ pc[w] = "decrement"
    /\ \E u \in rest[w] :
           /\ \A v \in rest[w] : u <= v
           /\ pending' = [pending EXCEPT ![u] = @ - 1]
           /\ newly' = [newly EXCEPT ![w] = IF pending[u] = 1 THEN Append(@, u) ELSE @]
           /\ rest' = [rest EXCEPT ![w] = @ \ {u}]
           /\ released' = [released EXCEPT ![task[w]] = @ \cup {u}]
           /\ Goto(w, IF rest[w] = {u} THEN "complete" ELSE "decrement")
    /\ UNCHANGED <<graph, poolVars, cancelled, failure, checked, tableVars,
                   task, sawQuot, next, error, reported, result>>

\* The completion critical section.
Complete(w) ==
    /\ pc[w] = "complete"
    /\ lock = NoOne
    /\ inFlight' = inFlight - 1
    /\ done' = done + 1
    /\ queue' = queue \o newly[w]
    /\ newly' = [newly EXCEPT ![w] = << >>]
    /\ reported' = [reported EXCEPT ![w] = done + 1]
    /\ NotifyAllAndGoto(w, "progress")
    /\ UNCHANGED <<graph, pending, lock, cancelled, failure, checked, tableVars,
                   task, sawQuot, next, rest, error, released, result>>

\* progress(done_count), outside the mutex; then around the loop.
Progress(w) ==
    /\ pc[w] = "progress"
    /\ Goto(w, "acquire")
    /\ UNCHANGED <<graph, pending, poolVars, cancelled, failure, checked, tableVars,
                   localVars, released, result>>

-----------------------------------------------------------------------------
\* The failure arm: take the failure slot if it is free ...
RecordFailure(w) ==
    /\ pc[w] = "fail"
    /\ failure' = IF failure = NoFailure
                  THEN [task |-> task[w], error |-> error[w]] ELSE failure
    /\ Goto(w, "cancel")
    /\ UNCHANGED <<graph, pending, poolVars, cancelled, checked, tableVars,
                   localVars, released, result>>

\* ... then raise the flag, without the ready mutex ...
Cancel(w) ==
    /\ pc[w] = "cancel"
    /\ cancelled' = TRUE
    /\ Goto(w, "bail")
    /\ UNCHANGED <<graph, pending, poolVars, failure, checked, tableVars,
                   localVars, released, result>>

\* ... then leave the pool and wake the peers under the ready mutex.
\* Mutation: the peers are not woken.
BailSilently(w) ==
    /\ pc[w] = "bail"
    /\ lock = NoOne
    /\ inFlight' = inFlight - 1
    /\ Goto(w, "exited")
    /\ UNCHANGED <<graph, pending, queue, done, lock, cancelled, failure, checked,
                   tableVars, localVars, released, result>>

Bail(w) ==
    /\ pc[w] = "bail"
    /\ lock = NoOne
    /\ inFlight' = inFlight - 1
    /\ NotifyAllAndGoto(w, "exited")
    /\ UNCHANGED <<graph, pending, queue, done, lock, cancelled, failure, checked,
                   tableVars, localVars, released, result>>

-----------------------------------------------------------------------------
\* stuck_decl: the first task whose counter never reached zero.  When no
\* task is pending the code falls back to another name: 0 stands for it.
Stuck == {t \in Tasks : pending[t] > 0}

StuckDecl(b) == IF Stuck = {} THEN b = 0 ELSE b \in Stuck /\ \A u \in Stuck : b <= u

\* The failure slot is read first, then the number of finished tasks.
\* Mutation: unfinished tasks are taken for a cycle before the slot is read.
OutcomeCycleFirst(blamed) ==
    IF done # graph.size
    THEN [verdict |-> "cycle", blamed |-> blamed]
    ELSE [verdict |-> "ok", checked |-> checked]

Outcome(blamed) ==
    IF failure # NoFailure
    THEN [verdict |-> "failed", failure |-> failure]
    ELSE IF done # graph.size
    THEN [verdict |-> "cycle", blamed |-> blamed]
    ELSE [verdict |-> "ok", checked |-> checked]

\* The scope has joined every worker; check_parallel reads the verdict.
Join ==
    /\ result = Running
    /\ \A w \in Workers : pc[w] = "exited"
    /\ \E b \in Tasks \cup {0} : StuckDecl(b) /\ result' = Outcome(b)
    /\ UNCHANGED <<graph, pending, poolVars, cancelled, failure, checked, tableVars,
                   pc, localVars, released>>

\* check_parallel has returned.
Returned == result # Running /\ UNCHANGED vars

Step(w) ==
    \/ Acquire(w) \/ Pop(w) \/ Drain(w) \/ Wait(w)
    \/ BuildView(w) \/ CheckTask(w) \/ Admit(w) \/ PublishQuot(w)
    \/ Tally(w) \/ Decrement(w) \/ Complete(w) \/ Progress(w)
    \/ RecordFailure(w) \/ Cancel(w) \/ Bail(w)

Next == (\E w \in Workers : Step(w) \/ SpuriousWake(w)) \/ Join \/ Returned

Spec == Init /\ [][Next]_vars

-----------------------------------------------------------------------------
(* Properties. *)

\* Every variable stays in its domain.  In particular the atomic counters
\* never go below zero: a second decrement along one edge would wrap them.
TypeOK ==
    /\ graph \in Graphs
    /\ pending \in [Tasks -> Nat]
    /\ queue \in Seq(Tasks)
    /\ inFlight \in Nat
    /\ done \in Nat
    /\ lock \in Workers \cup {NoOne}
    /\ cancelled \in BOOLEAN
    /\ failure \in Failures \cup {NoFailure}
    /\ checked \in Nat
    /\ admitted \subseteq Nat
    /\ quotInitialized \in BOOLEAN
    /\ pc \in [Workers -> Locations]
    /\ task \in [Workers -> Tasks \cup {0}]
    /\ sawQuot \in [Workers -> BOOLEAN]
    /\ next \in [Workers -> Nat]
    /\ rest \in [Workers -> SUBSET Tasks]
    /\ newly \in [Workers -> Seq(Tasks)]
    /\ error \in [Workers -> Contents \cup {"unknown_constant"}]
    /\ reported \in [Workers -> Nat]
    /\ released \in [Tasks -> SUBSET Tasks]
    /\ result \in Results \cup {Running}

Flipped(t) == NamesOf(graph, t) \subseteq admitted

\* The gated table is always a valid sequential prefix: whenever one name
\* of a task is visible, every name of every dependency of that task is.
\* This is what lets a check read the table without a lock.
DependencyOrder ==
    \A t \in Tasks : NamesOf(graph, t) \cap admitted # {} =>
        \A d \in graph.deps[t] : d \in Tasks /\ Flipped(d)

\* The tasks a sequential checker can get through: the least set that
\* contains every good task all of whose dependencies it contains.
ClosedUnderChecking(S) ==
    \A t \in Tasks : graph.deps[t] \subseteq S /\ graph.content[t] = "ok" => t \in S

Checkable == {t \in Tasks : \A S \in SUBSET Tasks : ClosedUnderChecking(S) => t \in S}

\* The tasks a sequential checker can reach and must reject.
Rejectable == {t \in Tasks : graph.deps[t] \subseteq Checkable /\ graph.content[t] # "ok"}

\* Whatever the interleaving, check_parallel returns the verdict the graph
\* determines: a failure blames a task that is really bad, with its own
\* error; a cycle is reported only when nothing checkable was left over,
\* and blames a task that can never be checked; success means every task
\* was checked.
VerdictExact ==
    result # Running =>
        \/ /\ result.verdict = "failed"
           /\ result.failure.task \in Rejectable
           /\ result.failure.error = graph.content[result.failure.task]
        \/ /\ result.verdict = "cycle"
           /\ Rejectable = {} /\ result.blamed \in Tasks \ Checkable
        \/ /\ result.verdict = "ok"
           /\ Checkable = Tasks /\ \A t \in Tasks : Flipped(t)

\* The pool behaves as if some single thread took the tasks one by one in
\* dependency order: a task counts as accepted once its last flag is set.
Sequential == INSTANCE SequentialCheck WITH
    accepted <- {t \in Tasks : Flipped(t)},
    result <- IF result = Running THEN Running ELSE result.verdict

ImplementsSequentialCheck == Sequential!Spec

\* Every task a check may depend on: the closure of deps.
Ancestors(t) ==
    {d \in Tasks : \A S \in SUBSET Tasks :
        (\A u \in S \cup {t} : graph.deps[u] \cap Tasks \subseteq S) => d \in S}

\* The graph orders every lookup: each constant a check can look up, but
\* for those the task itself declares, is admitted by a task it
\* transitively waits for, and a check that reduces a quotient recursor
\* waits for the quotient task.
LookupsAreOrdered ==
    \A t \in Tasks :
        /\ graph.uses[t] \subseteq UNION {NamesOf(graph, d) : d \in Ancestors(t) \cup {t}}
        /\ graph.reduces[t] => \E d \in Ancestors(t) : graph.quot[d]

Busy == {"view", "check", "admit", "publish", "tally", "decrement", "complete",
         "fail", "cancel", "bail"}

\* in_flight counts exactly the workers between a pop and the critical
\* section that ends the task, which is what the drain test relies on.
InFlightExact == inFlight = Cardinality({w \in Workers : pc[w] \in Busy})

\* The drain condition is final: once a worker has left without a failure,
\* no ready task is queued, running or about to be pushed, so no task is
\* lost to a worker that left too early.
DrainIsFinal ==
    (\E w \in Workers : pc[w] = "exited") /\ ~cancelled =>
        /\ queue = << >>
        /\ \A w \in Workers : pc[w] \notin Busy

\* Fairness.  The operating system runs every runnable thread, and the
\* main thread returns from the scope once all workers have.
Fairness == /\ \A w \in Workers : WF_vars(Step(w))
            /\ WF_vars(Join)

FairSpec == Spec /\ Fairness

\* A verdict is always reached: no graph, failing or cyclic, makes the pool
\* hang, provided the condition variable does not wake spuriously forever.
EventuallyReturns ==
    <>[][\A w \in Workers : ~SpuriousWake(w)]_vars => <>(result # Running)

=============================================================================
