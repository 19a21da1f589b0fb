------------------------------ MODULE BuildPool ------------------------------
(***************************************************************************)
(* The generic job pool of leanr_build (crates/leanr_build/src/pool.rs):   *)
(* run() executes one job per item of a dependency graph on a few threads, *)
(* with all of its state under one mutex, and stops at the first failure.  *)
(*                                                                         *)
(* Atomicity.  One action is one critical section of the mutex, or one     *)
(* step outside of it that the others can see: the notification after the  *)
(* mutex is released, the on_done callback, a panic of the job.  A job's   *)
(* return value is local, so its return and the critical section that      *)
(* follows are one action.                                                 *)
(***************************************************************************)
EXTENDS Naturals, Sequences, FiniteSets

CONSTANTS Workers,      \* the threads asked for, jobs.max(1) of them
          Graphs,       \* the dependency graphs a run may be given
          JobEnds,      \* how a job may end: "ok", "error", "panic"
          NoItem,       \* a worker that runs no job
          NoFailure,    \* the failure slot is None
          Running       \* run() has not returned

ASSUME PoolAssumption ==
    /\ IsFiniteSet(Workers) /\ Workers # {}
    /\ JobEnds \subseteq {"ok", "error", "panic"}

ItemsOf(g) == 0 .. g.size - 1

\* The callers hand over deduplicated lists of ids of items that exist.
ASSUME PoolGraphsAssumption ==
    \A g \in Graphs :
        /\ g.size \in Nat
        /\ g.deps \in [ItemsOf(g) -> SUBSET ItemsOf(g)]

Answers == [verdict : {"ok"}, done : Nat]
           \cup [verdict : {"failed"}, item : Nat]
           \cup [verdict : {"panic"}]

ASSUME PoolMarksAssumption ==
    /\ \A g \in Graphs : NoItem \notin ItemsOf(g) /\ NoFailure \notin ItemsOf(g)
    /\ Running \notin Answers

VARIABLES
    graph,       \* the graph of this call, fixed
    ready,       \* State.ready
    remaining,   \* State.remaining: unfinished dependencies of each item
    inFlight,    \* State.in_flight
    done,        \* State.done
    cancelled,   \* State.cancelled
    failure,     \* State.failure, the item of the first failure
    pc,          \* where each worker is
    item,        \* the item each worker runs
    started,     \* history: the items some worker has taken
    succeeded,   \* history: the items whose job returned Ok
    answer       \* what run() returned

stateVars == <<ready, remaining, inFlight, done, cancelled, failure>>
poolVars == <<graph, stateVars, pc, item, started, succeeded, answer>>

Items == ItemsOf(graph)

Locations == {"absent", "loop", "waiting", "job", "notify", "callback",
              "notifyFailed", "left", "panicked"}

-----------------------------------------------------------------------------
\* A set of items in index order.
Ascending(S) == {q \in [1 .. Cardinality(S) -> S] :
                    /\ \A k \in S : \E i \in DOMAIN q : q[i] = k
                    /\ \A i, j \in DOMAIN q : i < j => q[i] < q[j]}

Dependents(i) == {k \in Items : i \in graph.deps[k]}

Smaller(m, n) == IF m < n THEN m ELSE n

\* No more threads are spawned than there are items, but at least one.
SpawnCount(total) == Smaller(Cardinality(Workers), IF total = 0 THEN 1 ELSE total)

Init ==
    /\ graph \in Graphs
    /\ remaining = [i \in Items |-> Cardinality(graph.deps[i])]
    /\ ready \in Ascending({i \in Items : remaining[i] = 0})
    /\ inFlight = 0
    /\ done = 0
    /\ cancelled = FALSE
    /\ failure = NoFailure
    /\ \E S \in SUBSET Workers :
           /\ Cardinality(S) = SpawnCount(graph.size)
           /\ pc = [w \in Workers |-> IF w \in S THEN "loop" ELSE "absent"]
    /\ item = [w \in Workers |-> NoItem]
    /\ started = {}
    /\ succeeded = {}
    /\ answer = Running

Goto(w, l) == pc' = [pc EXCEPT ![w] = l]

\* cv.notify_all by w, which goes on at l.
NotifyAllAndGoto(w, l) ==
    pc' = [v \in Workers |-> IF v = w THEN l ELSE IF pc[v] = "waiting" THEN "loop" ELSE pc[v]]

-----------------------------------------------------------------------------
(* The loop under the mutex: exactly one of Leave, Take, Exhausted and   *)
(* Sleep applies.                                                          *)

AllOver == cancelled \/ done = graph.size

\* Cancelled, or everything is done.
Leave(w) ==
    /\ pc[w] = "loop"
    /\ AllOver
    /\ Goto(w, "left")
    /\ UNCHANGED <<graph, stateVars, item, started, succeeded, answer>>

\* Mutation: the worker does not look at the cancelled flag.
TakeWhenCancelled(w) ==
    /\ pc[w] = "loop"
    /\ done # graph.size
    /\ ready # << >>
    /\ item' = [item EXCEPT ![w] = Head(ready)]
    /\ ready' = Tail(ready)
    /\ inFlight' = inFlight + 1
    /\ started' = started \cup {Head(ready)}
    /\ Goto(w, "job")
    /\ UNCHANGED <<graph, remaining, done, cancelled, failure, succeeded, answer>>

\* Take the oldest ready item.
Take(w) ==
    /\ pc[w] = "loop"
    /\ ~AllOver
    /\ ready # << >>
    /\ item' = [item EXCEPT ![w] = Head(ready)]
    /\ ready' = Tail(ready)
    /\ inFlight' = inFlight + 1
    /\ started' = started \cup {Head(ready)}
    /\ Goto(w, "job")
    /\ UNCHANGED <<graph, remaining, done, cancelled, failure, succeeded, answer>>

\* Nothing ready and nothing running: the worker leaves, without waking
\* anybody.
Exhausted(w) ==
    /\ pc[w] = "loop"
    /\ ~AllOver
    /\ ready = << >>
    /\ inFlight = 0
    /\ Goto(w, "left")
    /\ UNCHANGED <<graph, stateVars, item, started, succeeded, answer>>

Sleep(w) ==
    /\ pc[w] = "loop"
    /\ ~AllOver
    /\ ready = << >>
    /\ inFlight > 0
    /\ Goto(w, "waiting")
    /\ UNCHANGED <<graph, stateVars, item, started, succeeded, answer>>

SpuriousWake(w) ==
    /\ pc[w] = "waiting"
    /\ Goto(w, "loop")
    /\ UNCHANGED <<graph, stateVars, item, started, succeeded, answer>>

-----------------------------------------------------------------------------
(* After the job. *)

\* The items the completion of i makes ready.
Released(i) == {k \in Dependents(i) : remaining[k] = 1}

\* Mutation: a dependent is released by the first of its dependencies.
FinishOkReleasesAll(w) ==
    /\ pc[w] = "job"
    /\ inFlight' = inFlight - 1
    /\ done' = done + 1
    /\ remaining' = [k \in Items |-> IF k \in Dependents(item[w]) THEN remaining[k] - 1
                                                              ELSE remaining[k]]
    /\ \E q \in Ascending(Dependents(item[w])) : ready' = ready \o q
    /\ succeeded' = succeeded \cup {item[w]}
    /\ Goto(w, "notify")
    /\ UNCHANGED <<graph, cancelled, failure, item, started, answer>>

\* The job returned Ok.
FinishOk(w) ==
    /\ pc[w] = "job"
    /\ inFlight' = inFlight - 1
    /\ done' = done + 1
    /\ remaining' = [k \in Items |-> IF k \in Dependents(item[w]) THEN remaining[k] - 1
                                                              ELSE remaining[k]]
    /\ \E q \in Ascending(Released(item[w])) : ready' = ready \o q
    /\ succeeded' = succeeded \cup {item[w]}
    /\ Goto(w, "notify")
    /\ UNCHANGED <<graph, cancelled, failure, item, started, answer>>

\* Mutation: nobody is woken.
NotifyNobody(w) ==
    /\ pc[w] = "notify"
    /\ Goto(w, "callback")
    /\ UNCHANGED <<graph, stateVars, item, started, succeeded, answer>>

\* Outside the mutex: wake the peers, then report.
Notify(w) ==
    /\ pc[w] = "notify"
    /\ NotifyAllAndGoto(w, "callback")
    /\ UNCHANGED <<graph, stateVars, item, started, succeeded, answer>>

\* The on_done callback.
OnDone(w) ==
    /\ pc[w] = "callback"
    /\ item' = [item EXCEPT ![w] = NoItem]
    /\ Goto(w, "loop")
    /\ UNCHANGED <<graph, stateVars, started, succeeded, answer>>

\* The job returned Err.
FinishError(w) ==
    /\ pc[w] = "job"
    /\ inFlight' = inFlight - 1
    /\ failure' = IF failure = NoFailure THEN item[w] ELSE failure
    /\ cancelled' = TRUE
    /\ Goto(w, "notifyFailed")
    /\ UNCHANGED <<graph, ready, remaining, done, item, started, succeeded, answer>>

NotifyFailed(w) ==
    /\ pc[w] = "notifyFailed"
    /\ item' = [item EXCEPT ![w] = NoItem]
    /\ NotifyAllAndGoto(w, "left")
    /\ UNCHANGED <<graph, stateVars, started, succeeded, answer>>

\* The job panicked: the thread unwinds out of the loop, in_flight stays.
Panic(w) ==
    /\ pc[w] = "job"
    /\ Goto(w, "panicked")
    /\ UNCHANGED <<graph, stateVars, item, started, succeeded, answer>>

-----------------------------------------------------------------------------
\* The scope has joined every worker.  It propagates a panic; otherwise the
\* failure slot decides.
Verdict ==
    IF \E w \in Workers : pc[w] = "panicked" THEN [verdict |-> "panic"]
    ELSE IF failure # NoFailure THEN [verdict |-> "failed", item |-> failure]
    ELSE [verdict |-> "ok", done |-> done]

Join ==
    /\ answer = Running
    /\ \A w \in Workers : pc[w] \in {"absent", "left", "panicked"}
    /\ answer' = Verdict
    /\ UNCHANGED <<graph, stateVars, pc, item, started, succeeded>>

\* run() has returned.
Returned == answer # Running /\ UNCHANGED poolVars

JobStep(w) ==
    \/ "ok" \in JobEnds /\ FinishOk(w)
    \/ "error" \in JobEnds /\ FinishError(w)
    \/ "panic" \in JobEnds /\ Panic(w)

PoolStep(w) == Leave(w) \/ Take(w) \/ Exhausted(w) \/ Sleep(w) \/ Notify(w) \/ OnDone(w)
               \/ NotifyFailed(w)

Next ==
    \/ \E w \in Workers : PoolStep(w) \/ JobStep(w) \/ SpuriousWake(w)
    \/ Join
    \/ Returned

Spec == Init /\ [][Next]_poolVars

-----------------------------------------------------------------------------
(* Properties. *)

\* Every variable stays in its domain; remaining and in_flight are unsigned
\* in the code, so a decrement too many would wrap.
TypeOK ==
    /\ graph \in Graphs
    /\ ready \in Seq(Items)
    /\ remaining \in [Items -> Nat]
    /\ inFlight \in Nat
    /\ done \in Nat
    /\ cancelled \in BOOLEAN
    /\ failure \in Items \cup {NoFailure}
    /\ pc \in [Workers -> Locations]
    /\ item \in [Workers -> Items \cup {NoItem}]
    /\ started \subseteq Items
    /\ succeeded \subseteq started
    /\ answer \in Answers \cup {Running}

\* The pool implements TopologicalRun: dependencies first, each item once,
\* nothing started after a failure, the first failure reported, and a count
\* returned only when nothing more could have been started.  A job that
\* panics is never reported as done.
Abstract == INSTANCE TopologicalRun WITH failed <- failure

ImplementsTopologicalRun == Abstract!Spec

NobodyPanicked == \A w \in Workers : pc[w] # "panicked"

\* Somebody is responsible for every sleeper: while a worker waits on the
\* condition variable there is a job whose end will notify, or a
\* notification still to be sent.  A panic breaks the chain.
SleepersHaveAWaker ==
    NobodyPanicked /\ (\E w \in Workers : pc[w] = "waiting") =>
        \E w \in Workers : pc[w] \in {"job", "notify", "notifyFailed"}

\* Fairness: every thread that can run does, and jobs end.
Fairness == /\ \A w \in Workers : WF_poolVars(PoolStep(w)) /\ WF_poolVars(JobStep(w))
            /\ WF_poolVars(Join)

FairSpec == Spec /\ Fairness

\* run() returns, whether jobs succeed or fail, provided that none panics
\* and that the condition variable does not wake spuriously for ever.
EventuallyReturns ==
    []NobodyPanicked /\ <>[][\A w \in Workers : ~SpuriousWake(w)]_poolVars
        => <>(answer # Running)

\* A job that panics takes the build down, as cache.rs says of a panic
\* inside a pool worker.
PanicCrashesTheBuild ==
    (\E w \in Workers : pc[w] = "panicked") ~> (answer # Running)

=============================================================================
