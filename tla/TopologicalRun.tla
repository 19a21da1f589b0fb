---------------------------- MODULE TopologicalRun ----------------------------
(***************************************************************************)
(* What pool::run promises its callers: every item is run at most once and *)
(* only after all of its dependencies have succeeded; nothing is started   *)
(* after a failure; the answer is the first failure, or the number of      *)
(* items that succeeded once nothing is running and nothing can be started.*)
(* A job that panics is never counted, and takes the whole call down.      *)
(***************************************************************************)
EXTENDS Naturals, FiniteSets

CONSTANTS Graphs,       \* the dependency graphs a run may be given
          NoFailure,    \* no item has failed
          Running       \* the call has not returned

VARIABLES graph, started, succeeded, failed, answer

vars == <<graph, started, succeeded, failed, answer>>

Items == 0 .. graph.size - 1

\* The items whose turn may come now.
Startable == {i \in Items \ started : graph.deps[i] \subseteq succeeded}

Init ==
    /\ graph \in Graphs
    /\ started = {}
    /\ succeeded = {}
    /\ failed = NoFailure
    /\ answer = Running

Start(i) ==
    /\ answer = Running
    /\ failed = NoFailure
    /\ i \in Startable
    /\ started' = started \cup {i}
    /\ UNCHANGED <<graph, succeeded, failed, answer>>

Succeed(i) ==
    /\ i \in started \ succeeded
    /\ succeeded' = succeeded \cup {i}
    /\ UNCHANGED <<graph, started, failed, answer>>

\* The first failure is the one that counts.
Fail(i) ==
    /\ i \in started \ succeeded
    /\ failed = NoFailure
    /\ failed' = i
    /\ UNCHANGED <<graph, started, succeeded, answer>>

ReturnFailure ==
    /\ answer = Running
    /\ failed # NoFailure
    /\ answer' = [verdict |-> "failed", item |-> failed]
    /\ UNCHANGED <<graph, started, succeeded, failed>>

ReturnCount ==
    /\ answer = Running
    /\ failed = NoFailure
    /\ started = succeeded /\ Startable = {}
    /\ answer' = [verdict |-> "ok", done |-> Cardinality(succeeded)]
    /\ UNCHANGED <<graph, started, succeeded, failed>>

\* A job that neither succeeds nor fails takes the call down.
ReturnPanic ==
    /\ answer = Running
    /\ started # succeeded
    /\ answer' = [verdict |-> "panic"]
    /\ UNCHANGED <<graph, started, succeeded, failed>>

Next ==
    \/ \E i \in Items : Start(i) \/ Succeed(i) \/ Fail(i)
    \/ ReturnFailure
    \/ ReturnCount
    \/ ReturnPanic

Spec == Init /\ [][Next]_vars

=============================================================================
