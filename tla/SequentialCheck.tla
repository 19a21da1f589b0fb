--------------------------- MODULE SequentialCheck ---------------------------
(***************************************************************************)
(* What a kernel check of a dependency graph promises, without threads:    *)
(* tasks are accepted one at a time, each after all of its dependencies,   *)
(* until every task is accepted, a task the kernel rejects is met, or no   *)
(* task can be taken because of a cycle.  `replay' in leanr_kernel visits  *)
(* the declarations in one such order; the worker pool of leanr_check must *)
(* behave as if it followed some such order.                               *)
(***************************************************************************)
EXTENDS Naturals

CONSTANTS Graphs, Running

VARIABLES graph, accepted, result

vars == <<graph, accepted, result>>

Tasks == 1 .. graph.size

\* The tasks whose turn may come now.
Eligible == {t \in Tasks \ accepted : graph.deps[t] \subseteq accepted}

Init ==
    /\ graph \in Graphs
    /\ accepted = {}
    /\ result = Running

Accept(t) ==
    /\ result = Running
    /\ t \in Eligible
    /\ graph.content[t] = "ok"
    /\ accepted' = accepted \cup {t}
    /\ UNCHANGED <<graph, result>>

\* The verdict "failed" needs an eligible task the kernel rejects.
Reject(t) ==
    /\ result = Running
    /\ t \in Eligible
    /\ graph.content[t] # "ok"
    /\ result' = "failed"
    /\ UNCHANGED <<graph, accepted>>

Succeed ==
    /\ result = Running
    /\ accepted = Tasks
    /\ result' = "ok"
    /\ UNCHANGED <<graph, accepted>>

\* Tasks are left and none of them can ever be taken.
Stall ==
    /\ result = Running
    /\ accepted # Tasks
    /\ Eligible = {}
    /\ result' = "cycle"
    /\ UNCHANGED <<graph, accepted>>

Next == (\E t \in Tasks : Accept(t) \/ Reject(t)) \/ Succeed \/ Stall

Spec == Init /\ [][Next]_vars

=============================================================================
