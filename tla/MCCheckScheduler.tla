-------------------------- MODULE MCCheckScheduler --------------------------
(***************************************************************************)
(* Graphs for model checking the worker pool.  Each has a race the pool    *)
(* must get right; a task without a name of its own admits two names, so   *)
(* that half-admitted tasks are visible.                                   *)
(***************************************************************************)
EXTENDS CheckScheduler

\* n tasks; task t admits the names t and 10 + t.
Plain(n, deps) ==
    [size    |-> n,
     deps    |-> deps,
     flips   |-> [t \in 1 .. n |-> <<t, 10 + t>>],
     admits  |-> [t \in 1 .. n |-> <<t, 10 + t>>],
     uses    |-> [t \in 1 .. n |-> deps[t] \cap (1 .. n)],
     content |-> [t \in 1 .. n |-> "ok"],
     quot    |-> [t \in 1 .. n |-> FALSE],
     reduces |-> [t \in 1 .. n |-> FALSE],
     units   |-> [t \in 1 .. n |-> 1]]

\* 2 and 3 race to be the last dependency of 4; 5 is independent.
Diamond == Plain(5, <<{}, {1}, {1}, {2, 3}, {}>>)

\* Two independent failures race for the failure slot.
TwoFailures == [Diamond EXCEPT !.content = <<"ok", "rejected", "mismatch", "ok", "ok">>]

\* 2 and 3 form a cycle that 4 waits for; 1 is checkable.
Cycle == Plain(4, <<{}, {1, 3}, {2}, {3}>>)

\* A failure and a cycle side by side.
FailureAndCycle == [Cycle EXCEPT !.content = <<"rejected", "ok", "ok", "ok">>]

\* A forged graph: task 2 waits for a task that does not exist.
DanglingDep == Plain(3, <<{}, {1, 9}, {1}>>)

\* Task 2 initialises the quotient; 3 wraps a quotient recursor and 4, which
\* unfolds 3, reduces it.
QuotChain ==
    [Plain(4, <<{}, {1}, {2}, {3}>>) EXCEPT
        !.quot = <<FALSE, TRUE, FALSE, FALSE>>,
        !.reduces = <<FALSE, FALSE, TRUE, TRUE>>,
        !.uses = <<{}, {1, 11}, {2, 12}, {2, 12, 3}>>,
        !.units = <<1, 4, 1, 1>>]

MCGraphs == {Diamond, TwoFailures, Cycle, FailureAndCycle, DanglingDep, QuotChain,
             Plain(0, << >>)}

=============================================================================
