----------------------------- MODULE MCBuildPool -----------------------------
(* Dependency graphs for model checking the job pool. *)
EXTENDS BuildPool

Graph(n, deps) == [size |-> n, deps |-> [i \in 0 .. n - 1 |-> deps[i + 1]]]

\* 1 and 2 race to be the last dependency of 3; 4 is independent.
Diamond == Graph(5, <<{}, {0}, {0}, {1, 2}, {}>>)

\* A chain beside a fan: workers run dry while one job is still running.
ChainAndFan == Graph(5, <<{}, {0}, {1}, {1}, {1}>>)

\* 1 and 2 wait for each other: the pool stalls and must not hang.
Stall == Graph(4, <<{}, {0, 2}, {1}, {0}>>)

MCGraphs == {Diamond, ChainAndFan, Stall, Graph(0, << >>), Graph(1, <<{}>>)}

PanicGraphs == {Diamond}

=============================================================================
