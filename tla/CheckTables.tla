----------------------------- MODULE CheckTables -----------------------------
(***************************************************************************)
(* The two checks of leanr on the same decoded table: `leanr check' hands  *)
(* the graph build_graph makes of it to the worker pool, and replay visits *)
(* its constants in one thread.                                            *)
(***************************************************************************)
EXTENDS CheckScheduler, Replay

-----------------------------------------------------------------------------
(* Tables as an environment exports them. *)

TableNames == Nat \ {0}

Kinds == {"simple", "induct", "ctor", "rec", "quot"}

Consts == [kind : Kinds, refs : SUBSET TableNames, all : Seq(TableNames),
           ctors : Seq(TableNames), induct : Nat, recs : Seq(TableNames),
           good : BOOLEAN, twin : BOOLEAN]

\* The constants that are sent to the kernel; it makes the others of these.
Declaring(table) == {n \in DOMAIN table : table[n].kind \notin {"ctor", "rec"}}

\* Every name the declaration of n declares, decoded or not.
Declares(table, n) ==
    CASE table[n].kind = "induct" ->
            ToSet(table[n].all) \cup
            UNION {ToSet(table[m].ctors) \cup ToSet(table[m].recs) :
                       m \in ToSet(table[n].all) \cap DOMAIN table}
      [] table[n].kind = "quot" -> ToSet(QuotNames) \cup QuotsOf(table)
      [] OTHER -> {n}

SameDeclaration(table, m, n) ==
    \/ m = n
    \/ table[m].kind = "induct" /\ table[n].kind = "induct" /\ table[m].all = table[n].all
    \/ table[m].kind = "quot" /\ table[n].kind = "quot"

IsTable(table) ==
    /\ DOMAIN table # {} /\ IsFiniteSet(DOMAIN table) /\ DOMAIN table \subseteq TableNames
    /\ \A n \in DOMAIN table : table[n] \in Consts

\* The members of a block have been decoded.
Whole(table, m) == table[m].kind = "induct" => ToSet(table[m].all) \subseteq DOMAIN table

\* No name is declared twice, an inductive type is in its own block, and a
\* constructor or recursor belongs to whatever declares the type it names.
\* The last is what a stray recursor breaks.
WellFormed(table) ==
    /\ IsTable(table)
    /\ \A n \in DOMAIN table : table[n].kind = "induct" => n \in ToSet(table[n].all)
    /\ \A m, n \in Declaring(table) :
           SameDeclaration(table, m, n) \/ Declares(table, m) \cap Declares(table, n) = {}
    /\ \A m \in Declaring(table), n \in DOMAIN table \ Declaring(table) :
           Whole(table, m) /\ BlockHead(table, n) \in Declares(table, m)
               => n \in Declares(table, m)

TypesAndCtors(table, m) ==
    ToSet(table[m].all) \cup
    UNION {ToSet(table[i].ctors) : i \in ToSet(table[m].all) \cap DOMAIN table}

\* What equals its twin is what the kernel regenerates of a declaration: a
\* constructor or a recursor of a block, made of what the block mentions, or
\* one of the four quotient constants.
Regenerated(table) ==
    \A m \in Declaring(table) : \A n \in Declares(table, m) \cap DOMAIN table :
        table[n].twin =>
            CASE table[n].kind = "ctor" -> n \in TypesAndCtors(table, m) /\ table[m].kind = "induct"
              [] table[n].kind = "rec"  ->
                     /\ table[m].kind = "induct" /\ table[n].all = table[m].all
                     /\ UsedConstants(table, n) \subseteq
                            Declares(table, m) \cup Reach(table, TypesAndCtors(table, m))
              [] table[n].kind = "quot" ->
                     /\ n \in ToSet(QuotNames) /\ table[n].good
                     /\ table[n].refs \subseteq ToSet(QuotNames) \cup {EqName}
              [] OTHER -> TRUE

\* Quotients and recursors are exported whole, as the environment holds them.
IsExported(table) ==
    \A n \in DOMAIN table :
        /\ table[n].kind = "induct" =>
               table[n].twin /\ ToSet(table[n].recs) \subseteq DOMAIN table
        /\ table[n].kind = "quot" =>
               table[n].twin /\ ToSet(QuotNames) \subseteq DOMAIN table

-----------------------------------------------------------------------------
(* The two checks one after the other; they share nothing but the table. *)

\* A graph with no task stands where build_graph fails.
NoGraph ==
    [size |-> 0, deps |-> << >>, admits |-> << >>, flips |-> << >>, uses |-> << >>,
     content |-> << >>, quot |-> << >>, reduces |-> << >>, units |-> << >>]

GraphOf(table) == IF BuildFails(table) THEN NoGraph ELSE BuildGraph(table)

BothInit == Init /\ ReplayInit /\ graph = GraphOf(decoded)

Replaying == ReplayNext /\ UNCHANGED vars

Checking ==
    /\ replayed # "running" /\ ~BuildFails(decoded)
    /\ Next
    /\ UNCHANGED replayVars

\* build_graph has failed, and check_parallel is never called.
Rejected ==
    /\ replayed # "running" /\ BuildFails(decoded)
    /\ UNCHANGED <<vars, replayVars>>

BothNext == Replaying \/ Checking \/ Rejected

BothSpec == BothInit /\ [][BothNext]_<<vars, replayVars>>

PoolAccepts == result # Running /\ result.verdict = "ok"

PoolRejects == BuildFails(decoded) \/ (result # Running /\ result.verdict # "ok")

\* The parallel check accepts nothing that the sequential one rejects, in
\* whatever order replay visits the constants and however the pool
\* interleaves, and it counts as many declarations.
NoLaxerThanReplay == PoolAccepts => replayed = "ok" /\ sent = result.checked

\* It rejects nothing that the sequential one accepts in a table that was
\* exported whole.  Elsewhere the pool is documented to be stricter: replay
\* compares no decoded inductive type or quotient constant.
NoStricterThanReplay == PoolRejects /\ IsExported(decoded) => replayed # "ok"

=============================================================================
