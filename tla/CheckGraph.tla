----------------------------- MODULE CheckGraph -----------------------------
(***************************************************************************)
(* build_graph of leanr_check (crates/leanr_check/src/graph.rs): the       *)
(* decoded constants of a check become the tasks of a dependency graph.    *)
(* Names are the numbers 1, 2, ... in the order of their raw bits, the     *)
(* order build_graph sorts them in.                                        *)
(*                                                                         *)
(* A table maps names to decoded constants.  Of a constant only what the   *)
(* graph, the kernel's verdict and the structural comparison depend on is  *)
(* kept:                                                                   *)
(*   kind    "simple" (definition, theorem, axiom, opaque), "induct",      *)
(*           "ctor", "rec" or "quot"                                       *)
(*   refs    the constants of its type, value and recursor rules           *)
(*   all     the mutual block of an inductive type or recursor             *)
(*   ctors   the constructors of an inductive type                         *)
(*   induct  the inductive type of a constructor                           *)
(*   recs    the recursors the kernel regenerates for an inductive type    *)
(*   good    the kernel accepts it once its dependencies are visible       *)
(*   twin    it is structurally equal to what the kernel regenerates       *)
(***************************************************************************)
EXTENDS Naturals, Sequences, FiniteSets, SequencesExt

CONSTANTS EqName,       \* the name Eq
          QuotNames     \* Quot, Quot.mk, Quot.lift, Quot.ind

ASSUME NamesAssumption ==
    EqName \in Nat \ {0} /\ QuotNames \in Seq(Nat \ {0}) /\ Len(QuotNames) = 4

\* used_constants: the references, and for a constant without a value the
\* names its kind carries.
UsedConstants(table, n) ==
    LET c == table[n] IN
    c.refs \cup CASE c.kind = "induct" -> ToSet(c.ctors)
                  [] c.kind = "ctor"   -> {n}
                  [] c.kind = "rec"    -> ToSet(c.all)
                  [] OTHER             -> {}

\* The elements of s that are in S, in their order.
Kept(s, S) ==
    LET kept[i \in 0 .. Len(s)] ==
            IF i = 0 THEN << >>
            ELSE IF s[i] \in S THEN Append(kept[i - 1], s[i]) ELSE kept[i - 1]
    IN  kept[Len(s)]

-----------------------------------------------------------------------------
(* Passes 1 and 1b: every name gets one owning task. *)

Start == [ok |-> TRUE, tasks |-> << >>, owner |-> << >>]

Failed(s) == [s EXCEPT !.ok = FALSE]

\* The names now belong to task t, whatever claimed them before.
Claimed(owner, names, t) ==
    [n \in DOMAIN owner \cup names |-> IF n \in names THEN t ELSE owner[n]]

\* A new task claims the given names.
AddTask(s, t, names) ==
    [s EXCEPT !.tasks = Append(@, t),
              !.owner = Claimed(@, ToSet(names), Len(s.tasks) + 1)]

CtorsOf(table, members) == FlattenSeq([i \in DOMAIN members |-> table[members[i]].ctors])

AddBlock(table, s, n) ==
    LET members == table[n].all IN
    IF \E m \in ToSet(members) : m \notin DOMAIN table \/ table[m].kind # "induct"
    THEN Failed(s)
    ELSE LET names == members \o CtorsOf(table, members) IN
         AddTask(s, [kind |-> "block", members |-> members, admits |-> names], names)

QuotsOf(table) == {q \in DOMAIN table : table[q].kind = "quot"}

\* All quotient constants share one task; Eq must be among the names.
AddQuot(table, s) ==
    LET names == Kept([i \in 1 .. Max(DOMAIN table) |-> i], QuotsOf(table)) IN
    IF EqName \notin DOMAIN table THEN Failed(s)
    ELSE AddTask(s, [kind |-> "quot", members |-> names, admits |-> names], names)

AddSimple(s, n) ==
    AddTask(s, [kind |-> "simple", members |-> <<n>>, admits |-> <<n>>], <<n>>)

\* Constructors and recursors wait for pass 1b.
AssignName(table, s, n) ==
    IF ~s.ok \/ n \notin DOMAIN table \/ n \in DOMAIN s.owner THEN s
    ELSE CASE table[n].kind = "induct"         -> AddBlock(table, s, n)
           [] table[n].kind = "quot"           -> AddQuot(table, s)
           [] table[n].kind \in {"ctor", "rec"} -> s
           [] OTHER                            -> AddSimple(s, n)

\* resolve_block: the name through which a stray constructor or recursor
\* finds its block; 0 when there is none.
BlockHead(table, n) ==
    LET c == table[n] IN
    CASE c.kind = "ctor"                  -> c.induct
      [] c.kind = "rec" /\ c.all # << >> -> c.all[1]
      [] OTHER                            -> 0

ClaimStray(table, s, n) ==
    IF ~s.ok \/ n \notin DOMAIN table \/ n \in DOMAIN s.owner THEN s
    ELSE LET h == BlockHead(table, n) IN
         IF h \notin DOMAIN s.owner THEN Failed(s)
         ELSE [s EXCEPT !.owner = Claimed(@, {n}, s.owner[h]),
                        !.tasks[s.owner[h]].admits = Append(@, n)]

\* Each pass visits the names in their order.
Pass1(table) ==
    LET last == Max(DOMAIN table)
        upTo[k \in 0 .. last] ==
            IF k = 0 THEN Start ELSE AssignName(table, upTo[k - 1], k)
    IN  upTo[last]

AssignTasks(table) ==
    LET last == Max(DOMAIN table)
        upTo[k \in 0 .. last] ==
            IF k = 0 THEN Pass1(table) ELSE ClaimStray(table, upTo[k - 1], k)
    IN  upTo[last]

-----------------------------------------------------------------------------
(* Passes 2 and 2b: the edges. *)

\* Each edge once, however many names of the owner use the dependency.
UseEdges(table, s, t) ==
    {s.owner[d] : d \in UNION {UsedConstants(table, n) :
                               n \in {m \in DOMAIN table : s.owner[m] = t}}} \ {t}

\* Quotient initialisation always depends on Eq.
\* Mutation: the explicit edge is left to the generic walk.
NoEqEdge(s, t) == {}

EqEdge(s, t) == IF s.tasks[t].kind = "quot" THEN {s.owner[EqName]} \ {t} ELSE {}

Edges(table, s, t) == UseEdges(table, s, t) \cup EqEdge(s, t)

\* Some used constant belongs to no task.
Dangling(table, s) ==
    \E n \in DOMAIN table : ~(UsedConstants(table, n) \subseteq DOMAIN s.owner)

BuildFails(table) ==
    LET s == AssignTasks(table) IN ~s.ok \/ Dangling(table, s)

-----------------------------------------------------------------------------
(* What run_task does with each task of the graph. *)

\* The constants the kernel regenerates for a block or for the quotient.
Survivors(table, t) ==
    IF t.kind = "quot" THEN QuotNames
    ELSE IF t.kind = "block"
    THEN t.members \o CtorsOf(table, t.members)
         \o FlattenSeq([i \in DOMAIN t.members |-> table[t.members[i]].recs])
    ELSE << >>

\* The names the kernel type-checks in a task.
CheckedNames(table, t) ==
    ToSet(t.members) \cup
    IF t.kind = "block" THEN ToSet(CtorsOf(table, t.members)) ELSE {}

\* The names run_task admits: members (and constructors), then whatever
\* survivor is not among them.
Flips(table, t) ==
    LET own == IF t.kind = "block" THEN t.members \o CtorsOf(table, t.members)
               ELSE t.members
        survivors == Survivors(table, t)
    IN  own \o Kept(survivors, ToSet(survivors) \ ToSet(own))

\* run_block and run_quot: a missing constructor or a rejected member fails
\* the check, a survivor that is absent or differs fails the comparison.
Content(table, t) ==
    CASE \E n \in CheckedNames(table, t) : n \notin DOMAIN table \/ ~table[n].good
            -> "rejected"
      [] (\A n \in CheckedNames(table, t) : n \in DOMAIN table /\ table[n].good)
         /\ \E n \in ToSet(Survivors(table, t)) : n \notin DOMAIN table \/ ~table[n].twin
            -> "mismatch"
      [] OTHER -> "ok"

\* Definitions unfold, so a check can look up whatever its names reach.
Reach(table, roots) ==
    LET steps == Cardinality(DOMAIN table)
        within[k \in 0 .. steps] ==
            IF k = 0 THEN roots
            ELSE LET seen == within[k - 1]
                 IN  seen \cup UNION {UsedConstants(table, n) : n \in seen \cap DOMAIN table}
    IN  within[steps]

\* What the check of a task looks up.  A block sees its own types and
\* constructors while they are checked, a simple constant does not see
\* itself.  Quotient initialisation checks the type of Eq.
Lookups(table, t) ==
    LET own == CheckedNames(table, t) IN
    CASE t.kind = "simple" -> Reach(table, table[t.members[1]].refs)
      [] t.kind = "block"  -> Reach(table, own) \ own
      [] t.kind = "quot"   -> Reach(table, own \cup {EqName}) \ own

\* task_checked_count: one per task, one per quotient constant.
CheckedCount(t) == IF t.kind = "quot" THEN Len(t.members) ELSE 1

BuildGraph(table) ==
    LET s   == AssignTasks(table)
        ids == 1 .. Len(s.tasks)
    IN  [size    |-> Len(s.tasks),
         deps    |-> [t \in ids |-> Edges(table, s, t)],
         admits  |-> [t \in ids |-> s.tasks[t].admits],
         flips   |-> [t \in ids |-> Flips(table, s.tasks[t])],
         uses    |-> [t \in ids |-> Lookups(table, s.tasks[t])],
         content |-> [t \in ids |-> Content(table, s.tasks[t])],
         quot    |-> [t \in ids |-> s.tasks[t].kind = "quot"],
         reduces |-> [t \in ids |-> /\ s.tasks[t].kind # "quot"
                                    /\ \E n \in Lookups(table, s.tasks[t]) \cap DOMAIN table :
                                           table[n].kind = "quot"],
         units   |-> [t \in ids |-> CheckedCount(s.tasks[t])]]

=============================================================================
