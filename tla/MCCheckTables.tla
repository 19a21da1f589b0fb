---------------------------- MODULE MCCheckTables ----------------------------
(***************************************************************************)
(* The tables are Eq with its constructor and recursor, the quotient       *)
(* constants, a mutual block and definitions over them, and every table    *)
(* that differs from these in one place.                                   *)
(***************************************************************************)
EXTENDS CheckTables

Const(kind, refs) ==
    [kind |-> kind, refs |-> refs, all |-> << >>, ctors |-> << >>, induct |-> 0,
     recs |-> << >>, good |-> TRUE, twin |-> TRUE]

Simple(refs) == Const("simple", refs)
Induct(all, refs, ctors, recs) ==
    [Const("induct", refs) EXCEPT !.all = all, !.ctors = ctors, !.recs = recs]
Ctor(induct, refs) == [Const("ctor", refs) EXCEPT !.induct = induct]
Rec(all, refs) == [Const("rec", refs) EXCEPT !.all = all]
Quot(refs) == Const("quot", refs)

MCEqName == 1
MCQuotNames == <<4, 5, 6, 7>>

\* 1-3 Eq, Eq.refl, Eq.rec; 4-7 the quotient, whose types do not mention
\* Eq here; 8 wraps Quot.lift, 9 unfolds 8, 10 uses Eq.rec only.
Base ==
    1 :> Induct(<<1>>, {}, <<2>>, <<3>>) @@ 2 :> Ctor(1, {1}) @@ 3 :> Rec(<<1>>, {1, 2}) @@
    4 :> Quot({}) @@ 5 :> Quot({4}) @@ 6 :> Quot({4}) @@ 7 :> Quot({4, 5}) @@
    8 :> Simple({6}) @@ 9 :> Simple({8}) @@ 10 :> Simple({3})

\* A mutual block 3, 1 whose head sorts last, with a constructor (2) and the
\* recursors (4, 5) between them; 6 uses a constructor, 7 a recursor.
Mutual ==
    1 :> Induct(<<3, 1>>, {}, <<2>>, <<4>>) @@ 2 :> Ctor(1, {1, 3, 6}) @@
    3 :> Induct(<<3, 1>>, {}, << >>, <<5>>) @@ 4 :> Rec(<<3, 1>>, {1, 2, 3}) @@
    5 :> Rec(<<3, 1>>, {1, 3}) @@ 6 :> Simple({}) @@ 7 :> Simple({2, 4}) @@ 8 :> Simple({5})

Without(table, k) == [n \in DOMAIN table \ {k} |-> table[n]]

OfKind(table, kinds) == {n \in DOMAIN table : table[n].kind \in kinds}

\* One constant is missing, is rejected by the kernel, differs from what the
\* kernel regenerates, or mentions something else.
Variants(table) ==
    {Without(table, k) : k \in DOMAIN table} \cup
    {[table EXCEPT ![k].good = FALSE] : k \in OfKind(table, {"simple", "induct", "ctor"})} \cup
    {[table EXCEPT ![k].twin = FALSE] : k \in OfKind(table, {"induct", "ctor", "rec", "quot"})} \cup
    {[table EXCEPT ![k].refs = {r}] :
        k \in OfKind(table, {"simple"}), r \in DOMAIN table} \cup
    {[table EXCEPT ![k].refs = @ \cup {r}] :
        k \in OfKind(table, {"ctor"}), r \in OfKind(table, {"simple"})}

\* Quot.lift mentions Eq.
QuotUsesEq == [Base EXCEPT ![6].refs = {1, 4}]

MCTables == {Base, QuotUsesEq, Mutual} \cup Variants(Base) \cup Variants(Mutual)

ASSUME TablesAreWellFormed == \A table \in MCTables : WellFormed(table) /\ Regenerated(table)

MCGraphs == {GraphOf(table) : table \in MCTables}

\* A mutual block in which the type of 3 mentions 6 and no constructor does:
\* 3 is an indexed family without constructors.
MemberTypeTables == {[Mutual EXCEPT ![2].refs = {1, 3}, ![3].refs = {6}]}

MemberTypeGraphs == {GraphOf(table) : table \in MemberTypeTables}

=============================================================================
