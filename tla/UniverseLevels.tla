--------------------------- MODULE UniverseLevels ---------------------------
(* Universe levels of the kernel (leanr_kernel/src/level.rs) and the order  *)
(* the inductive-type checks put on them (leanr_kernel/src/inductive.rs).   *)
(*                                                                          *)
(* The kernel never evaluates a level: it rewrites levels to a normal form  *)
(* and compares the forms.  This module has the rewriting, the standard     *)
(* meaning of a level (its value under an assignment of numbers to the      *)
(* parameters), and a machine that puts every question the kernel asks      *)
(* about every pair of small levels, so that TLC can hold one against the   *)
(* other.  Parameters are numbers in the order name_cmp gives their names.  *)
EXTENDS Naturals, SequencesExt

CONSTANTS
    ParamCount,     \* the parameters are 1 .. ParamCount
    MaxSize,        \* bound: nodes of the two levels of a question together
    MaxValue        \* bound: values the parameters are evaluated at

ASSUME LevelAssumption == {ParamCount, MaxSize, MaxValue} \subseteq Nat

VARIABLES
    left, right,    \* the operands of the question
    answer          \* the operation asked for and what it returned

vars == <<left, right, answer>>

-----------------------------------------------------------------------------
(* Levels, as trees.  Equality of trees is structural_eq.                   *)

Node(kind, name, args) == [kind |-> kind, name |-> name, args |-> args]

Zero       == Node("zero", 0, << >>)
Param(p)   == Node("param", p, << >>)
Succ(l)    == Node("succ", 0, <<l>>)
MaxOf(a, b)  == Node("max", 0, <<a, b>>)
IMaxOf(a, b) == Node("imax", 0, <<a, b>>)

Names == 1 .. ParamCount

RECURSIVE LevelsOfSize(_)
LevelsOfSize(n) ==
    IF n = 1 THEN {Zero} \cup {Param(p) : p \in Names}
    ELSE {Succ(l) : l \in LevelsOfSize(n - 1)}
         \cup UNION {UNION {{MaxOf(a, b), IMaxOf(a, b)} :
                              a \in LevelsOfSize(i), b \in LevelsOfSize(n - 1 - i)} :
                       i \in 1 .. n - 2}

\* What a level means: imax is 0 where its right side is, and max elsewhere.
Larger(m, n) == IF m >= n THEN m ELSE n

RECURSIVE Value(_, _)
Value(l, v) ==
    LET arg(i) == Value(l.args[i], v)
    IN  CASE l.kind = "zero"  -> 0
          [] l.kind = "param" -> v[l.name]
          [] l.kind = "succ"  -> arg(1) + 1
          [] l.kind = "max"   -> Larger(arg(1), arg(2))
          [] l.kind = "imax"  -> IF arg(2) = 0 THEN 0 ELSE Larger(arg(1), arg(2))

Valuations == [Names -> 0 .. MaxValue]

-----------------------------------------------------------------------------
(* The smart constructors.                                                  *)

RECURSIVE Base(_), Offset(_), SuccN(_, _)
Base(l)     == IF l.kind = "succ" THEN Base(l.args[1]) ELSE l
Offset(l)   == IF l.kind = "succ" THEN 1 + Offset(l.args[1]) ELSE 0
SuccN(l, k) == IF k = 0 THEN l ELSE Succ(SuccN(l, k - 1))

IsExplicit(l) == Base(l) = Zero

RECURSIVE IsNeverZero(_)
IsNeverZero(l) ==
    \/ l.kind = "succ"
    \/ l.kind = "max" /\ (IsNeverZero(l.args[1]) \/ IsNeverZero(l.args[2]))
    \/ l.kind = "imax" /\ IsNeverZero(l.args[2])

HasArg(l, a) == l.kind = "max" /\ a \in ToSet(l.args)

\* max of two levels, without the arguments the other one subsumes.
MkMaxPair(a, b) ==
    LET bigger == IF Offset(a) > Offset(b) THEN a ELSE b
    IN  IF IsExplicit(a) /\ IsExplicit(b) THEN bigger
        ELSE IF a = b \/ b = Zero \/ HasArg(a, b) THEN a
        ELSE IF a = Zero \/ HasArg(b, a) THEN b
        ELSE IF Base(a) = Base(b) THEN bigger
        ELSE MaxOf(a, b)

\* imax of two levels: max once the right side cannot be zero.
MkIMaxPair(a, b) ==
    IF IsNeverZero(b) THEN MkMaxPair(a, b)
    ELSE IF b = Zero \/ a \in {Zero, Succ(Zero)} THEN b
    ELSE IF a = b THEN a
    ELSE IMaxOf(a, b)

\* Substitutes args for names at once.  A subtree that no name touches is kept
\* as it is; the others are rebuilt through the smart constructors.
RECURSIVE Touched(_, _)
Touched(l, names) ==
    l.name \in ToSet(names) \/ \E i \in DOMAIN l.args : Touched(l.args[i], names)

FirstArg(p, names, args) ==
    args[CHOOSE i \in DOMAIN names : names[i] = p /\ \A j \in 1 .. i - 1 : names[j] # p]

RECURSIVE InstantiateParams(_, _, _)
InstantiateParams(l, names, args) ==
    LET arg(i) == InstantiateParams(l.args[i], names, args)
    IN  IF ~ Touched(l, names) THEN l
        ELSE CASE l.kind = "param" -> FirstArg(l.name, names, args)
               [] l.kind = "succ"  -> Succ(arg(1))
               [] l.kind = "max"   -> MkMaxPair(arg(1), arg(2))
               [] l.kind = "imax"  -> MkIMaxPair(arg(1), arg(2))

-----------------------------------------------------------------------------
(* Normal forms.                                                            *)

KindRank(l) == CASE l.kind = "zero"  -> 0
                 [] l.kind = "succ"  -> 1
                 [] l.kind = "max"   -> 2
                 [] l.kind = "imax"  -> 3
                 [] l.kind = "param" -> 4

\* The order in which normalize sorts the arguments of a max: by base, then by
\* offset, so that the levels that differ in their offset alone are neighbours.
RECURSIVE IsNormLt(_, _)
IsNormLt(a, b) ==
    LET l == Base(a)
        r == Base(b)
        first == IF l.args[1] # r.args[1] THEN 1 ELSE 2
    IN  IF l = r THEN Offset(a) < Offset(b)
        ELSE \/ KindRank(l) < KindRank(r)
             \/ l.kind = "param" /\ r.kind = "param" /\ l.name < r.name
             \/ /\ l.kind = r.kind /\ l.kind \in {"max", "imax"}
                /\ IsNormLt(l.args[first], r.args[first])

RECURSIVE MaxArgs(_)
MaxArgs(l) == IF l.kind = "max" THEN MaxArgs(l.args[1]) \o MaxArgs(l.args[2]) ELSE <<l>>

\* The numerals of a sorted list, of which only the largest matters, and it only
\* when no other argument is certain to reach it.

\* Mutation: a numeral one above the offset goes too.
SubsumesOneMore(l, numeral) == Offset(l) + 1 >= Offset(numeral)

Subsumes(l, numeral) == Offset(l) >= Offset(numeral)

WithoutNumerals(sorted) ==
    LET numerals == SelectSeq(sorted, IsExplicit)
        rest     == SubSeq(sorted, Len(numerals) + 1, Len(sorted))
    IN  IF numerals = << >> \/ \E i \in DOMAIN rest : Subsumes(rest[i], Last(numerals))
        THEN rest
        ELSE <<Last(numerals)>> \o rest

\* Of the neighbours with one base, the one with the largest offset.
KeepLargestOffsets(sorted) ==
    LET Keep(kept, l) ==
            IF kept = << >> \/ Base(Last(kept)) # Base(l) THEN Append(kept, l)
            ELSE IF Offset(Last(kept)) < Offset(l) THEN Append(Front(kept), l)
            ELSE kept
    IN  FoldLeft(Keep, << >>, sorted)

MkMaxList(args) == FoldRight(MkMaxPair, Front(args), Last(args))

RECURSIVE Normalize(_), NormalizedArgs(_)
NormalizedArgs(args) ==
    IF args = << >> THEN << >>
    ELSE MaxArgs(Normalize(Head(args))) \o NormalizedArgs(Tail(args))

Normalize(l) ==
    LET base == Base(l)
        k    == Offset(l)
        kept == KeepLargestOffsets(WithoutNumerals(
                    SortSeq(NormalizedArgs(MaxArgs(base)), IsNormLt)))
    IN  CASE base.kind \in {"zero", "param"} -> l
          [] base.kind = "imax" ->
                 SuccN(MkIMaxPair(Normalize(base.args[1]), Normalize(base.args[2])), k)
          [] base.kind = "max"  -> MkMaxList([i \in DOMAIN kept |-> SuccN(kept[i], k)])

IsEquivalent(a, b) == a = b \/ Normalize(a) = Normalize(b)

\* The order of the universe check: at least b under every assignment.
RECURSIVE IsGeq(_, _), IsGeqCore(_, _)
IsGeq(a, b) == IsGeqCore(Normalize(a), Normalize(b))

IsGeqCore(a, b) ==
    IF a = b \/ b = Zero THEN TRUE
    ELSE IF b.kind = "max" THEN IsGeq(a, b.args[1]) /\ IsGeq(a, b.args[2])
    ELSE IF a.kind = "max" /\ (IsGeq(a.args[1], b) \/ IsGeq(a.args[2], b)) THEN TRUE
    ELSE IF b.kind = "imax" THEN IsGeq(a, b.args[1]) /\ IsGeq(a, b.args[2])
    ELSE IF a.kind = "imax" THEN IsGeq(a.args[2], b)
    ELSE IF Base(a) = Base(b) \/ Base(b) = Zero THEN Offset(a) >= Offset(b)
    ELSE Offset(a) = Offset(b) /\ Offset(a) > 0 /\ IsGeq(Base(a), Base(b))

-----------------------------------------------------------------------------
(* The questions the kernel asks.                                           *)

Unanswered == [op |-> "none"]

Init ==
    /\ \E m, n \in 1 .. MaxSize :
          m + n <= MaxSize /\ left \in LevelsOfSize(m) /\ right \in LevelsOfSize(n)
    /\ answer = Unanswered

Answer(op, extra, result) ==
    /\ answer = Unanswered
    /\ answer' = [op |-> op, extra |-> extra, result |-> result]
    /\ UNCHANGED <<left, right>>

AskMax        == Answer("max", << >>, MkMaxPair(left, right))
AskIMax       == Answer("imax", << >>, MkIMaxPair(left, right))
AskNormalize  == Answer("normalize", << >>, Normalize(left))
AskEquivalent == Answer("equivalent", << >>, IsEquivalent(left, right))
AskGeq        == Answer("geq", << >>, IsGeq(left, right))

\* Two parameters, or one, or one twice, become right and left.
AskInstantiate ==
    \E names \in SeqOf(Names, 2) \ {<< >>} :
        Answer("instantiate", names, InstantiateParams(left, names, <<right, left>>))

\* Is a max of three levels the same in another order and with other brackets?
Rearranged(a, b, c) ==
    {MaxOf(b, MaxOf(a, c)), MaxOf(MaxOf(c, b), a), MaxOf(b, MaxOf(c, a))}

AskRearranged ==
    \E third \in LevelsOfSize(1) :
        Answer("rearranged", <<third>>,
               \A l \in Rearranged(left, right, third) :
                   IsEquivalent(MaxOf(MaxOf(left, right), third), l))

Next ==
    \/ AskMax \/ AskIMax \/ AskNormalize \/ AskInstantiate
    \/ AskEquivalent \/ AskGeq \/ AskRearranged

Spec == Init /\ [][Next]_vars

-----------------------------------------------------------------------------
(* Properties.                                                              *)

\* v with the parameters in names set to the values of the levels they become.
Substituted(v, names) ==
    [p \in Names |-> IF p \in ToSet(names)
                     THEN Value(FirstArg(p, names, <<right, left>>), v)
                     ELSE v[p]]

\* Every answer agrees with the meaning of levels, under every assignment: the
\* smart constructors, substitutions and normal forms (level.rs:229-430) denote
\* what they stand for, and neither is_equivalent (level.rs:434) nor the
\* universe check is_geq (inductive.rs:379) accepts what some assignment
\* refutes.  And a max is one level however its arguments are ordered and
\* bracketed, which rests on is_norm_lt being a total order (level.rs:521).
AnswersAreRight ==
    /\ answer.op = "rearranged" => answer.result
    /\ \A v \in Valuations :
          LET l == Value(left, v)
              r == Value(right, v)
          IN  CASE answer.op \in {"none", "rearranged"} -> TRUE
                [] answer.op = "equivalent" -> answer.result => l = r
                [] answer.op = "geq"        -> answer.result => l >= r
                [] answer.op = "max"        -> Value(answer.result, v) = Larger(l, r)
                [] answer.op = "imax"       -> Value(answer.result, v) = IF r = 0 THEN 0
                                                                        ELSE Larger(l, r)
                [] answer.op = "normalize"  -> Value(answer.result, v) = l
                [] answer.op = "instantiate" ->
                       Value(answer.result, v) = Value(left, Substituted(v, answer.extra))
=============================================================================
