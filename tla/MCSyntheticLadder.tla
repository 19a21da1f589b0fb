-------------------------- MODULE MCSyntheticLadder --------------------------
(* Programs for model checking the ladder: every sequence of at most three of the
   instructions below, each at most once so that places stay unique. *)
EXTENDS SyntheticLadder

a == "a"
b == "b"
c == "c"

Expected(mv)  == [op |-> "expect", mv |-> mv]
Demanded(mv)  == [op |-> "demand", mv |-> mv]
Is(mv, val)   == [op |-> "unify", mv |-> mv, val |-> val]
Goal(cls, mv, out) == [op |-> "inst", goal |-> [cls |-> cls, mv |-> mv, out |-> out, via |-> None]]
Coerced(mv, val)   == [op |-> "coe", mv |-> mv, val |-> val]
Tactic        == [op |-> "tactic"]
Sub(term)     == [op |-> "elab", term |-> term]
Scoped(postpone, term) == [op |-> "with", postpone |-> postpone, term |-> term]
Drained(defaults)      == [op |-> "drain", defaults |-> defaults]
Term(name, code) == [name |-> name, code |-> code]

\* x + y with literals: an instance of the operator, and the result's type.
Sum     == Term("sum", <<Goal("HAdd", a, b), Goal("OfNat", a, None)>>)
Lambda(name) == Term(name, <<Expected(a), Goal("OfNat", c, None), Is(b, "Int")>>)
Picky   == Term("picky", <<Expected(b), Demanded(a), Is(c, "Nat")>>)
Nested  == Term("nested", <<Goal("Dec", c, None), Sub(Lambda("inLambda")), Expected(b)>>)
Ascribed == Term("ascribed", <<Goal("OfNat", b, None), Sub(Term("inner", <<Expected(c), Is(a, "Nat")>>))>>)
LetType == Term("letType", <<Sub(Term("body", <<Expected(b), Goal("Show", c, None)>>)), Goal("Dec", b, None)>>)
Scope   == Term("scope", <<Expected(a), Scoped("Yes", LetType)>>)

Pool == {Is(a, "Int"), Is(b, "Nat"), Goal("OfNat", a, None), Goal("HAdd", a, b), Goal("Show", b, None),
         Goal("Pair", c, None), Goal("Dec", c, None), Is(c, "Int"), Coerced(c, "Nat"), Tactic,
         Sub(Lambda("lambda")), Sub(Picky), Sub(Nested), Sub(Scope), Scoped("No", Sum), Scoped("Yes", Ascribed),
         Scoped("Partial", LetType),
         Scoped("Partial", Term("opType", <<Goal("Add", b, None), Coerced(b, "Int")>>)), Drained(TRUE), Drained(FALSE)}

MCPrograms ==
    {Term("main", code) : code \in
        UNION {{code \in [1..n -> Pool] : IsInjective(code)} : n \in 1..3}}

\* The second instance has a value by typing that mentions the first, which waits for a
\* default instance.
DependentPrograms ==
    {Term("main", <<Goal("OfNat", b, None),
                    [Goal("Dec", a, None) EXCEPT !.goal.via = <<"main", 3>>],
                    Is(a, "Int")>>)}

MCInstances ==
    [key \in {<<"OfNat", "Nat">>, <<"OfNat", "Int">>, <<"Dec", "Int">>, <<"Add", "Nat">>,
              <<"HAdd", "Nat">>, <<"HAdd", "Int">>, <<"Coe", "Nat">>} |->
        IF key[1] = "HAdd" THEN key[2] ELSE None]

\* Show is derived from OfNat of an unknown type, Pair's first candidate is rejected.
Default(prio, val, prems) == [prio |-> prio, val |-> val, prems |-> prems]
Prem(cls, same) == [cls |-> cls, same |-> same]
MCDefaults ==
    [cls \in {"OfNat", "Dec", "Add", "HAdd", "Show", "Pair", "Never"} |->
        CASE cls = "OfNat" -> <<Default(2, "Nat", <<>>)>>
          [] cls = "Dec" -> <<Default(1, "Int", <<>>)>>
          [] cls = "Show" -> <<Default(1, "Nat", <<Prem("OfNat", FALSE), Prem("Add", TRUE)>>)>>
          [] cls = "Pair" -> <<Default(2, "Int", <<Prem("Never", FALSE)>>), Default(1, "Nat", <<Prem("Add", TRUE)>>)>>
          [] OTHER -> <<>>]
==============================================================================
