----------------------------- MODULE MCSynthesis -----------------------------
(* Instance tables and goals for model checking the search: every sequence of at most
   three of the clauses below, and some larger tables in every order. *)
EXTENDS Synthesis

a == Con("a")
b == Con("b")
m == Caller("m")
x == Var(1)
y == Var(2)
z == Var(3)

Prem(cls, args, ev) == [cls |-> cls, args |-> args, ev |-> Var(ev)]
Clause(name, cls, args, prems, n) ==
    [name |-> name, head |-> [cls |-> cls, args |-> args], prems |-> prems, nvars |-> n]

CA   == Clause("CA", "C", <<a>>, <<>>, 0)
DB   == Clause("DB", "D", <<b>>, <<>>, 0)
DAll == Clause("DAll", "D", <<x>>, <<>>, 1)
CofD == Clause("CofD", "C", <<x>>, <<Prem("D", <<x>>, 2)>>, 2)
DofC == Clause("DofC", "D", <<x>>, <<Prem("C", <<x>>, 2)>>, 2)
CofR == Clause("CofR", "C", <<x>>, <<Prem("R", <<x, y>>, 3), Prem("D", <<y>>, 4)>>, 4)
RAB  == Clause("RAB", "R", <<a, b>>, <<>>, 0)
RAA  == Clause("RAA", "R", <<a, a>>, <<>>, 0)
RBA  == Clause("RBA", "R", <<b, a>>, <<>>, 0)
RSym == Clause("RSym", "R", <<x, y>>, <<Prem("R", <<y, x>>, 3)>>, 3)
RTrans == Clause("RTrans", "R", <<x, z>>, <<Prem("R", <<x, y>>, 4), Prem("R", <<y, z>>, 5)>>, 5)
FAB  == Clause("FAB", "F", <<a, b>>, <<>>, 0)
CofF == Clause("CofF", "C", <<x>>, <<Prem("F", <<x, y>>, 3), Prem("D", <<y>>, 4)>>, 4)
\* The instance argument of the premise is named by the head: unification may assign it.
LofC == Clause("LofC", "L", <<x, y>>, <<Prem("C", <<x>>, 2)>>, 2)
DofL == Clause("DofL", "D", <<x>>, <<Prem("C", <<x>>, 2), Prem("L", <<x, y>>, 3)>>, 3)

Pool == {CA, DB, DAll, CofD, DofC, CofR, RAB, RAA, RBA, RSym, RTrans, FAB, CofF, LofC, DofL}

Larger == {{RAB, RBA, RSym, RTrans}, {CA, CofD, DofC, DB}, {CofR, RAB, RSym, DofC, CA},
           {CofF, FAB, DB, CofD}, {LofC, DofL, CA, CofD},
           {CofR, RAA, RAB, DB}}

MCDatabases ==
    UNION {SetToSeqs({p, q, r}) : p \in Pool, q \in Pool, r \in Pool}
        \cup UNION {SetToSeqs(s) : s \in Larger}

Ask(cls, args) == [cls |-> cls, args |-> args]
MCGoals == {Ask("C", <<a>>), Ask("C", <<b>>), Ask("C", <<m>>), Ask("R", <<b, a>>),
            Ask("R", <<a, m>>), Ask("R", <<m, m>>), Ask("F", <<a, m>>), Ask("F", <<a, a>>),
            Ask("L", <<a, b>>), Ask("D", <<a>>)}

MCGround == {Inst, a, b, m}

MCOutParam == [cls \in {"C", "D", "R", "F", "L"} |-> IF cls = "F" THEN {2} ELSE {}]
==============================================================================
