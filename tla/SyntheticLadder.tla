--------------------------- MODULE SyntheticLadder ---------------------------
(***************************************************************************)
(* Postponed elaboration (src/crates/leanr_elab/src/{elab,postpone}.rs and *)
(* src/crates/leanr_elab/src/synthetic/): terms that cannot be elaborated  *)
(* yet become synthetic metavariables, and a ladder of ever more forceful  *)
(* passes (synthesize_synthetic_mvars) works the pending list off.         *)
(*                                                                         *)
(* The elaborator is sequential and recursive, and it throws; the module   *)
(* is a machine with an explicit stack of frames, so that what a throw, a  *)
(* nested with_synthesize or a rolled-back attempt leaves behind is a      *)
(* state.  A term is abstracted to the instructions its elaborator runs,   *)
(* in order, on type metavariables: wait for one, assign one, ask for an   *)
(* instance or a coercion, elaborate a subterm, run the ladder.            *)
(***************************************************************************)
EXTENDS Naturals, FiniteSets, Sequences, SequencesExt, FiniteSetsExt

CONSTANTS
    Programs,     \* the terms elaborated: [name, code], names unique inside a program
    TypeMVars,    \* the type metavariables the code speaks of
    Instances,    \* <<class, type>> |-> the output parameter of that instance (None without)
    Defaults      \* class |-> its default instances [prio, val, prems], in the order tried

VARIABLES
    ts,           \* Term.State and the assignments: what save_term_state snapshots
    origin,       \* origin[id]: the place in the program that minted mvar id; never rewound
    may_postpone, \* TermElabM::may_postpone
    stack,        \* the calls in progress, innermost first
    ctl           \* "run", the Bool a call returned ("true", "false") or what it threw

vars == <<ts, origin, may_postpone, stack, ctl>>

None == "none"
Open == "open"               \* an unassigned type metavariable

Thrown == {"postpone", "error", "mismatch", "seam"}
OracleErrors == {"error", "mismatch"}       \* ElabError::is_oracle_error

Top == Head(stack)
Running(f) == /\ stack # <<>>
              /\ Top.f = f
              /\ ctl = "run"
Returned(f) == /\ stack # <<>>
               /\ Top.f = f
               /\ ctl \in {"true", "false"}
Bool(b) == IF b THEN "true" ELSE "false"
Replace(frame) == <<frame>> \o Tail(stack)

------------------------------------------------------------------------------
(* Term.State: ts.pending has the most recent mvar first, ts.decls is synthetic_mvars,
   ts.types and ts.solved are the assignments of type and of synthetic mvars. *)

\* register_synthetic_mvar.
Register(t, id, decl) ==
    [t EXCEPT !.pending = <<id>> \o @, !.decls = [i \in DOMAIN @ \cup {id} |-> IF i = id THEN decl ELSE @[i]]]

\* mark_as_resolved: the declaration only, the step drops the mvar from the list.
MarkAsResolved(t, id) == [t EXCEPT !.decls = [i \in DOMAIN @ \ {id} |-> @[i]]]

\* Mutation: the metavariable context is rolled back, the elaborator's tables are not.
RestoreMetaOnly(saved) == [ts EXCEPT !.types = saved.types, !.solved = saved.solved]

\* restore_term_state.
RestoreTermState(saved) == saved

Unifies(t, mv, val) == mv = None \/ t.types[mv] \in {Open, val}
Assign(t, mv, val) == IF mv = None THEN t ELSE [t EXCEPT !.types[mv] = val]

\* The mvar registered for the place `label` of the program, if it is live.
GoalAt(t, label) == {id \in DOMAIN t.decls : origin[id] = label}

\* try_synth_instance on a goal [cls, mv, out, via].
TrySynthInstance(t, g) ==
    LET key == <<g.cls, t.types[g.mv]>>
    IN  IF t.types[g.mv] = Open THEN "undef"
        ELSE IF key \notin DOMAIN Instances \/ ~Unifies(t, g.out, Instances[key]) THEN "none"
        ELSE "some"

\* synthesize_inst_mvar_core.  A goal with a `via` already has a value, inferred by typing,
\* that mentions the instance minted at that place and agrees with the instance found
\* once that one is solved.
SynthesizeInstMVarCore(t, id, g) ==
    CASE TrySynthInstance(t, g) = "undef" -> [ts |-> t, ctl |-> "false"]
      [] TrySynthInstance(t, g) = "none"  -> [ts |-> t, ctl |-> "error"]
      [] OTHER ->
           IF g.via = None \/ GoalAt(t, g.via) \subseteq t.solved
           THEN [ts |-> [Assign(t, g.out, Instances[<<g.cls, t.types[g.mv]>>])
                            EXCEPT !.solved = @ \cup {id}],
                 ctl |-> "true"]
           ELSE [ts |-> t,
                 ctl |-> IF GoalAt(t, g.via) \cap ToSet(t.pending) # {}
                         THEN "false" ELSE "mismatch"]

\* synthesize_coe_mvar: [mv, val], a term of type mv used at type val.  Once mv is known,
\* equal types need no coercion and others the instance Coe.
SynthesizeCoe(t, id, c) ==
    CASE t.types[c.mv] = Open -> "false"
      [] t.types[c.mv] = c.val \/ <<"Coe", t.types[c.mv]>> \in DOMAIN Instances -> "true"
      [] OTHER -> "false"

\* synthesize_pending on the premises of a default instance: ordinary instances first,
\* then default instances of the premise's own class.  A premise speaks of the default's
\* type (same) or of a fresh metavariable.
DefaultInstances == UNION {ToSet(Defaults[cls]) : cls \in DOMAIN Defaults}
Premises(d) == {<<p.cls, IF p.same THEN d.val ELSE Open>> : p \in ToSet(d.prems)}
Goals == (DOMAIN Defaults) \X ({Open} \cup {d.val : d \in DefaultInstances})

DerivedWithin[n \in Nat] ==
    IF n = 0
    THEN DOMAIN Instances
    ELSE LET derived == DerivedWithin[n - 1]
         IN  derived \cup {goal \in Goals : \E d \in ToSet(Defaults[goal[1]]) :
                               goal[2] \in {Open, d.val} /\ Premises(d) \subseteq derived}

Derivable == DerivedWithin[Cardinality(Goals)]

\* synthesize_using_default_instance: unify, then close the premises, or change nothing.
Accepts(t, g, d) == Unifies(t, g.mv, d.val) /\ Premises(d) \subseteq Derivable

IsTypeClass(t, id) == id \in DOMAIN t.decls /\ t.decls[id].kind = "typeClass"

\* The default instances of priority prio that the pending mvar id accepts, in order.
AcceptedAt(t, id, prio) ==
    IF ~IsTypeClass(t, id) THEN <<>>
    ELSE SelectSeq(Defaults[t.decls[id].goal.cls],
                   LAMBDA d : d.prio = prio /\ Accepts(t, t.decls[id].goal, d))

Priorities == {d.prio : d \in DefaultInstances}

\* synthesize_using_default: by descending priority, the oldest goal that accepts one.
UsableDefaults(t) ==
    {u \in Priorities \X DOMAIN t.pending : AcceptedAt(t, t.pending[u[2]], u[1]) # <<>>}

FirstDefaults(t) ==
    {u \in UsableDefaults(t) : \A v \in UsableDefaults(t) :
        u[1] > v[1] \/ (u[1] = v[1] /\ u[2] >= v[2])}

UsingDefault(t, prio, i) ==
    LET id == t.pending[i]
    IN  [Assign(t, t.decls[id].goal.mv, Head(AcceptedAt(t, id, prio)).val)
            EXCEPT !.pending = RemoveAt(@, i), !.solved = @ \cup {id}]

SynthesizeUsingDefault ==
    \E u \in FirstDefaults(ts) : ts' = UsingDefault(ts, u[1], u[2])

------------------------------------------------------------------------------
(* Frames.
     elab    [code, place, saved]                elab_using_elab_fns, which catches Postpone
     resume  [code, place, saved, id, on_error]  resume_postponed
     step    [walk, kept, size, on_error, tactics, prev]   step_with, under without_postponing
             or not: prev is the flag to put back
     ladder  [postpone, rung]                    synthesize_synthetic_mvars
     loop    []                                  synthesize_using_default_loop
     with    [saved]                             with_synthesize_impl: the caller's pending list
   code is what is left to run; place <<name, n>> is the n-th instruction from the end. *)

Elab(term, saved) == [f |-> "elab", name |-> term.name, code |-> term.code, term |-> term, saved |-> saved]
Resume(t, id, on_error) ==
    [f |-> "resume", name |-> t.decls[id].term.name, code |-> t.decls[id].term.code,
     saved |-> t, id |-> id, on_error |-> on_error]
Ladder(postpone) == [f |-> "ladder", postpone |-> postpone, rung |-> 0]
DefaultLoop == [f |-> "loop"]
With(saved) == [f |-> "with", saved |-> saved]

\* with_synthesize: k, the ladder, the default loop under Yes, the caller's list put back.
WithSynthesize(term, postpone, inner, caller) ==
    <<Elab(term, inner), Ladder(postpone)>>
        \o (IF postpone = "Yes" THEN <<DefaultLoop>> ELSE <<>>) \o <<With(caller)>>

Init ==
    /\ ts = [pending |-> <<>>, decls |-> <<>>, types |-> [mv \in TypeMVars |-> Open], solved |-> {}]
    /\ origin = <<>>
    /\ may_postpone = TRUE
    /\ ctl = "run"
    /\ \E p \in Programs : stack = WithSynthesize(p, "No", ts, <<>>)

------------------------------------------------------------------------------
(* Elaborating: one action per kind of instruction. *)

Executing(op) ==
    /\ stack # <<>>
    /\ ctl = "run"
    /\ Top.f \in {"elab", "resume"}
    /\ Top.code # <<>>
    /\ Head(Top.code).op = op

Place == <<Top.name, Len(Top.code)>>
Continuation == Replace([Top EXCEPT !.code = Tail(@)])
Proceed == stack' = Continuation
Throw(e) == /\ ctl' = e
            /\ UNCHANGED stack

\* Mutation: with postponement off, a stuck elaborator still throws Postpone.
ThrowsPostponeAlways(mv) == ts.types[mv] = Open

\* try_postpone_if_mvar.
ThrowsPostpone(mv) == ts.types[mv] = Open /\ may_postpone

Expect ==
    /\ Executing("expect")
    /\ IF ThrowsPostpone(Head(Top.code).mv) THEN Throw("postpone") ELSE Proceed /\ UNCHANGED ctl
    /\ UNCHANGED <<ts, origin, may_postpone>>

\* An elaborator that cannot do without the type: MustBeKnown errors of fun, dot_ident, lval.
Demand ==
    /\ Executing("demand")
    /\ IF ts.types[Head(Top.code).mv] = Open THEN Throw("error") ELSE Proceed /\ UNCHANGED ctl
    /\ UNCHANGED <<ts, origin, may_postpone>>

\* is_def_eq of a type with a known one.
Unify ==
    /\ Executing("unify")
    /\ LET i == Head(Top.code)
       IN  IF Unifies(ts, i.mv, i.val)
           THEN /\ ts' = Assign(ts, i.mv, i.val)
                /\ Proceed
                /\ UNCHANGED ctl
           ELSE Throw("error") /\ UNCHANGED ts
    /\ UNCHANGED <<origin, may_postpone>>

\* mk_inst_mvar: synthesize at once, register what is not ready.
NewInst ==
    /\ Executing("inst")
    /\ LET id == Len(origin) + 1
           g  == Head(Top.code).goal
           r  == SynthesizeInstMVarCore(ts, id, g)
       IN  IF r.ctl \in Thrown
           THEN Throw(r.ctl) /\ UNCHANGED ts
           ELSE /\ ts' = IF r.ctl = "true" THEN r.ts
                         ELSE Register(ts, id, [kind |-> "typeClass", goal |-> g])
                /\ Proceed
                /\ UNCHANGED ctl
    /\ origin' = Append(origin, Place)
    /\ UNCHANGED may_postpone

\* mk_coe.
NewCoe ==
    /\ Executing("coe")
    /\ LET id == Len(origin) + 1
           c  == Head(Top.code)
       IN  IF ts.types[c.mv] # Open /\ SynthesizeCoe(ts, id, c) = "false"
           THEN Throw("error") /\ UNCHANGED <<ts, origin>>
           ELSE /\ IF ts.types[c.mv] # Open
                   THEN UNCHANGED <<ts, origin>>
                   ELSE /\ ts' = Register(ts, id, [kind |-> "coe", goal |-> c])
                        /\ origin' = Append(origin, Place)
                /\ Proceed
                /\ UNCHANGED ctl
    /\ UNCHANGED may_postpone

\* An omitted autoParam argument: a tactic to run, which this elaborator cannot.
NewTactic ==
    /\ Executing("tactic")
    /\ ts' = Register(ts, Len(origin) + 1, [kind |-> "tactic"])
    /\ origin' = Append(origin, Place)
    /\ Proceed
    /\ UNCHANGED <<may_postpone, ctl>>

Call(frames) == stack' = frames \o Continuation

\* elab_term of a subterm.
Enter ==
    /\ Executing("elab")
    /\ Call(<<Elab(Head(Top.code).term, ts)>>)
    /\ UNCHANGED <<ts, origin, may_postpone, ctl>>

\* with_synthesize around a subterm: ascriptions, let types, relations.
EnterWith ==
    /\ Executing("with")
    /\ LET inner == [ts EXCEPT !.pending = <<>>]
       IN  /\ ts' = inner
           /\ Call(WithSynthesize(Head(Top.code).term, Head(Top.code).postpone, inner, ts.pending))
    /\ UNCHANGED <<origin, may_postpone, ctl>>

\* synthesize_pending_and_normalize_fun_type and synthesize_synthetic_mvars_using_default:
\* the ladder on the caller's own list, then the default loop or not.
Drain ==
    /\ Executing("drain")
    /\ Call(<<Ladder("Yes")>> \o (IF Head(Top.code).defaults THEN <<DefaultLoop>> ELSE <<>>))
    /\ UNCHANGED <<ts, origin, may_postpone, ctl>>

Elaborated ==
    /\ Running("elab")
    /\ Top.code = <<>>
    /\ stack' = Tail(stack)
    /\ UNCHANGED <<ts, origin, may_postpone, ctl>>

\* The resumed term is elaborated: its mvar is assigned.
Resumed ==
    /\ Running("resume")
    /\ Top.code = <<>>
    /\ ts' = [ts EXCEPT !.solved = @ \cup {Top.id}]
    /\ ctl' = "true"
    /\ stack' = Tail(stack)
    /\ UNCHANGED <<origin, may_postpone>>

\* elab_using_elab_fns catches Postpone: roll the attempt back, register the term.
Postpone ==
    /\ stack # <<>>
    /\ ctl = "postpone"
    /\ Top.f = "elab"
    /\ ts' = Register(RestoreTermState(Top.saved), Len(origin) + 1,
                      [kind |-> "postponed", term |-> Top.term])
    /\ origin' = Append(origin, <<Top.name, 0>>)
    /\ ctl' = "run"
    /\ stack' = Tail(stack)
    /\ UNCHANGED may_postpone

------------------------------------------------------------------------------
(* One step of the ladder: every pending mvar once, oldest first. *)

StepOf(on_error, tactics) ==
    [f |-> "step", walk |-> Reverse(ts.pending), kept |-> <<>>, size |-> Len(ts.pending),
     on_error |-> on_error, tactics |-> tactics, prev |-> may_postpone]

\* step_with takes the list: what the walk registers goes to a fresh one.
BeginStep(rung) ==
    /\ ts' = [ts EXCEPT !.pending = <<>>]
    /\ stack' = <<StepOf(rung = 2, rung = 5)>> \o Replace([Top EXCEPT !.rung = rung])
    /\ may_postpone' = (may_postpone /\ rung \notin {2, 4})
    /\ ctl' = "run"
    /\ UNCHANGED origin

\* synthesize_synthetic_mvar: the kinds solved on the spot answer or throw, a postponed
\* term is resumed in a frame of its own.
Visit ==
    /\ Running("step")
    /\ Top.walk # <<>>
    /\ LET id   == Head(Top.walk)
           Answer(a) == ctl' = a /\ UNCHANGED stack
       IN  IF id \notin DOMAIN ts.decls
           THEN Answer("true") /\ UNCHANGED ts
           ELSE LET d == ts.decls[id]
                    r == SynthesizeInstMVarCore(ts, id, d.goal)
                    c == SynthesizeCoe(ts, id, d.goal)
                IN  \/ d.kind = "typeClass" /\ ts' = r.ts /\ Answer(r.ctl)
                    \/ /\ d.kind = "coe"
                       /\ ts' = IF c = "true" THEN [ts EXCEPT !.solved = @ \cup {id}] ELSE ts
                       /\ Answer(c)
                    \/ /\ d.kind = "tactic"
                       /\ Answer(IF Top.tactics THEN "seam" ELSE "false")
                       /\ UNCHANGED ts
                    \/ /\ d.kind = "postponed"
                       /\ stack' = <<Resume(ts, id, Top.on_error)>> \o stack
                       /\ UNCHANGED <<ts, ctl>>
    /\ UNCHANGED <<origin, may_postpone>>

\* Mutation: an mvar that stays counts as progress.
SettleAlways ==
    LET id == Head(Top.walk)
    IN  stack' = Replace([Top EXCEPT !.walk = Tail(@), !.size = IF ctl = "true" THEN @ ELSE @ + 1,
                                     !.kept = IF ctl = "true" THEN @ ELSE Append(@, id)])

\* The walk drops what succeeded and keeps the rest.
SettleVisited ==
    LET id == Head(Top.walk)
    IN  stack' = Replace([Top EXCEPT !.walk = Tail(@),
                                     !.kept = IF ctl = "true" THEN @ ELSE Append(@, id)])

Settle ==
    /\ Returned("step")
    /\ SettleVisited
    /\ ts' = IF ctl = "true" THEN MarkAsResolved(ts, Head(Top.walk)) ELSE ts
    /\ ctl' = "run"
    /\ UNCHANGED <<origin, may_postpone>>

\* What the walk solved, against the list it took.
Progress == Top.size # Len(Top.kept)

\* Mutation: what was kept goes in front of what the walk registered.
MergeKeptFirst == Reverse(Top.kept) \o ts.pending

\* New mvars first, then the kept ones, most recent first again.
Merged == ts.pending \o Reverse(Top.kept)

EndStep ==
    /\ Running("step")
    /\ Top.walk = <<>>
    /\ ts' = [ts EXCEPT !.pending = Merged]
    /\ ctl' = Bool(Progress)
    /\ may_postpone' = Top.prev
    /\ stack' = Tail(stack)
    /\ UNCHANGED origin

\* resume_postponed catches Postpone, and an error when it is to be postponed.
CaughtByResume ==
    \/ ctl = "postpone"
    \/ ctl \in OracleErrors /\ Top.on_error

GiveUpResume ==
    /\ stack # <<>>
    /\ Top.f = "resume"
    /\ CaughtByResume
    /\ ts' = RestoreTermState(Top.saved)
    /\ ctl' = "false"
    /\ stack' = Tail(stack)
    /\ UNCHANGED <<origin, may_postpone>>

------------------------------------------------------------------------------
(* The ladder.  A rung that makes progress starts over; Top.rung is the last one tried.
   Rung 3 is synthesize_using_default, the others are steps. *)

\* Mutation: the default instances come before the pass without postponing.
RungAfterDefaultsEarly(rung) == IF rung = 0 THEN 1 ELSE <<3, 4, 2, 5, 6>>[rung]

RungAfter(rung) == rung + 1

BeginLadder ==
    /\ Running("ladder")
    /\ IF ts.pending = <<>>
       THEN stack' = Tail(stack) /\ UNCHANGED <<ts, origin, may_postpone, ctl>>
       ELSE BeginStep(1)

RungProgressed ==
    /\ Returned("ladder")
    /\ ctl = "true"
    /\ ctl' = "run"
    /\ UNCHANGED <<ts, origin, may_postpone, stack>>

Stuck == /\ Returned("ladder")
         /\ ctl = "false"

AtDefaults == /\ Stuck
              /\ Top.postpone # "Yes"
              /\ RungAfter(Top.rung) = 3

AtReport == /\ Stuck
            /\ Top.postpone = "No"
            /\ Top.rung = 5

NextRung ==
    /\ Stuck
    /\ Top.postpone # "Yes"
    /\ RungAfter(Top.rung) \in {2, 4, 5}
    /\ BeginStep(RungAfter(Top.rung))

UseDefault ==
    /\ AtDefaults
    /\ IF UsableDefaults(ts) # {}
       THEN SynthesizeUsingDefault /\ ctl' = "true"
       ELSE UNCHANGED <<ts, ctl>>
    /\ stack' = Replace([Top EXCEPT !.rung = 3])
    /\ UNCHANGED <<origin, may_postpone>>

\* Yes and Partial leave the rest to the caller.
LeavePending ==
    /\ Stuck
    /\ \/ Top.postpone = "Yes"
       \/ Top.postpone = "Partial" /\ Top.rung = 5
    /\ stack' = Tail(stack)
    /\ ctl' = "run"
    /\ UNCHANGED <<ts, origin, may_postpone>>

\* report_stuck_synthetic_mvars: the list is drained and its first problem thrown, one
\* that is not an instance if there is one; a tactic or a postponed term is a seam.
Problems == {i \in DOMAIN ts.pending : ts.pending[i] \in DOMAIN ts.decls}

StuckKind ==
    LET others == {i \in Problems : ~IsTypeClass(ts, ts.pending[i])}
    IN  IF others = {} THEN "typeClass" ELSE ts.decls[ts.pending[Min(others)]].kind

ReportStuck ==
    /\ AtReport
    /\ ts' = [ts EXCEPT !.pending = <<>>]
    /\ IF Problems = {}
       THEN stack' = Tail(stack) /\ ctl' = "run"
       ELSE Throw(IF StuckKind \in {"typeClass", "coe"} THEN "error" ELSE "seam")
    /\ UNCHANGED <<origin, may_postpone>>

\* synthesize_using_default_loop.
LoopDefault ==
    /\ Running("loop")
    /\ UsableDefaults(ts) # {}
    /\ SynthesizeUsingDefault
    /\ stack' = <<Ladder("Yes")>> \o stack
    /\ UNCHANGED <<origin, may_postpone, ctl>>

EndLoop ==
    /\ Running("loop")
    /\ UsableDefaults(ts) = {}
    /\ stack' = Tail(stack)
    /\ UNCHANGED <<ts, origin, may_postpone, ctl>>

\* Mutation: the caller's list replaces what is left.
PutBackOnly(saved) == [ts EXCEPT !.pending = saved]

\* What is left is newer than what the caller had.
PutBack(saved) == [ts EXCEPT !.pending = @ \o saved]

EndWith ==
    /\ Running("with")
    /\ ts' = PutBack(Top.saved)
    /\ stack' = Tail(stack)
    /\ UNCHANGED <<origin, may_postpone, ctl>>

\* A throw leaves the frames that do not catch it; a step puts the flag back but drops its
\* lists, with_synthesize puts the caller's list back.
Unwind ==
    /\ stack # <<>>
    /\ ctl \in Thrown
    /\ ~(Top.f = "elab" /\ ctl = "postpone")
    /\ ~(Top.f = "resume" /\ CaughtByResume)
    /\ ts' = IF Top.f = "with" THEN PutBack(Top.saved) ELSE ts
    /\ may_postpone' = IF Top.f = "step" THEN Top.prev ELSE may_postpone
    /\ stack' = Tail(stack)
    /\ UNCHANGED <<origin, ctl>>

Next ==
    \/ Expect \/ Demand \/ Unify \/ NewInst \/ NewCoe \/ NewTactic
    \/ Enter \/ EnterWith \/ Drain \/ Elaborated \/ Resumed \/ Postpone
    \/ Visit \/ Settle \/ EndStep \/ GiveUpResume
    \/ BeginLadder \/ RungProgressed \/ NextRung \/ UseDefault \/ LeavePending \/ ReportStuck
    \/ LoopDefault \/ EndLoop \/ EndWith \/ Unwind

Spec == Init /\ [][Next]_vars /\ WF_vars(Next)

------------------------------------------------------------------------------
(* Properties. *)

\* What a frame holds back of the pending list, most recent first.
HeldBack(fr) == CASE fr.f = "step" -> Reverse(fr.kept \o fr.walk)
                  [] fr.f = "with" -> fr.saved
                  [] OTHER -> <<>>

\* The pending list and what the calls in progress hold back, innermost first.
ListAt(i) == IF i = 0 THEN ts.pending ELSE HeldBack(stack[i])
Lists == 0..Len(stack)

Outstanding == UNION {ToSet(ListAt(i)) : i \in Lists}

Decreasing(s) == \A i, j \in DOMAIN s : i < j => s[i] > s[j]
Newer(S, T) == \A id \in S : \A other \in T : id > other

\* Every ordering of the scheduler rests on the pending list having its most recent mvar
\* first (state.rs:186), and the lists a step or a with_synthesize holds back are older
\* than what was registered since: together they strictly decrease, so that no mvar is
\* queued twice either.
NewestFirst ==
    /\ \A i \in Lists : Decreasing(ListAt(i))
    /\ \A i, j \in Lists : i < j => Newer(ToSet(ListAt(i)), ToSet(ListAt(j)))

\* No registered mvar is lost: unless a throw is on its way out, each one that is declared
\* is solved or in one of the lists, and when the elaboration returns they are all solved.
NothingForgotten ==
    /\ (ctl \notin Thrown => DOMAIN ts.decls \subseteq ts.solved \cup Outstanding)
    /\ (stack = <<>> /\ ctl = "run" => ts.pending = <<>> /\ DOMAIN ts.decls \subseteq ts.solved)

\* An attempt that was rolled back leaves nothing behind that a later attempt repeats:
\* two live mvars never stem from the same place of the program.
OneMVarPerPlace ==
    \A id, other \in DOMAIN ts.decls \cup ts.solved :
        origin[id] = origin[other] => id = other

\* The elaborator of the term finds a type it waits for unknown.
Waiting(term) ==
    \E i \in DOMAIN term.code : term.code[i].op = "expect" /\ ts.types[term.code[i].mv] = Open

\* An elaborator that only waits and unifies succeeds once it may not postpone.
SucceedsIfForced(term) ==
    \A i \in DOMAIN term.code :
        \/ term.code[i].op = "expect"
        \/ term.code[i].op = "unify" /\ Unifies(ts, term.code[i].mv, term.code[i].val)

\* When a default instance is used, what is pending could not have been solved without:
\* instances are undetermined and postponed terms wait for a type (rung 1), and in the
\* ladder the terms that only wait have been forced already (rung 2).
DefaultsComeLast ==
    /\ AtDefaults \/ Running("loop")
    /\ UsableDefaults(ts) # {}
    => \A id \in ToSet(ts.pending) :
          LET d == ts.decls[id]
          IN  /\ d.kind = "typeClass" => SynthesizeInstMVarCore(ts, id, d.goal).ctl = "false"
              /\ d.kind = "postponed" => /\ Waiting(d.term)
                                         /\ AtDefaults => ~SucceedsIfForced(d.term)

\* What is reported as stuck is stuck: no instance is determined, no default instance
\* applies, and neither a postponed term nor a tactic gets this far (report.rs:122, 136).
StuckIsStuck ==
    AtReport =>
        /\ UsableDefaults(ts) = {}
        /\ \A id \in ToSet(ts.pending) :
              LET d == ts.decls[id]
              IN  /\ d.kind \in {"typeClass", "coe"}
                  /\ d.kind = "typeClass" => SynthesizeInstMVarCore(ts, id, d.goal).ctl = "false"

\* The ladder and the default loop come to an end.
ElaborationEnds == <>(stack = <<>>)

\* "if EITHER side still mentions a pending mvar, the mismatch is not yet grounded: return
\* false and retry later rather than throwing" (ladder.rs:224).
MismatchesAreGrounded ==
    ctl = "mismatch" /\ stack # <<>> /\ Top.f = "step"
        => GoalAt(ts, ts.decls[Head(Top.walk)].goal.via) \cap Outstanding = {}
==============================================================================
