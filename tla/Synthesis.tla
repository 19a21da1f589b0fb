------------------------------ MODULE Synthesis ------------------------------
(***************************************************************************)
(* Tabled resolution of type-class instances                               *)
(* (src/crates/leanr_meta/src/synth.rs): the search behind synth_instance. *)
(*                                                                         *)
(* A goal is a class applied to arguments and an instance is a clause      *)
(* that proves its head from its premises.  The search keeps a table with  *)
(* one entry per goal up to renaming: the answers found and the consumers  *)
(* that wait for more.  A generator tries the instances of one entry, a    *)
(* consumer is an instance whose premises are partly answered.             *)
(*                                                                         *)
(* Expressions are abstracted to what unification tells apart: a term is   *)
(* a constant, a metavariable of the caller (read-only during the search)  *)
(* or a metavariable of the search itself.  A metavariable context         *)
(* (MetaSnapshot) becomes the substitution applied to its node.            *)
(***************************************************************************)
EXTENDS Naturals, FiniteSets, Sequences, SequencesExt

CONSTANTS
    Databases,      \* the instance tables searched: sequences of clauses, in the order tried
    Goals,          \* the goals asked for: [cls, args], the caller's terms
    OutParam,       \* class -> its output parameter positions
    Ground,         \* the terms the reference ranges over: constants, the caller's mvars, Inst
    MaxResultSize   \* MAX_RESULT_SIZE, 128 in the code

VARIABLES
    db,             \* the instance table of this search
    meaning,        \* history: the least model of db, what its instances prove
    goal,           \* the goal given to try_synth_instance
    st,             \* the SynthState
    verdict         \* what try_synth_instance returned, [kind |-> "search"] before

vars == <<db, meaning, goal, st, verdict>>

------------------------------------------------------------------------------
(* Terms, substitutions and unification. *)

Con(x)    == <<"con", x>>
Caller(x) == <<"caller", x>>     \* an unassigned mvar of an outer depth
Var(n)    == <<"var", n>>        \* an mvar of the search's own depth
Inst      == Con("inst")         \* the value of an instance the search has synthesized

IsVar(t)  == t[1] = "var"
IsMVar(t) == t[1] \in {"var", "caller"}

VarsOf(ts) == {t \in ToSet(ts) : IsVar(t)}

\* A substitution is a function from some metavariables to terms.
Apply(s, t)     == IF t \in DOMAIN s THEN s[t] ELSE t
ApplyAll(s, ts) == [i \in DOMAIN ts |-> Apply(s, ts[i])]
Shift(n, ts)    == [i \in DOMAIN ts |-> IF IsVar(ts[i]) THEN Var(ts[i][2] + n) ELSE ts[i]]

\* Metavariables renamed by first occurrence: KeyNormalizer's _tc.n, abstract_mvars' binders.
Canonical(ts) ==
    LET first   == {i \in DOMAIN ts : IsVar(ts[i]) /\ \A j \in 1..(i - 1) : ts[j] # ts[i]}
        Rank(t) == Cardinality({j \in first : \A i \in first : ts[i] = t => j <= i})
    IN  ApplyAll([v \in VarsOf(ts) |-> Var(Rank(v))], ts)

\* Mutation: a read-only metavariable is just a mismatch (is_def_eq_stuck_ex unset).
UnifyNeverStuck(own, ts, us) ==
    LET pairs == {i \in DOMAIN ts : ts[i] # us[i]}
    IN  IF \E i \in pairs : ts[i][1] # own /\ us[i][1] # own
        THEN [res |-> "fail", sub |-> <<>>]
        ELSE [res |-> "ok", sub |-> [v \in {ts[i] : i \in {j \in pairs : ts[j][1] = own}}
                                            \cup {us[i] : i \in {j \in pairs : ts[j][1] # own}} |->
                                        LET i == CHOOSE j \in pairs : v \in {ts[j], us[j]}
                                        IN  IF ts[i] = v THEN us[i] ELSE ts[i]]]

\* The assignment of the unassigned v, in what is assigned already too.
Bind(s, v, t) == [w \in DOMAIN s \cup {v} |-> IF w = v \/ s[w] = v THEN t ELSE s[w]]

\* is_def_eq of two terms after u, where only mvars tagged `own` may be assigned: "ok",
\* "fail", or "stuck" (MetaError::IsDefEqStuck) when a read-only mvar meets another term.
UnifyTerms(own, u, l, r) ==
    LET t == Apply(u.sub, l)
        v == Apply(u.sub, r)
    IN  IF u.res # "ok" \/ t = v THEN u
        ELSE IF t[1] = own THEN [u EXCEPT !.sub = Bind(@, t, v)]
        ELSE IF v[1] = own THEN [u EXCEPT !.sub = Bind(@, v, t)]
        ELSE [u EXCEPT !.res = IF IsMVar(t) \/ IsMVar(v) THEN "stuck" ELSE "fail"]

\* is_def_eq of two argument lists, left to right.
Unify(own, ts, us) ==
    LET u[i \in 0 .. Len(ts)] == IF i = 0 THEN [res |-> "ok", sub |-> <<>>]
                                 ELSE UnifyTerms(own, u[i - 1], ts[i], us[i])
    IN  u[Len(ts)]

------------------------------------------------------------------------------
(* SynthState and its operations.  A table key is [cls, args] with canonical
   metavariables.  A waiter is an index into the consumers, 0 for Waiter::Root. *)

Root == 0

GoalKey(cls, args) == [cls |-> cls, args |-> Canonical(args)]

\* get_instances: the clauses the discrimination tree does not rule out.  A metavariable,
\* the caller's too, matches every argument.
Matching(clauses, key) ==
    LET Fits(c) == /\ c.head.cls = key.cls
                   /\ \A i \in DOMAIN key.args :
                        \/ IsMVar(key.args[i]) \/ IsMVar(c.head.args[i])
                        \/ key.args[i] = c.head.args[i]
        fit[i \in 0 .. Len(clauses)] ==
            IF i = 0 THEN <<>>
            ELSE IF Fits(clauses[i]) THEN Append(fit[i - 1], clauses[i]) ELSE fit[i - 1]
    IN  fit[Len(clauses)]

GetInstances(key) == Matching(db, key)

\* new_subgoal: a goal without candidates gets neither a generator nor an entry.
NewSubgoal(s, key, waiter) ==
    LET candidates == GetInstances(key)
    IN  IF candidates = <<>> THEN s
        ELSE [s EXCEPT !.generators = Append(@, [key |-> key, remaining |-> candidates]),
                       !.answers = [k \in DOMAIN @ \cup {key} |->
                                       IF k = key THEN [answers |-> <<>>, waiters |-> <<waiter>>]
                                       ELSE @[k]]]

\* mk_answer: the proved type with its open metavariables abstracted.
MkAnswer(c) == [args |-> Canonical(c.target),
                open |-> Cardinality(VarsOf(c.vals)),
                size |-> c.size + 1,
                inst |-> c.inst]

\* Mutation: one answer per goal is enough.
IsFirstAnswer(entry, a) == entry.answers = <<>>

\* SynthState::add_answer deduplicates by type and returns the waiters to wake.
IsNewAnswer(entry, a) ==
    \A i \in DOMAIN entry.answers : <<entry.answers[i].args, entry.answers[i].open>> # <<a.args, a.open>>

\* wake_up of every waiter: a consumer is resumed with the answer, the root, which waits
\* once, takes closed answers only.
WakeUp(s, a, waiters) ==
    LET woken == RemoveFirst(waiters, Root)
    IN  [s EXCEPT !.resume_stack = @ \o [i \in DOMAIN woken |-> [idx |-> woken[i], answer |-> a]],
                  !.result = IF Root \in ToSet(waiters) /\ a.open = 0 THEN <<a>> ELSE @]

AddAnswer(s, c) ==
    LET a     == MkAnswer(c)
        entry == s.answers[c.key]
    IN  IF c.size >= MaxResultSize THEN [s EXCEPT !.dropped = TRUE]
        ELSE IF ~IsNewAnswer(entry, a) THEN s
        ELSE WakeUp([s EXCEPT !.answers[c.key].answers = Append(@, a)], a, entry.waiters)

\* Mutation: an entry that has answers replays them and is not waited for.
ReplayOrWait(s, key, idx) ==
    LET known == s.answers[key].answers
    IN  IF known = <<>> THEN [s EXCEPT !.answers[key].waiters = Append(@, idx)]
        ELSE [s EXCEPT !.resume_stack =
                 @ \o [i \in DOMAIN known |-> [idx |-> idx, answer |-> known[i]]]]

\* consume's branch for a known goal: replay the answers it has, wait for more.
AddWaiter(s, key, idx) ==
    LET known == s.answers[key].answers
    IN  [s EXCEPT !.answers[key].waiters = Append(@, idx),
                  !.resume_stack = @ \o [i \in DOMAIN known |-> [idx |-> idx, answer |-> known[i]]]]

\* consume: skip the premises unification has assigned; an instance without open
\* premises is an answer, another one is stored and waits at its first open premise.
Consume(s, c) ==
    LET open == {i \in c.next..Len(c.subgoals) : IsVar(c.subgoals[i].ev)}
    IN  IF open = {} THEN AddAnswer(s, c)
        ELSE LET next == CHOOSE i \in open : \A j \in open : i <= j
                 key  == GoalKey(c.subgoals[next].cls, c.subgoals[next].args)
                 s1   == [s EXCEPT !.consumers = Append(@, [c EXCEPT !.next = next])]
                 idx  == Len(s1.consumers)
             IN  IF key \in DOMAIN s1.answers THEN AddWaiter(s1, key, idx)
                 ELSE NewSubgoal(s1, key, idx)

\* The node c after an assignment of its metavariables.
Instantiate(sub, c) ==
    LET Premise(p) == [p EXCEPT !.args = ApplyAll(sub, @), !.ev = Apply(sub, @)]
    IN  [c EXCEPT !.target = ApplyAll(sub, @), !.vals = ApplyAll(sub, @),
                  !.subgoals = [i \in DOMAIN @ |-> Premise(@[i])]]

\* try_resolve: the instance's binders become fresh metavariables (get_subgoals), numbered
\* from after the goal's, and its head is unified with the goal.
TryResolve(key, c) ==
    LET n    == Len(key.args)
        node == [key |-> key, target |-> key.args, inst |-> c.name, next |-> 1, size |-> 0,
                 fresh |-> n + c.nvars,
                 vals |-> [i \in 1..c.nvars |-> Var(n + i)],
                 subgoals |-> [i \in DOMAIN c.prems |->
                                 [c.prems[i] EXCEPT !.args = Shift(n, @), !.ev = Var(@[2] + n)]]]
        u    == Unify("var", key.args, Shift(n, c.head.args))
    IN  [res |-> u.res, node |-> Instantiate(u.sub, node)]

\* Mutation: the next premise is asked in the context from before the answer.
TryAnswerStale(c, a) ==
    [res  |-> Unify("var", c.subgoals[c.next].args, Shift(c.fresh, a.args)).res,
     node |-> [c EXCEPT !.next = @ + 1, !.size = @ + a.size,
                        !.vals = ApplyAll([v \in VarsOf(c.vals) |-> Inst], @)]]

\* try_answer: the answer, its binders opened to fresh metavariables, solves the premise
\* the consumer waits at.
TryAnswer(c, a) ==
    LET p    == c.subgoals[c.next]
        u    == Unify("var", p.args, Shift(c.fresh, a.args))
        node == [c EXCEPT !.next = @ + 1, !.size = @ + a.size, !.fresh = @ + a.open,
                          !.vals = @ \o [i \in 1..a.open |-> Var(c.fresh + i)]]
    IN  [res |-> u.res, node |-> Instantiate(Bind(u.sub, p.ev, Inst), node)]

\* with_new_mctx_depth rolls the search's assignments back, so the caller sees only
\* apply_abstract_result: assign_out_params unifies its goal with the answer's type.
Verdict(s) ==
    IF s.result = <<>> THEN [kind |-> "none", args |-> <<>>]
    ELSE LET u == Unify("caller", goal.args, s.result[1].args)
         IN  IF u.res = "ok" THEN [kind |-> "some", args |-> ApplyAll(u.sub, goal.args)]
             ELSE [kind |-> "none", args |-> <<>>]

\* preprocess_out_param: the caller's output arguments become fresh metavariables.
SearchGoal(g) == GoalKey(g.cls, [i \in DOMAIN g.args |-> IF i \in OutParam[g.cls] THEN Var(i)
                                                          ELSE g.args[i]])

------------------------------------------------------------------------------
(* Reference: the least model of the instances.  The caller's metavariables are rigid
   during the search, so they count as constants. *)

AtomOf(p, sub) == [cls |-> p.cls, args |-> ApplyAll(sub, p.args)]

\* The ground instances of clause c.  The instance argument of a premise was synthesized,
\* unless the head names it: then the goal may give it, and the premise with it.
GroundClauses(c) ==
    LET inHead == VarsOf(c.head.args)
        named  == inHead \cup UNION {VarsOf(c.prems[i].args) : i \in DOMAIN c.prems}
        Synthesized(sub, i) == Apply(sub, c.prems[i].ev) \in {c.prems[i].ev, Inst}
    IN  {[head  |-> AtomOf(c.head, sub),
          prems |-> {AtomOf(c.prems[i], sub) : i \in {j \in DOMAIN c.prems : Synthesized(sub, j)}}] :
            sub \in {f \in [named -> Ground] :
                       \A i \in DOMAIN c.prems : c.prems[i].ev \in inHead \/ Synthesized(f, i)}}

Rules(d) == UNION {GroundClauses(c) : c \in ToSet(d)}

\* The least set of atoms closed under the rules.
LeastModel(rules) ==
    LET closure[m \in SUBSET {r.head : r \in rules}] ==
            LET more == m \cup {r.head : r \in {q \in rules : q.prems \subseteq m}}
            IN  IF more = m THEN m ELSE closure[more]
    IN  closure[{}]

\* The ground instances of an atom of the search.
GroundInstances(cls, args) ==
    {[cls |-> cls, args |-> ApplyAll(sub, args)] : sub \in [VarsOf(args) -> Ground]}

------------------------------------------------------------------------------
(* try_synth_instance: seed the root, then one synth_step after the other. *)

Searching == verdict.kind = "search"

Init ==
    /\ db \in Databases
    /\ meaning = LeastModel(Rules(db))
    /\ goal \in Goals
    /\ st = NewSubgoal([answers |-> <<>>, generators |-> <<>>, consumers |-> <<>>,
                        resume_stack |-> <<>>, result |-> <<>>, resumed |-> {}, dropped |-> FALSE],
                       SearchGoal(goal), Root)
    /\ verdict = [kind |-> "search", args |-> <<>>]

\* What became of a unification: the node goes on, the candidate is given up, or the
\* error ends the search.
Outcome(r, s) ==
    \/ r.res = "ok"    /\ st' = Consume(s, r.node) /\ UNCHANGED verdict
    \/ r.res = "fail"  /\ st' = s /\ UNCHANGED verdict
    \/ r.res = "stuck" /\ st' = s /\ verdict' = [kind |-> "undef", args |-> <<>>]

\* synth_step prefers resumption: a pending answer goes to a copy of its consumer.
Resume ==
    /\ Searching /\ st.result = <<>> /\ st.resume_stack # <<>>
    /\ LET top == Last(st.resume_stack)
       IN  Outcome(TryAnswer(st.consumers[top.idx], top.answer),
                   [st EXCEPT !.resume_stack = Front(@), !.resumed = @ \cup {top}])
    /\ UNCHANGED <<db, meaning, goal>>

\* A ground goal with a closed answer needs no other (canonical instances).
Answered(key) ==
    /\ \A i \in DOMAIN key.args : ~IsMVar(key.args[i])
    /\ \E i \in DOMAIN st.answers[key].answers : st.answers[key].answers[i].open = 0

\* Mutation: the instances are tried from the other end.
GenerateBackwards ==
    /\ Searching /\ st.result = <<>> /\ st.resume_stack = <<>> /\ st.generators # <<>>
    /\ LET top == Last(st.generators)
           n   == Len(st.generators)
       IN  IF top.remaining = <<>> \/ Answered(top.key)
           THEN st' = [st EXCEPT !.generators = Front(@)] /\ UNCHANGED verdict
           ELSE Outcome(TryResolve(top.key, Last(top.remaining)),
                        [st EXCEPT !.generators[n].remaining = Front(@)])
    /\ UNCHANGED <<db, meaning, goal>>

\* generate, on the most recent generator: retire it, or try its next instance.
Generate ==
    /\ Searching /\ st.result = <<>> /\ st.resume_stack = <<>> /\ st.generators # <<>>
    /\ LET top == Last(st.generators)
           n   == Len(st.generators)
       IN  IF top.remaining = <<>> \/ Answered(top.key)
           THEN st' = [st EXCEPT !.generators = Front(@)] /\ UNCHANGED verdict
           ELSE Outcome(TryResolve(top.key, Head(top.remaining)),
                        [st EXCEPT !.generators[n].remaining = Tail(@)])
    /\ UNCHANGED <<db, meaning, goal>>

Exhausted == st.resume_stack = <<>> /\ st.generators = <<>>

Return ==
    /\ Searching /\ (st.result # <<>> \/ Exhausted)
    /\ verdict' = Verdict(st)
    /\ UNCHANGED <<db, meaning, goal, st>>

Next == Resume \/ Generate \/ Return

Spec == Init /\ [][Next]_vars

------------------------------------------------------------------------------
(* Properties. *)

CallersIn(cls, args) == {t \in ToSet(args) : t[1] = "caller"}

\* The root's entry: its answers, if it has one.
RootAnswers == LET key == SearchGoal(goal)
               IN  IF key \in DOMAIN st.answers THEN st.answers[key].answers ELSE <<>>

\* Every answer in the table follows from the instances: each of its ground instances is
\* in the least model.  (A consumer keeps its own metavariable context: resuming a stale
\* one, or one shared between branches, mixes assignments of different branches.)
AnswersAreSound ==
    \A k \in DOMAIN st.answers : \A a \in ToSet(st.answers[k].answers) :
        GroundInstances(k.cls, a.args) \subseteq meaning

\* When the search runs out of steps, every goal it tabled, or asked for and refused to
\* table, has every answer the instances give it: none is lost between a waiter and an
\* answer that arrives before, after, or because of it, even when goals depend on each
\* other in a cycle.
TablesAreComplete ==
    (Searching /\ Exhausted /\ ~st.dropped /\ st.result = <<>>) =>
        /\ \A k \in DOMAIN st.answers :
             \/ Answered(k)
             \/ GroundInstances(k.cls, k.args) \cap meaning
                  \subseteq UNION {GroundInstances(k.cls, a.args) : a \in ToSet(st.answers[k].answers)}
        /\ \A c \in ToSet(st.consumers) :
             LET p == c.subgoals[c.next]
                 k == GoalKey(p.cls, p.args)
             IN  k \notin DOMAIN st.answers => GroundInstances(k.cls, k.args) \cap meaning = {}

\* A "none" that no answer was rejected for is final: whatever the caller assigns to its
\* metavariables later, the goal has no instance.  The elaborator reports the failure at
\* once and retries only an "undef" (synth.rs:1643).
NoneIsFinal ==
    (verdict.kind = "none" /\ RootAnswers = <<>> /\ ~st.dropped) =>
        \A sub \in [CallersIn(goal.cls, goal.args) -> Ground] :
            GroundInstances(goal.cls, ApplyAll(sub, SearchGoal(goal).args)) \cap meaning = {}

\* The instance tried first wins: the answer does not come from a later candidate when an
\* earlier one applies without using the goal itself (instances.rs:151, priorities).
EarliestCandidateWins ==
    LET root       == SearchGoal(goal)
        targets    == GroundInstances(root.cls, root.args)
        candidates == GetInstances(root)
        rules      == Rules(db)
        elsewhere  == LeastModel({r \in rules : r.head \notin targets})
        Usable(c)  == \E r \in GroundClauses(c) : r.head \in targets /\ r.prems \subseteq elsewhere
        closed     == \A k \in DOMAIN st.answers : \A a \in ToSet(st.answers[k].answers) : a.open = 0
    IN  (verdict.kind = "some" /\ closed /\ ~st.dropped) =>
            \E i \in DOMAIN candidates :
                /\ candidates[i].name = st.result[1].inst
                /\ \A j \in 1..(i - 1) : ~Usable(candidates[j])

\* The goal a stored consumer waits for.
WaitsAt(c) == LET p == c.subgoals[c.next] IN GoalKey(p.cls, p.args)

\* Every answer so far of a goal, for every consumer that waits for it.
Due ==
    LET Answers(i) == ToSet(st.answers[WaitsAt(st.consumers[i])].answers)
        Waiting == {i \in DOMAIN st.consumers : WaitsAt(st.consumers[i]) \in DOMAIN st.answers}
    IN  UNION {{[idx |-> i, answer |-> a] : a \in Answers(i)} : i \in Waiting}

\* Every answer of a goal reaches every consumer that waits for it exactly once, whether
\* it was found before the consumer asked or after: it is pending or was resumed.  No copy
\* of a consumer is lost, none is resumed twice with one answer, so a search over finitely
\* many goals ends.
EachAnswerReachesEachWaiterOnce ==
    /\ IsInjective(st.resume_stack)
    /\ st.resumed \cap ToSet(st.resume_stack) = {}
    /\ st.resumed \cup ToSet(st.resume_stack) = Due
==============================================================================
