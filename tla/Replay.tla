------------------------------- MODULE Replay -------------------------------
(***************************************************************************)
(* replay of leanr_kernel (crates/leanr_kernel/src/replay.rs): the         *)
(* sequential check.  It visits the decoded constants depth first, sends   *)
(* each declaration to the kernel once everything it uses has been sent,   *)
(* and compares the decoded constructors and recursors at the end with     *)
(* those the kernel regenerated.                                           *)
(*                                                                         *)
(* The call stack of replay_constant is the variable `stack', its running  *)
(* call first.  The outer loop runs over a HashSet and the dependencies    *)
(* come in the order a term mentions them, so the next name is any that    *)
(* is left; a name that is not left makes the call return at once, and is  *)
(* passed over here.                                                       *)
(*                                                                         *)
(* The environment starts empty (a fresh check), and the constants that    *)
(* are unsafe or partial have been left out of the table.                  *)
(***************************************************************************)
EXTENDS CheckGraph

CONSTANT Tables       \* the tables of decoded constants a run may be given

VARIABLES
    decoded,      \* the table, fixed
    remaining,    \* Replayer.remaining: names no call has taken up
    opened,       \* Replayer.pending: names taken up and not yet settled
    constants,    \* Replayer.constants: names whose decoded copy is kept
    env,          \* names the environment declares
    postponed,    \* postponed_constructors and postponed_recursors
    stack,        \* the calls under way: a name and where its call is
    sent,         \* Replayer.checked: add_decl calls that succeeded
    replayed      \* "running", or what replay returned: "ok", "failed"

replayVars == <<decoded, remaining, opened, constants, env, postponed, stack,
                sent, replayed>>

ReplayInit ==
    /\ decoded \in Tables
    /\ remaining = DOMAIN decoded
    /\ opened = {}
    /\ constants = DOMAIN decoded
    /\ env = {}
    /\ postponed = {}
    /\ stack = << >>
    /\ sent = 0
    /\ replayed = "running"

-----------------------------------------------------------------------------
Frame(n, stage) == [name |-> n, stage |-> stage]

Current == Head(stack).name

Members(n) == ToSet(decoded[n].all)

CtorsOfBlock(n) == ToSet(CtorsOf(decoded, decoded[n].all))

\* replay_inductive visits what the constructors of the block use, because
\* a constructor whose own call led here has not visited it yet.
\* Mutation: the dependencies of the inductive type are thought enough.
BlockNeedsNothing(n) == {}

BlockNeeds(n) == UNION {UsedConstants(decoded, c) : c \in CtorsOfBlock(n)}

\* What the running call visits before it goes on.
Awaited(f) ==
    CASE f.stage = "deps"  -> UsedConstants(decoded, f.name)
      [] f.stage = "block" -> BlockNeeds(f.name)
      [] f.stage = "quot"  -> {EqName}

\* replay returns: the Replayer is dropped.
Return(verdict, count) ==
    /\ replayed' = verdict
    /\ sent' = count
    /\ remaining' = {} /\ opened' = {} /\ constants' = {}
    /\ env' = {} /\ postponed' = {} /\ stack' = << >>
    /\ UNCHANGED decoded

GiveUp == Return("failed", 0)

\* is_todo holds of n and its call begins.
Enter(n) ==
    /\ n \in remaining
    /\ remaining' = remaining \ {n}
    /\ opened' = opened \cup {n}
    /\ stack' = <<Frame(n, "deps")>> \o stack
    /\ UNCHANGED <<decoded, constants, env, postponed, sent, replayed>>

\* The outer loop reaches n.
VisitNext(n) ==
    /\ replayed = "running" /\ stack = << >>
    /\ Enter(n)

\* The running call visits a dependency.
VisitDependency(n) ==
    /\ stack # << >>
    /\ n \in Awaited(Head(stack))
    /\ Enter(n)

\* The running call has visited everything it waits for at this stage.
At(stage) ==
    /\ stack # << >>
    /\ Head(stack).stage = stage
    /\ Awaited(Head(stack)) \cap remaining = {}

\* Its own constant is still to be dealt with, and is of one of these kinds.
Handles(kinds) ==
    /\ At("deps")
    /\ Current \in opened
    /\ decoded[Current].kind \in kinds

Advance(stage) == stack' = <<Frame(Current, stage)>> \o Tail(stack)

\* A mutual block has dealt with the name meanwhile.
PassOver ==
    /\ At("deps")
    /\ Current \notin opened
    /\ stack' = Tail(stack)
    /\ UNCHANGED <<decoded, remaining, opened, constants, env, postponed, sent, replayed>>

-----------------------------------------------------------------------------
\* add_decl: every constant the check looks up is declared, none it
\* declares is, and the kernel has no objection.
Accepts(t, declares) ==
    /\ \A n \in CheckedNames(decoded, t) : n \in DOMAIN decoded /\ decoded[n].good
    /\ Lookups(decoded, t) \subseteq env
    /\ declares \cap env = {}

\* The declaration is in the environment, and its decoded copies go.
Admitted(declares, released) ==
    /\ env' = env \cup declares
    /\ sent' = sent + 1
    /\ opened' = opened \ {Current}
    /\ constants' = constants \ released
    /\ stack' = Tail(stack)
    /\ UNCHANGED <<decoded, remaining, postponed, replayed>>

AdmitSimple ==
    /\ Handles({"simple"})
    /\ LET t == [kind |-> "simple", members |-> <<Current>>] IN
       IF Accepts(t, {Current}) THEN Admitted({Current}, {Current}) ELSE GiveUp

\* build_inductive_types succeeds and the members are taken off the lists.
OpenBlock ==
    /\ Handles({"induct"})
    /\ IF /\ Members(Current) \subseteq constants
          /\ \A m \in Members(Current) : decoded[m].kind = "induct"
          /\ CtorsOfBlock(Current) \subseteq constants
       THEN /\ remaining' = remaining \ Members(Current)
            /\ opened' = opened \ Members(Current)
            /\ Advance("block")
            /\ UNCHANGED <<decoded, constants, env, postponed, sent, replayed>>
       ELSE GiveUp

\* The kernel checks the block and regenerates its constructors and
\* recursors.
AdmitBlock ==
    /\ At("block")
    /\ LET t == [kind |-> "block", members |-> decoded[Current].all]
           declares == ToSet(Survivors(decoded, t))
       IN  IF Accepts(t, declares)
           THEN Admitted(declares, Members(Current) \cup {Current}) ELSE GiveUp

Postpone ==
    /\ Handles({"ctor", "rec"})
    /\ postponed' = postponed \cup {Current}
    /\ opened' = opened \ {Current}
    /\ stack' = Tail(stack)
    /\ UNCHANGED <<decoded, remaining, constants, env, sent, replayed>>

\* Eq is visited before the quotient declaration is sent.
OpenQuot ==
    /\ Handles({"quot"})
    /\ Advance("quot")
    /\ UNCHANGED <<decoded, remaining, opened, constants, env, postponed, sent, replayed>>

\* One add_decl per decoded quotient constant; the first declares all four
\* and the others find them there.
AdmitQuot ==
    /\ At("quot")
    /\ IF EqName \in env THEN Admitted(ToSet(QuotNames), {Current}) ELSE GiveUp

\* check_postponed_constructors and check_postponed_recursors.
Finish ==
    /\ replayed = "running" /\ stack = << >> /\ remaining = {}
    /\ IF \A n \in postponed : n \in env /\ n \in constants /\ decoded[n].twin
       THEN Return("ok", sent) ELSE GiveUp

ReplayNext ==
    \/ \E n \in remaining : VisitNext(n) \/ VisitDependency(n)
    \/ PassOver \/ AdmitSimple \/ OpenBlock \/ AdmitBlock
    \/ Postpone \/ OpenQuot \/ AdmitQuot \/ Finish

ReplaySpec == ReplayInit /\ [][ReplayNext]_replayVars

=============================================================================
