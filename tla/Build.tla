-------------------------------- MODULE Build --------------------------------
(***************************************************************************)
(* build_workspace (compile.rs): the workspace's modules as the items of   *)
(* the job pool, each brought into the layout by its job: from the store,  *)
(* from the remote, or by lean, which reads the layout in turn.            *)
(*                                                                         *)
(* What lean writes is the record of all it has read, so two outputs are   *)
(* equal exactly if nothing lean reads differs.  The store is at the level *)
(* of whole manifests, whose parts are the subject of ArtifactStore, and a *)
(* job is one step: the pool runs it when all that it reads is settled,    *)
(* and nobody reads what it writes before it has ended.  Earlier builds,   *)
(* killed ones too, are in what the layout and the store hold at first.    *)
(***************************************************************************)
EXTENDS Workspace, BuildPool

CONSTANTS Plans,         \* workspaces, options and what earlier builds have left
          RawGraphs,     \* graphs a caller without a workspace hands to the pool
          NoPlan,        \* there is no workspace
          NoArtifacts,   \* the module has no artifacts in a directory
          Partial,       \* some of its artifacts, or half-written ones
          Malformed      \* a manifest that does not list the module's artifacts

VARIABLES
    plan,        \* the plan this build follows, fixed
    modules,     \* ws.graph.modules by id, fixed
    fps,         \* their fingerprints, fixed before the first job
    layout,      \* artifacts by package and module name
    store,       \* manifests by fingerprint
    clean        \* history: what a build from nothing makes of each module

fixedVars == <<plan, modules, fps, clean>>
buildVars == <<fixedVars, layout, store>>

Caching == plan.mode # "uncached"
Looking == plan.mode = "cached"

-----------------------------------------------------------------------------
(* What lean reads and writes. *)

PathOf(m) == <<m.package, m.name>>

\* All modules that module i imports, directly or not.
Closure(ms, i) ==
    LET upTo[k \in 1 .. Cardinality(DOMAIN ms)] ==
            IF k = 1 THEN ms[i].deps
            ELSE LET some == upTo[k - 1] IN some \cup UNION {ms[j].deps : j \in some}
    IN  upTo[Cardinality(DOMAIN ms)]

\* What lean makes of module i when its imports are as given: the setup file tells it
\* the name, the package and the options, also that of the package.
LeanOutput(ws, ms, i, imports) ==
    [name      |-> ms[i].name,
     package   |-> ms[i].package,
     source    |-> ms[i].source,
     options   |-> ModuleOptions(ws, ms[i]),
     toolchain |-> ws.toolchain,
     inputs    |-> PackageOf(ws, ms[i]).inputs,
     imports   |-> {<<ms[t].name, imports[t]>> : t \in DOMAIN imports}]

\* What a build of the workspace from nothing makes of each module.
CleanOutputs(ws, ms) ==
    LET output[i \in DOMAIN ms] == LeanOutput(ws, ms, i, [t \in Closure(ms, i) |-> output[t]])
    IN  output

\* The first directory of LEAN_PATH that has a module of that name.
FoundIn(t) ==
    LET path == LeanPath(plan.ws)
        has == {p \in DOMAIN path : layout[<<path[p], modules[t].name>>] # NoArtifacts}
    IN  path[CHOOSE p \in has : \A q \in has : p <= q]

\* Direct imports are read where the setup file says, the others where
\* LEAN_PATH leads.
Loaded(i) ==
    [t \in Closure(modules, i) |->
        IF t \in modules[i].deps THEN layout[PathOf(modules[t])]
        ELSE layout[<<FoundIn(t), modules[t].name>>]]

\* The layout has a place for every module in every package.
ASSUME BuildAssumption ==
    /\ NoPlan \notin Plans
    /\ \A p \in Plans :
           /\ p.mode \in {"cached", "forced", "uncached"}
           /\ WellFormed(p.ws)
           /\ LET ms == ModuleGraph(p.ws)
              IN  \A i \in DOMAIN ms :
                     /\ CleanOutputs(p.ws, ms)[i] # NoArtifacts
                     /\ \A q \in DOMAIN p.ws.packages :
                            <<p.ws.packages[q].name, ms[i].name>> \in DOMAIN p.layout

-----------------------------------------------------------------------------
DepsOf(ms) == [size |-> Cardinality(DOMAIN ms), deps |-> [i \in DOMAIN ms |-> ms[i].deps]]

BuildInit ==
    /\ \/ /\ plan \in Plans
          /\ modules = ModuleGraph(plan.ws)
          /\ fps = Fingerprints(plan.ws, modules)
          /\ clean = CleanOutputs(plan.ws, modules)
          /\ layout = plan.layout /\ store = plan.store
       \/ /\ plan = NoPlan
          /\ modules = << >> /\ fps = << >> /\ clean = << >>
          /\ layout = << >> /\ store = << >>
    /\ Init
    /\ IF plan = NoPlan THEN graph \in RawGraphs ELSE graph = DepsOf(modules)

-----------------------------------------------------------------------------
(* The job of module i: how it ends, and what it leaves.                   *)

Leaves(i, artifacts) == layout' = [layout EXCEPT ![PathOf(modules[i])] = artifacts]

\* An insert, over whatever the store held.
Put(manifests, f, manifest) ==
    [g \in DOMAIN manifests \cup {f} |-> IF g = f THEN manifest ELSE manifests[g]]

\* What the store holds when the job knows whether it has a hit: a module it
\* lacks may have been fetched, unless the fetch failed.
StoresAfterFetch(i) ==
    IF Looking /\ fps[i] \notin DOMAIN store /\ fps[i] \in DOMAIN plan.remote
    THEN {store, Put(store, fps[i], plan.remote[fps[i]])}
    ELSE {store}

\* A hit has the artifacts of this module.
Hit(i, s) == Looking /\ fps[i] \in DOMAIN s /\ s[fps[i]] # Malformed

\* cache.materialize.
Materialize(i) ==
    \E s \in StoresAfterFetch(i) : Hit(i, s) /\ store' = s /\ Leaves(i, s[fps[i]])

\* lean runs, and its artifacts are inserted whatever the store holds.
Compile(i) ==
    \E s \in StoresAfterFetch(i) :
        /\ ~Hit(i, s)
        /\ LET output == LeanOutput(plan.ws, modules, i, Loaded(i))
           IN  /\ Leaves(i, output)
               /\ store' = IF Caching THEN Put(s, fps[i], output) ELSE s

\* A lookup fails, the first or the one after a fetch: the job ends before it
\* touches the layout.
FailLookup(i) == Looking /\ store' \in StoresAfterFetch(i) /\ UNCHANGED layout

\* The link or copy of a hit fails, or lean does: the outputs are deleted.
FailAndCleanUp(i) ==
    store' \in StoresAfterFetch(i) /\ Leaves(i, NoArtifacts)

\* The insert fails: what lean wrote stays.
FailInsert(i) ==
    \E s \in StoresAfterFetch(i) :
        /\ Caching /\ ~Hit(i, s)
        /\ store' = s
        /\ Leaves(i, LeanOutput(plan.ws, modules, i, Loaded(i)))

\* The job panics half-way.
BreakOff(i) ==
    store' \in StoresAfterFetch(i) /\ (UNCHANGED layout \/ Leaves(i, Partial))

\* Without a workspace the pool's items leave nothing.
Job(w) ==
    /\ UNCHANGED fixedVars
    /\ \/ JobStep(w) /\ plan = NoPlan /\ UNCHANGED <<layout, store>>
       \/ /\ "ok" \in JobEnds /\ FinishOk(w)
          /\ plan # NoPlan
          /\ Materialize(item[w]) \/ Compile(item[w])
       \/ /\ "error" \in JobEnds /\ FinishError(w)
          /\ plan # NoPlan
          /\ FailLookup(item[w]) \/ FailAndCleanUp(item[w]) \/ FailInsert(item[w])
       \/ /\ "panic" \in JobEnds /\ Panic(w)
          /\ plan # NoPlan
          /\ BreakOff(item[w])

BuildNext ==
    \/ \E w \in Workers : Job(w)
    \/ /\ \/ \E w \in Workers : PoolStep(w) \/ SpuriousWake(w)
          \/ Join
          \/ Returned
       /\ UNCHANGED buildVars

BuildSpec == BuildInit /\ [][BuildNext]_<<poolVars, buildVars>> /\ Fairness

-----------------------------------------------------------------------------
(* Properties. *)

\* Three gaps of the code (README, section 5).  The first is the search: artifacts that
\* an earlier build left in another package hide an indirect import.
Hidden(i) ==
    \E j \in Closure(modules, i) \cup {i} :
        \E t \in Closure(modules, j) \ modules[j].deps :
            layout[PathOf(modules[t])] # NoArtifacts /\ FoundIn(t) # modules[t].package

\* The others are in the fingerprint: what a package without a revision declares as
\* inputs has changed since,
InputsChanged(m) == PackageOf(plan.ws, m).rev = NoRev /\ m.package \in plan.changed

\* or the module has come from another package, whose name lean was given.
Moved(m) == m.name \in plan.moved

\* Something that lean reads, and no fingerprint tells, differs from earlier builds.
Unkeyed(i) ==
    \E j \in Closure(modules, i) \cup {i} : InputsChanged(modules[j]) \/ Moved(modules[j])

\* Then a hit is stale; --force and --no-cache take none.
StaleHit(i) == Looking /\ Unkeyed(i)

\* Where the artifacts that a build starts with come from: each manifest of the store and
\* of the remote is unusable or a module's of a build from nothing of one of the
\* workspaces past.
FromCleanBuilds(manifests, past) ==
    \A f \in DOMAIN manifests :
        \/ manifests[f] = Malformed
        \/ \E ws \in past : \E i \in DOMAIN ModuleGraph(ws) :
               /\ f = Fingerprints(ws, ModuleGraph(ws))[i]
               /\ manifests[f] = CleanOutputs(ws, ModuleGraph(ws))[i]

\* A revision has one checkout, and what a package declares as inputs holds the same as
\* before unless the package is among the changed ones.
SameInputs(ws, p) ==
    \A k \in DOMAIN ws.packages, q \in DOMAIN p.ws.packages :
        LET old == ws.packages[k]
            new == p.ws.packages[q]
        IN  OwnerProvenance(old) = OwnerProvenance(new)
                => old.inputs = new.inputs \/ (new.rev = NoRev /\ new.name \in p.changed)

\* A module with a fingerprint of the past is in the same package as then, unless it is
\* among the moved ones.
SameOwners(ws, p) ==
    LET old == ModuleGraph(ws)
        new == ModuleGraph(p.ws)
        oldFps == Fingerprints(ws, old)
        newFps == Fingerprints(p.ws, new)
    IN  \A i \in DOMAIN old, j \in DOMAIN new :
            oldFps[i] = newFps[j]
                => old[i].package = new[j].package \/ new[j].name \in p.moved

HonestPast(past) ==
    /\ \A ws \in past : WellFormed(ws)
    /\ \A p \in Plans :
           /\ FromCleanBuilds(p.store, past) /\ FromCleanBuilds(p.remote, past)
           /\ \A ws \in past : SameInputs(ws, p) /\ SameOwners(ws, p)

\* A module whose job has succeeded has the artifacts a build from nothing
\* would give it, and so does whatever the store holds under a fingerprint of
\* this build: over artifacts of other versions, half-deleted stores, failed
\* or foreign fetches, and whatever order the pool picks (the staleness test
\* tier of docs/superpowers/specs/2026-07-12-m2c-cache-incremental-design.md:258).
BuildsAreClean ==
    plan # NoPlan =>
        \A i \in Items :
            \/ Hidden(i)
            \/ /\ i \in succeeded => StaleHit(i) \/ layout[PathOf(modules[i])] = clean[i]
               /\ fps[i] \in DOMAIN store =>
                      Unkeyed(i) \/ store[fps[i]] \in {clean[i], Malformed}

=============================================================================
