# A TLA+ development of leanr

leanr is a Lean 4 toolchain in Rust: it reads `.olean` files, checks them with
a kernel of its own, elaborates and formats source, and builds Lake workspaces
with a shared artifact store. This directory holds models of the parts of it
where several actors share state, of the searches at the heart of its
elaborator, and of the order on universes its kernel decides by; the TLC runs
that check them; and proofs that hold for every size of the parameters.

Contents: the system and its parts; the modules and how they correspond to the
code; the runs; bounds and fairness; the proofs; differences between the code
and its documents; what is not modelled; the plan.

## 1. The system

Paths below are relative to `src/crates/`.

| Part | State it keeps | Operations | What is hard |
|---|---|---|---|
| **Parallel check**, worker pool (`leanr_check/src/schedule.rs`) | ready queue, `in_flight` and `done` under a mutex; per-task atomic counters; `cancelled`; a failure slot under its own mutex; the flags of the gated table; the quotient flag | `check_parallel`, `worker`, `run_task` | lock-free reads of the table while others flip flags; the drain test; failures that race; cycles must be reported, never hung on |
| **Parallel check**, graph (`leanr_check/src/graph.rs`, `leanr_kernel/src/{checked,used_consts}.rs`) | tasks, owners of names | `build_graph`, `resolve_block` | every constant a check may look up must be ordered before it, also those no term mentions (`Eq`, the quotient) |
| **Job pool** (`leanr_build/src/pool.rs`) | ready list, counters, `cancelled`, first failure under one mutex | `run` | lost wakeups (it notifies outside the mutex), panics, fail-fast |
| **Artifact store** (`leanr_build/src/{cache,fslock}.rs`) | a directory of blobs named by their hash and manifests named by a fingerprint, a lock file and a temporary file beside each | `insert`, `insert_manifest`, `store_blob`, `lookup`, `materialize`, `gc`, `verify` | processes that share only the file system, killed anywhere; gc takes no lock |
| **Remote cache** (`leanr_build/src/remote.rs`) | a circuit breaker per process; the remote's manifests and blobs | `fetch`, `push_one`, `get_all` | a remote that is incomplete, damaged, wrong or gone must cost time only |
| **Build job** (`leanr_build/src/compile.rs`) | outcomes of modules, the layout under `.leanr/build` | the job of `build_workspace` | falls through store, remote and lean; each may fail half-way |
| **Source cache** (`leanr_build/src/fetch.rs`) | one immutable git checkout per package and revision | `materialize`, `ensure_git` | concurrent clones, kills, timeouts, entries moved by hand |
| **Subprocesses, lake bridge** (`leanr_build/src/{subprocess,bridge}.rs`) | drain threads; a cache of translated lakefiles | `run_with_timeout`, `run_drained`, `load_config` | deadlines against pipes that grandchildren keep open |
| **Module graph, fingerprints, setup** (`leanr_build/src/{graph,scanner,fingerprint,setup}.rs`) | none between calls | `build_graph`, `topo_waves`, `fingerprint_all` | a frontier walk in chunks; a fingerprint must cover the cone of its inputs |
| **Sequential replay** (`leanr_kernel/src/{replay,env}.rs`) | `remaining`, `pending`, postponed constructors and recursors, the environment | `replay` | recursion over dependencies, cycles, duplicates; the verdict the parallel check must match |
| **Term bank** (`leanr_kernel/src/bank/`) | persistent and scratch regions of interned rows | intern, promote | an id of one region must not be read in the other |
| **Universe levels** (`leanr_kernel/src/level.rs`, `is_geq` of `inductive.rs`) | none | `normalize`, `is_equivalent`, `is_geq`, `instantiate_params`, the smart constructors | syntactic rewriting must agree with a meaning that is never computed; the sorting order must be total |
| **Kernel checker** (`leanr_kernel/src/{tc,inductive,quot,…}.rs`) | caches local to one declaration | `check_declaration` | an algorithm on unbounded terms |
| **Type-class synthesis** (`leanr_meta/src/{synth,instances,discr_tree}.rs`) | the table of goals and answers, generators, stored consumers, pending resumptions | `try_synth_instance`, `synth_step`, `new_subgoal`, `consume`, `add_answer` | cyclic goals; answers that arrive before or after their consumers; None against undetermined |
| **MetaM** (rest of `leanr_meta`) | metavariable assignments, postponed problems, two definitional-equality caches | `is_def_eq`, `whnf`, `checkpoint`, `rollback` | cached answers against rolled-back assignments |
| **Elaborator** (`leanr_elab/src/{elab,postpone,coe}.rs`, `synthetic/`) | pending synthetic metavariables and their declarations, the postponement flag | `elab_term`, `with_synthesize`, the ladder of `synthesize_synthetic_mvars`, the default-instance loop | rollback of half-done attempts, order of retries, progress, termination |
| **.olean reader, parser, grammar, formatter, query engine, CLI** | – | – | pure functions of their input |

How they interact. `leanr check` decodes modules into a frozen term bank and a
table of constants, builds the graph and runs the worker pool; with
`--sequential` it runs `replay`. `leanr build` resolves the workspace (package
model, bridge, source cache, module graph), computes fingerprints and runs one
job per module on the job pool; a job asks the store, then the remote, then
runs lean and inserts the result. `leanr cache get | push | gc | verify` work on
the same store at any time, also from other processes. The elaborator asks
MetaM to unify types and to synthesize instances; an undetermined goal becomes
a pending metavariable that the ladder retries, a failed one an error. MetaM
and the kernel are called within one thread and share nothing with others. So
the parts above meet at the store's directory, the source cache's directory,
the gated table, and the mutexes of the two pools.

What makes each part correct: the gated table is always a prefix some
sequential check could have built, and the verdict is one that the graph
determines; the pool runs each item once, dependencies first, and neither hangs
nor starts anything after a failure; a blob is what its name says and a
manifest's blobs are there, whoever is killed; a job that succeeds leaves one
whole artifact family in the layout; an entry of the source cache is a complete
checkout of its revision or does not exist; the synthesis answers what the
instances prove, in their order, and None only for good; the elaborator loses
no metavariable, ends, and guesses or gives up only when nothing else is left;
levels the kernel calls equal, or ordered, are so under every assignment.

## 2. The modules

| Module | Models | Uses |
|---|---|---|
| `SequentialCheck` | what a check of a graph promises: one task at a time | |
| `CheckScheduler` | `schedule.rs`: the worker pool | refines `SequentialCheck` |
| `CheckGraph` | `graph.rs` and the table effects of each kind of task, as operators | |
| `Replay` | `replay.rs`: the sequential check of a decoded table | `CheckGraph` |
| `MCCheckScheduler` | graphs for TLC | `CheckScheduler` |
| `CheckTables` | both checks of `leanr check` on the same decoded table | `CheckScheduler`, `Replay` |
| `MCCheckTables` | tables for TLC | `CheckTables` |
| `BasicLemmas` | lemmas on sequences without repetition, induction, iteration and recursive functions | |
| `CheckScheduler_proofs` | theorems about `CheckScheduler` | `BasicLemmas` |
| `CheckTables_proofs` | theorems about `CheckTables`: the graph and `Replay` | `CheckScheduler_proofs` |
| `TopologicalRun` | what `pool::run` promises | |
| `BuildPool` | `pool.rs` | refines `TopologicalRun` |
| `MCBuildPool` | dependency graphs for TLC | `BuildPool` |
| `Workspace` | `graph.rs`, `setup.rs`, `fingerprint.rs`: from a workspace to modules, plans and keys, as operators | |
| `Build` | `build_workspace` of `compile.rs`: the modules as the pool's items, with the layout and the store | composes `BuildPool` and `Workspace` |
| `MCBuild` | workspaces and what earlier builds left, for TLC | `Build`, `MCBuildPool` |
| `Build_proofs` | theorems about `BuildPool`, `Build` and `Workspace` | `BasicLemmas` |
| `ArtifactStore` | `cache.rs`, `fslock.rs`, `remote.rs` and the job of `compile.rs` | |
| `ArtifactStore_proofs` | theorems about `ArtifactStore` | |
| `MCArtifactStore` | stores, remotes and lean runs for TLC | `ArtifactStore` |
| `SourceCache` | `fetch.rs`, with git as a subprocess | |
| `SourceCache_proofs` | theorems about `SourceCache` | |
| `MCSourceCache` | workspaces for TLC | `SourceCache` |
| `Synthesis` | `synth.rs`: tabled resolution of type-class instances | |
| `Synthesis_proofs` | theorems about `Synthesis` | `BasicLemmas` |
| `MCSynthesis` | instance tables and goals for TLC | `Synthesis` |
| `SyntheticLadder` | `elab.rs`, `postpone.rs` and `synthetic/`: postponed elaboration and the ladder | |
| `SyntheticLadder_proofs` | theorems about `SyntheticLadder` | |
| `MCSyntheticLadder` | programs, instances and default instances for TLC | `SyntheticLadder` |
| `UniverseLevels` | `level.rs` and the universe order of `inductive.rs` | |

### CheckScheduler

Variables are the fields of `Shared` and `ReadyState`, the flags of
`CheckedConstants` (`admitted`), and the locals of each worker that outlive an
action. `released` records which counters a task has decremented; the code has
it as the position of a loop. The actions follow the body of `worker`:
`Acquire` takes the mutex; `Pop`, `Drain` or `Wait` ends the inner loop;
`BuildView` and `CheckTask` are `run_task` (the table is read without a lock
between them and others); `Admit` flips one flag at a time; `PublishQuot` sets
the quotient flag; `Tally`, `Decrement` (one counter each), `Complete` and
`Progress` are the Ok arm; `RecordFailure`, `Cancel` and `Bail` the Err arm;
`Join` is the end of `check_parallel`. A task carries its verdict in the graph
(`content`), but a check that looks up a name not yet admitted fails with
`unknown_constant`, so an ordering mistake shows as a wrong verdict.

### CheckGraph

Terms are reduced to the constants they use, and names to numbers in the order
`build_graph` sorts them in. `AssignTasks` is its passes 1 and 1b in order,
with later claims of a name taking over; `Edges` adds the edges of
`used_constants` and the one to `Eq`; `Content`, `Flips`, `Survivors` and
`Lookups` say what `run_task`, `run_block` and `run_quot` compare, flip and
look up.

### Replay

`remaining`, `constants` and the postponed sets are the fields of `Replayer`
(`opened` is its `pending`, `sent` its `checked`), and `stack` holds the calls of
`replay_constant` under way, each with the stage it has reached: visiting its
dependencies, those of the constructors of its block, or `Eq`. `VisitNext` is
the outer loop over a hash set and `VisitDependency` the recursive call;
`PassOver`, `AdmitSimple`, `OpenBlock` and `AdmitBlock` (`replay_inductive` before
and after its recursion), `Postpone`, `OpenQuot` and `AdmitQuot` end a stage;
`Finish` compares what was postponed. Both checks read the same table, so
`CheckTables` runs one after the other and compares what they return. It also says
what a table is (`WellFormed`): numbers as names, no name declared by two
declarations, an inductive type in its own block, and each constructor or recursor
regenerated by the declaration of the type it names. Anything may be missing, cyclic,
dangling, rejected or forged. The last condition is what a stray
recursor breaks (section 5).

### BuildPool

One action is one critical section of the mutex, or a step others can see
outside of it: the notification after `FinishOk` is a separate action because
the code sends it after the guard is dropped. A job ends as `JobEnds` allows. A
panic unwinds the thread out of its loop and leaves `in_flight` as it is.

### Workspace and Build

`Workspace` has the steps of `leanr build` that keep no state: `Resolve` (the longest
library root that has the file), `Walk` (the frontier of the import scan),
`ModuleGraph` (ids in the order of names, edges only to modules of the
workspace), `Reached` (`topo_waves`), `ModuleOptions`, `OwnerProvenance`,
`Fingerprints` and `LeanPath`. A hash is the record of what is hashed.

`Build` runs the job of `build_workspace` as the end of a pool item. `plan` is the
workspace, the mode (`--force`, `--no-cache`) and the remote; `modules` and `fps` are
computed before the first job; `layout` holds a module's artifacts by package
and name, `store` a manifest by fingerprint. `Materialize` and `Compile` are
the ways a job succeeds, `FailLookup`, `FailAndCleanUp` and `FailInsert` the ways
it fails, `BreakOff` a panic. A job is one step here: the pool starts it when
all it reads is settled, and nobody reads what it writes before it ends; its
inner steps, shared with other processes, are the subject of `ArtifactStore`.
What lean writes is the record of all it has read. It reads direct imports
where the setup file says, and the others through `LEAN_PATH` (lean itself is
external, the path is `lean_path_env`). The setup file also tells it the name, the
package and the options of the module. The fingerprint holds all of these but the
package (section 5), so `plan.moved` names the modules that have come, with their
fingerprint unchanged, from another package, as `plan.changed` names the packages
whose declared inputs have other contents (`Moved`, `InputsChanged`; what imports such a
module, or is one, is `Unkeyed`).

### ArtifactStore

A process is a thread of a build, of `cache get`, of `cache push`, or a
`cache gc`. All of them run the same program over `run[p]`, one action per
file-system operation or request: `Lookup`, `Probe`; `GetManifest`, `Dedup`,
`GetBlob`; `Lean`, `Store`; the write `Lock`, `Open`, `Fill`, `Chmod`,
`Rename`; `Link`; `HeadManifest`, `HeadBlob`, `PutBlob`, `PutManifest`;
`Walk`, `Sweep`. `Kill` stops a process between any two of them, drops its
locks and leaves its files. A blob's content is its name, so an intact blob is
`file[BlobPath(h)] = h`. Where `write_atomic_readonly` returns to depends on
the caller (`call`): an insert replaces a manifest, a fetch never does.

### SourceCache

A call of `materialize` has one thread per package. `Look`, `Lock` (with the
second look), `Clean`, `Clone`, `Checkout`, `VerifyTmp` and `Rename` are the
steps of `ensure_git`; a run of git is one action and may fail, for any reason
including its deadline. `Kill` also lets the orphaned git come to some end in
its temporary directory. A revision that is not a full commit id never passes
`HeadMatches`, as in `verify_checkout`.

### Synthesis

`st` is the `SynthState`: the table (`answers`, a key to its answers and
waiters), `generators` and `resume_stack` as stacks, `consumers` as the
append-only arena, `result`. `Resume`, `Generate` and `Return` are the branches
of `synth_step` and the end of the search; each is the whole call, through
`try_answer` or `try_resolve`, `consume`, `new_subgoal`, `add_answer` and
`wake_up`. The metavariable context a node carries is the substitution already
applied to its fields, so resuming a node twice is two independent copies. A
unification that meets a metavariable of the caller is `IsDefEqStuck` and ends
the search undetermined. `meaning` is the reference: the least model of the
instances read as clauses. `resumed` is history: the resumptions, each a consumer and an
answer, that have left the stack. `WakeUp` is `wake_up` called for each waiter in turn;
the calls do not depend on each other, as each pushes for its own waiter.

### SyntheticLadder

The elaborator is recursive and throws, so the machine has an explicit `stack`
of frames and a `ctl` that says what the last call returned or threw. A frame
`elab` or `resume` runs the instructions of a term: `Expect` (wait for a type or
throw Postpone), `Demand`, `Unify`, `NewInst`, `NewCoe`, `NewTactic`, `Enter`,
`EnterWith`, `Drain`. A frame `step` is one pass over the pending list, `ladder`
the six rungs, `loop` the default-instance loop, `with` the caller's list that
`with_synthesize` holds back. `ts` is what `save_term_state` snapshots, and
`Unwind` is a throw passing a frame that does not catch it. `origin` is history: it
says where in the program a metavariable was minted, and no rollback rewinds it.

### UniverseLevels

The functions of `level.rs` as operators on trees. A state is a question about
two levels, and an action asks it; `Value` is the standard meaning of a level,
which the code never computes. Two things the model shows about the
incomplete side, where the kernel follows Lean: `normalize` does not sort a max it
obtained from an `imax` whose right side is never zero, so
`imax v (u+1)` and `max v (u+1)` are not `is_equivalent` though
`imax u (v+1)` and `max u (v+1)` are, which is the pair the test table pins (`level.rs:765`);
and `is_geq` rejects `imax u v + 1 >= imax u v`.

## 3. The runs

| Run | Configuration | Shows |
|---|---|---|
| `scheduler` | three workers, seven graphs: diamond, two racing failures, cycle, failure beside a cycle, dangling dependency, quotient chain, empty | dependency order, exact verdict, no early drain, termination, refinement of `SequentialCheck` |
| `check_tables` | `replay`, then two workers, on 99 decoded tables: three, and all that differ from one of them in one place (a constant missing, rejected, forged, or mentioning another) | the graph orders every lookup; the two checks agree in verdict and count |
| `member_type` | one table: a mutual block whose second type alone mentions a constant | *violation*: `replay` rejects in some orders what the parallel check accepts |
| `pool` | three threads; five bare graphs, and eighteen builds of workspaces over the leftovers of an earlier build; jobs that succeed, fail or panic | nobody sleeps without a waker, `run` returns, refinement of `TopologicalRun`; a build delivers and stores what a build from nothing would |
| `pool_panic` | two threads, one graph | *violation*: a panicking job can leave `run` waiting for ever |
| `store` | two operations of any kind, one kill, three stores, four remotes | intact blobs, manifests after blobs, whole families, self-healing, termination |
| `store_kill` | two builds, one kill | *violation*: a kill between chmod and rename makes later writes fail |
| `source_cache` | two calls, one kill, one entry moved by hand, three workspaces | whole and immutable entries, Ok means ready, nobody clones twice, termination |
| `synthesis` | every sequence of up to three of 15 instances and six larger tables in every order, ten goals | answers are sound, tables complete, None final, the earliest usable instance wins, every answer meets every waiter once |
| `ladder` | every program of up to three of 20 instructions, nested terms and ladders among them | the pending list keeps its order and loses nothing, rollbacks leave nothing, defaults and stuck reports come last, termination |
| `ladder_mismatch` | programs whose instance depends on another by its type | *violation*: an instance is rejected for a mismatch with one that is still pending |
| `levels` | all pairs of levels of at most seven nodes over two parameters | every operation keeps the meaning of levels; comparisons are sound; a max does not depend on the arrangement of its arguments |

Each property of a passing run is also checked against a change of one
definition that a plausible mistake would make (a lost notification, a dropped
second look, a manifest written before its blobs, …); the definitions named in
comments as mutations serve for this and are used by no action.

### Bounds, and why they are enough

- Workers: three suffice for one to finish, one to drain and one to sleep at
  the same time; the proofs cover every number. A graph is fixed in a run, and
  the graphs are chosen so that each race exists: two last dependencies, two
  failures, a failure against a drain, a task that is never ready.
- Tables: a quotient with its `Eq`, a mutual block whose head sorts last, and
  every single departure from them; one departure is enough for each of the
  errors the two checks know, and for cycles through a definition, through a
  constructor and through a recursor. `NoStricterThanReplay` is about tables whose inductive
  types and quotients are exported whole and unforged (`IsExported`). Elsewhere
  the pool rejects more, as `schedule.rs:505` says for incomplete closures;
  the runs behind `IsExported` show that it also does for a forged inductive
  type or quotient constant, which `replay` never compares. A table holds no
  recursor the kernel does not regenerate (section 5),
  and every type of its block is mentioned by the constructors or mentions nothing
  of its own, which is what `member_type` shows.
- Builds: four modules in two packages, with a join, a diamond and a module of the
  toolchain. Each plan is one change (source, revision, option, module system,
  imports, toolchain, a library with a longer root, a module that changes its
  package, with and without a change of provenance, a declared input) after a complete build, or a store and a layout
  that are damaged, empty, or helped by a partial remote with an unusable
  manifest. One build at a time, and the workspace does not change under it.
- Store: two operations. Every pair of build, get, push and gc meets in every
  order, also one after the other, and one of them may be killed anywhere. The
  initial stores stand for what longer histories leave behind (a dangling
  manifest after a gc, a whole family), the initial remotes for what others
  pushed. Two artifacts per module (`Arity`) are enough to tell first from last
  and to mix two families; one fingerprint, because files of different
  fingerprints share only blobs, and the two families of `Outputs` share one.
  `Cap` = 1 makes a gc remove something whenever a family is there.
- Source cache: two calls are a race or a retry after a kill; two packages in a
  manifest let one fail while the other goes on.
- Synthesis: a clause has at most two premises and a class at most two
  arguments, which gives chains, joins, cycles, symmetric and transitive
  relations, output parameters and premises whose instance unification has
  already found. `MaxResultSize` is 4 (128 in the code), so that an answer too
  large is dropped in some searches; `TablesAreComplete` and `NoneIsFinal` exclude
  these, as the code gives up there on purpose. `NoneIsFinal` also excludes a
  search whose root had answers that were all open or did not fit the caller's
  output arguments.
- Ladder: three type metavariables, three instructions in a program and a nested
  term as one of them are enough for a postponed term to wait for an instance
  that waits for a default instance, inside and outside of `with_synthesize`.
  The programs bound everything; no counter is capped.
- Levels: two parameters with values 0 to 3, seven nodes in both levels together.
  A wrong answer would need an offset larger than what fits in seven nodes to
  be out of reach of these values.
- `MaxOps`, `MaxCalls`, `MaxKills` and `MaxTampers` appear only in the guards
  of `Start`, `Begin`, `Kill` and `Tamper`. The other counters are bounded by
  the graphs.

### Fairness

`WF` on every worker's step (the operating system runs runnable threads), on a
job's end (jobs end; lean has no deadline in the code, so a lean that never
exits is outside the claim), on the join of the scope, on every step of a begun
store operation and of a fetch thread. Nothing is assumed of kills, spurious
wake-ups, beginnings or edits by hand. The two pools' liveness is stated under the
condition that the condition variable does not wake spuriously for ever; a
waiter has no other step. Waiting for a file lock needs only `WF`: the number of
operations is bounded, so from some point on the lock stays free. The ladder is
one thread that always takes its next step. The synthesis and the levels need
no fairness: their properties are about safety.

Deadlock is checked where the system runs on or has an explicit end. The
configurations of the synthesis, the ladder and the levels allow it, since a search, an
elaboration and a question end with their answer.

## 4. The proofs

Every theorem below holds for all values of the constants and of the graph, the
store, the workspace or the program a behaviour starts from: any number of workers,
processes and kills, any schedule. The assumptions are the named ones of the
modules, and TLC evaluates them in each run. They say that `Eq` and the four quotient
constants have names, that `Workers` is finite
and not empty, that a graph's dependency lists are sets of numbers, that a task
flips at least one flag and different tasks different names, that no marker
value is a task, an item, a thread or a result (`SlotsAssumption`,
`NobodyAssumption`); the theorem `TablesMakeGraphs` shows that the graphs of decoded
tables are such graphs. They say that stores and remotes are functions from paths to
files (`StoreAssumption`); of builds, that the workspace resolves (`WellFormed`: an
acyclic graph, one id for each name, every module in a known package) and the
layout has a place for each of its modules (`BuildAssumption`). Some theorems have a
hypothesis of their own, discussed below: `WellFormed` and `Regenerated` tables,
`NeedsItself`, `LooksBack`, `HonestPast` and `HonestSources`.

**CheckScheduler_proofs.** `TypeCorrect`, `InFlightCorrect`,
`AdmissionInDependencyOrder`. `DependencyOrder` is not inductive: a task's first
flag may be set only because its counter was zero when it was queued. The
invariant `IndInv` adds that a counter is the number of dependencies that have
not decremented it (`CountingInv`), that what is queued, listed or held has
counter zero (`ReadyInv`), that no task is in two places (`UniqueInv`), that a
task decrements nothing before its flags are all set (`FreshInv`,
`AdmittedInv`), and that `in_flight` counts the busy workers. `IndInvOrders` then
reads the order off: a visible name means counter zero, so every dependency has
decremented it, so every dependency is fully admitted.

`DrainCorrect`, `VerdictCorrect` and `PoolIsSequential` (the pool implements
`SequentialCheck`) need what `check_parallel` knows at its end, `VerdictInv`:

- an admitted task is `Checkable`, and whoever is about to flip names holds a
  task whose check has passed (`GoodInv`, `SequentialInv`);
- the quotient flag is up before the task that raises it decrements a dependent's
  counter, and whoever checks behind that task has seen it up (`QuotInv`);
- an error held by a worker or in the failure slot belongs to a task that a
  sequential check could reach and must reject (`BlameInv`);
- cancellation goes with a failure, in the slot or about to be recorded
  (`CancelInv`);
- a task whose check has not succeeded yet has admitted nothing (`UntouchedInv`);
  until a check fails no ready task is lost (`PlacedInv`); `done` counts the
  tasks that are over, and these have decremented all their dependents (`OverInv`);
  an answer means that all workers have left (`JoinInv`).

At `Join` all workers are gone; if nothing was cancelled, the queue is empty and
no hand holds a task, so a task that is left has a dependency that is left
(`AtTheEnd`), and the tasks that are done are exactly the checkable ones. The
refinement maps the flip of a task's last flag to its admission and `Join` to
the verdict. `VerdictCorrect` and `PoolIsSequential` assume `LooksBack`: each name a
check looks up belongs to a task it transitively depends on, and a check that
reduces with the quotient depends on the quotient's task. Without it a check may
fail on one schedule and pass on another, which is the mistake `build_graph` exists
to prevent; that the graphs it makes look back is the next theorem. All graphs of the
run `scheduler` look back, cyclic and failing ones included.

**CheckTables_proofs.** `TablesOrderLookups`: in the graph that `build_graph` makes
of any `WellFormed` table, every lookup is ordered. The argument goes along the code:

- Passes 1 and 1b are functions along the names, and so is `Reach`, what a check can
  get to by unfolding. The lemma `Recursion` of `BasicLemmas` gives their equations.
- After each name of pass 1 (`Pass1Inv`) each declaration met has one task, whose
  members, constructors and quotient constants it owns. Two tasks never share a name,
  because two declarations do not (`SharedName`); so a later claim of a name never
  takes one away from the task that checks it. `Pass2Inv` adds the strays: a
  constructor or recursor goes to the task that regenerates it (`ClaimKeeps`).
- So every name of the table has an owner that flips it (`Owned`), and for every name
  that a task owns the walk of pass 2 has added the owners of all that it uses
  (`EdgesAreTasks`). The names owned by a task and its ancestors are therefore closed
  under use, and what a check reaches stays within them (`LookupsInside`). The quotient
  task needs the explicit edge to `Eq` here.

`TablesMakeGraphs` is the shape of the graph: edges lead to tasks, no two tasks flip
one name. `TablesAreCheckedExactly` puts the graph under the pool: if no declaration
needs itself for its own check (`NeedsItself`: a recursive definition left in the
table, a constructor that mentions its own recursor), `LooksBack` holds, so the verdict is
exact and the pool implements the sequential check, now with decoded tables as the only
hypothesis.

`DecodedCopiesAreKept`: whatever the table and the order of the
visits, a name that is left and a constructor or recursor to be compared still
has its decoded copy. `replay` frees copies as it goes, and its comments rest on
this. The invariant `KeepInv` adds what each call on the stack knows: its name is
no longer left, a call that is inside a block has inductive members none of which is
left, and only the quotient's call waits for `Eq`.

`ReplayDeclaresAll`: when `replay` returns success, its environment declared every
constant of the table. The invariant `ReplayInv` follows each name: it is left, taken up
by a call, a member of a block that is open, postponed for comparison, or declared
(`CoverInv`, `StructInv`). What is declared was sent in a declaration that the kernel
accepts (`SentInv`), and only what could be sent in some order is ever declared: `env`
is within every set that is closed under sending (`LeastInv`). At the end nothing is
left and no call is under way, so all names are declared, and the comparisons have found
every constructor and recursor equal to its twin.

`PoolIsNoStricter` states `NoStricterThanReplay` for every table: what `replay` accepts,
in whatever order, the pool accepts. Of a table on which `ReplayDeclaresAll` holds it is
shown that `build_graph` succeeds (`BuildSucceeds`), that no check needs what its own task
declares and every task's own check passes (`TasksAreGood`), and that all tasks are
checkable (`TasksAreCheckable`): a set of tasks that is closed under checking gives a set
of names closed under sending, which by `LeastInv` is all of them. So `LooksBack` holds, the
verdict is exact, and nothing can be blamed. The theorem assumes of the tables what their
producer guarantees, `WellFormed` and `Regenerated` (a constant that equals its twin is
what the kernel makes of the declaration, from what the declaration mentions); TLC
evaluates both on every table of the run `check_tables`. `IsExported` is part of the
property, and section 3 says why.

**Build_proofs**, the pool. `TypeCorrect`, `Implementation` (the pool refines
`TopologicalRun`, with the answer and panics included) and `NoForgottenSleeper`.
`IndInv` says what each counter counts, that an item is ready, held or finished
and never two of these, that none is lost, and under what conditions a worker
may have left. The refinement maps `failed` to the failure slot and is the
identity on the history of started and succeeded items; the interesting case is
`Join`, where every worker being gone must imply that nothing was startable.

**Build_proofs**, builds. `BuildIsPoolRun`: a build is a run of the pool, so what was proved of
the pool holds of it. `CleanBuilds` (`BuildsAreClean`), for every workspace, in two
parts.

- Fingerprints, closures and the outputs of clean builds are recursive definitions, and
  TLA+ says nothing of one before a function that satisfies it is known to exist.
  It is built wave after wave of `topo_waves` (`WavesExist`), which gives the
  equations (`FingerprintsEquation`, `CleanOutputsEquation`, `ClosureEquation`).
  `FingerprintsDetermineOutputs` then goes along the imports (`SomeImportsNone`):
  equal fingerprints, of modules of whatever two workspaces, mean equal clean outputs,
  unless one of the things no fingerprint tells differs (`UnkeyedIn`).
- `BuildInv` adds to the pool's invariant that the layout holds the clean artifacts
  of every module that has succeeded (`LayoutInv`), and the store those of any
  fingerprint of this build that it has, or an unusable manifest (`StoreInv`). When a
  job compiles, all it imports has succeeded (`ImportsFirst`), so lean reads clean
  artifacts (`CompiledIsClean`); nobody else reads what it writes (`HiddenStays`).
  `BuildsAreClean` is not inductive where it excepts modules with a hidden import:
  whether an import is hidden is settled only when all imports have succeeded, so a
  module excepted now may not be later. `StoreInv` makes the exception only for
  modules whose own job has succeeded.

`CleanBuilds` assumes `HonestPast(past)`: each manifest that the build finds in the
store or on the remote is unusable or was made by a clean build of some workspace of
`past`; a revision has one checkout, and what a package declares as inputs holds the
same as then unless the package is among the changed ones; a module with a
fingerprint of the past is in the package it was in then unless it is among the moved
ones. `BuildsAreClean` excepts the modules that import, or are, a changed or moved one
(`Unkeyed`), of the layout only where the store is looked up (`StaleHit`). Nothing is
assumed of the old layout. TLC evaluates the hypothesis for the
plans of the run `pool` (`PastAssumption`).

**ArtifactStore_proofs.** All safety properties of the run `store`, for any number
of processes, blobs, fingerprints, operations and kills: `TypeCorrect`,
`BlobsStayIntact`, `ManifestsComeLast`, `LookupsAreGood`, `JobsHeal`, and of steps
`BlobsGoUpFirst` and `InsertsWin`. The invariant has a part about the files (a blob
path holds its blob or nothing; what a manifest names is there, or among the
blobs a gc has taken or that were missing from the start) and one per process that says what it may rely on
between two of its steps: whoever is past `Lock` holds the lock of its path
(`HolderInv`), the temporary file is what it has written so far (`TemporaryInv`),
the blobs before its index are there or have been collected since (`PrefixInv`), when it comes to
the manifest they all are (`InsertInv`), and likewise for the look-up, the link and
the push. Locks matter only for the temporary file: the store's invariants survive
a gc and a kill at any point because nobody writes to a path but by rename.
`BuildsDeliver` adds `HonestSources`: a manifest of the right arity in the initial
store or the remote is one lean could have written for its fingerprint.
`cache.rs` checks the arity and takes the content on trust, so without
it a job would deliver whatever a remote says.

**SourceCache_proofs.** All safety properties of the run `source_cache`, for any
number of calls, packages, kills and entries moved by hand: `TypeCorrect`,
`LosersFindTheEntry`, `OkIsReady` and, of steps, `EntriesStayWhole`. The invariant
says that a thread past its second look holds the lock and that the entry is absent
as long as it does (a hand moves only entries that are there), and that what has
passed `verify_checkout` in the temporary directory is at the revision; a thread
that answered well has an entry that is ready or was moved since its call began.

**SyntheticLadder_proofs.** `OrderIsKept` (`NewestFirst`) and `NothingIsForgotten`
(`NothingForgotten`), for every program, instance table and table of default
instances, without an assumption. Neither property is inductive: a rollback may
bring back any list a call has saved, and a throw may cut a step short at any
point. The invariant `IndInv` is therefore stated along the stack: `Sits` is what
a call knows of the calls below it.

- A snapshot that `elab` or `resume` would restore is itself in order with
  respect to the calls below (`Ordered`) and forgets nothing there (`Covered`):
  restoring it is always safe, whatever has happened since.
- A step's walk and kept list increase, the walk newer than what is kept, and
  both newer than whatever is held back below; `with` holds a decreasing list.
- A resumed term sits on a step that visits an mvar, a step on a ladder, and the
  outermost ladder does not postpone, so when it returns the list is empty
  (`KeptInv`).
- A `Bool` is only ever returned to a step that visits or to a ladder
  (`ReturnInv`).

While something is thrown `Covered` is given up for the state, as the code gives
it up: a step that unwinds drops its lists. It comes back with the snapshot of
the call that catches. `Pushed` and `Popped` say what survives when a call is
made or ends.

**Synthesis_proofs.** `AnswersAreDelivered` (`EachAnswerReachesEachWaiterOnce`), for any
instances, any goal and however terms unify: of `Unify`, `Canonical` and `Shift` this proof
uses nothing. An answer reaches a consumer on two ways, pushed by `add_answer` to the
waiters it finds, or replayed by `consume` to a waiter that comes later; which of them it
is depends on the order of the search. The invariant `SearchInv`:

- the waiters of an entry are, besides the root, exactly the stored consumers whose next
  premise is its goal, each once (`WaitersInv`);
- a consumer whose premise has no entry asks for a goal without candidates, for which
  none is ever made (`ConsumersInv`, `GeneratorsInv`): it is not one that was forgotten;
- the answers of an entry differ in what `add_answer` compares, and the pending
  resumptions and those that were run are disjoint and together all that is due
  (`ResumedInv`).

The lemmas say how each operation changes what is due: a new answer adds one for each
waiter (`AnswerDue`, `AddAnswerKeeps`), a new waiter one for each answer
(`StoredWaits`, `AddWaiterKeeps`), a new entry adds none (`NewSubgoalKeeps`).

`EveryAnswerHolds` (`AnswersAreSound`): what the table records is true, for any number of
instances, premises and arguments. It assumes what the clauses look like (`IsProgram`:
arguments as many as the class has parameters, an instance argument of its own for each
premise, mentioned by later premises only and not by the head), that the terms of the
reference are not the search's own metavariables (`GroundTerms`), that goals are of such
terms (`IsQuery`), and that the clauses have finitely many ground heads, without which
`LeastModel` would not be defined by rounds. All clauses of `MCSynthesis` but `LofC` meet
this, and with them four of five of its tables. A head that names an instance argument,
as that of `LofC`, lets a goal give the instance and skip the premise: that the given
instance is one of the premise's class is typing, which the terms here do not have, so of
those tables soundness is model-checked only.

The invariant `TableInv`, added to `SearchInv`: each recorded answer holds (`IsAnswer`:
`Valid` under every grounding of its metavariables), a generator has only instances of
its class left, and a stored consumer proves its target from what is open (`NodeInv`:
under any grounding that makes the open premises true and their instance arguments
synthesized, the target is true). No answer need be final for that, so the order of the
search does not matter. The steps of the argument:

- `Unifies`: unification that succeeds makes the two argument lists equal, and its result
  mentions no metavariable that the lists do not (`UnificationSubst`); by induction over
  the arguments, each of which keeps what was equal before (`UnifyTermsSolves`,
  `BindKeeps`).
- A substitution before a grounding is a grounding (`AfterGrounds`), so a true answer
  stays true renamed, shifted to fresh metavariables or unified (`ValidAfter`,
  `CanonicalRenames`, `ShiftRenames`).
- `ResolvedSound`: a clause under a grounding is a rule of the reference (`ClauseRule`),
  and the least model is closed under the rules (`LeastModelClosed`): what try_resolve
  makes proves its target from its premises. `AnsweredSound`: an answer discharges the
  premise a consumer waits at. Both need that unification leaves the instance arguments
  of the open premises alone, which is why `NodeInv` says that nothing before them
  mentions them (`Telescope`): with that, `consume` never skips a premise that is not
  proved.

**BasicLemmas.** Lemmas on `Head`, `Tail`, `Append` and `\o` of sequences without
repetition, used by the pools and the synthesis. Induction and iteration up to a number, used by
`Build_proofs`: the library's theorems take an operator, which no prover here can
instantiate, so they are stated of sets and functions, from the least element of a set
of numbers (`Least`).

Only model-checked, and why:

- all liveness (fairness and `ENABLED` are beyond the prover's reach);
- `NoLaxerThanReplay`, the other half of the agreement. It is false of tables like the one
  of `member_type`, so a theorem would need a hypothesis on the types of the members of a
  block, and an invariant over the whole stack of calls (no dependency of the running call
  is below it). Its second half compares counts, a sum over the tasks;
- `OneMVarPerPlace`: it needs the places of a term and of all terms nested in it,
  a recursion over terms; `DefaultsComeLast` and `StuckIsStuck`: they need that a
  pass without progress has left every goal as it met it, a statement about a whole
  pass with all the calls nested in it and not about one step;
- the levels, written with `RECURSIVE` operators on terms, of which the provers know
  nothing;
- the other properties of the synthesis: `TablesAreComplete`, `NoneIsFinal` and
  `EarliestCandidateWins` need the converse of `EveryAnswerHolds`, that what the least
  model has some answer covers. That is an induction over the rounds of `LeastModel` with
  an invariant that finds, for each rule, the consumer that has got furthest with it, and
  most general unifiers where soundness needs unifiers only.

## 5. Where the code and its documents differ

Shown by a run:

- `member_type`: `ARCHITECTURE.md:68` calls the parallel check verdict-equivalent to
  `replay`. `replay_inductive` (`replay.rs:409`) takes all members of a mutual block
  off its lists and visits what their constructors use; what only the type of another
  member mentions (an indexed family without constructors) may still be missing when
  the block is sent. `replay` then rejects, in some hash orders, what the parallel
  check, and `replay` in other orders, accept. The run came from an attempt to prove
  the agreement.
- `pool_panic`: `cache.rs:149` expects a panic in a pool worker to crash the
  build. The panicking worker leaves `in_flight` up and wakes nobody, so the
  others may wait for ever.
- `store_kill`: `remote.rs:246` calls the write order crash-safe and
  self-healing. A temporary file left read-only makes `std::fs::write` fail for
  every later writer of that path.

- `ladder_mismatch`: `ladder.rs:224` says that a mismatch with a value that
  still mentions a pending metavariable is retried later. `contains_pending_mvar`
  (`ladder.rs:296`) consults `pending_mvars`, which `step_with` has emptied
  before it visits the first metavariable, so inside the ladder the mismatch is
  thrown for good.

Noted without a run:

- `graph.rs:32` says of `Task.admits` that it lists the names a task admits on success,
  for a block "members + ctors + recursors". `build_graph` pushes every decoded recursor
  that points to a block onto it (`graph.rs:165-174`), but `run_block` compares and admits
  only the recursors the kernel regenerates (`schedule.rs:424-443`) and nothing reads
  `admits`: a decoded recursor that is not among those is neither compared nor admitted,
  and the check succeeds, where `replay` compares every decoded recursor and fails. On a
  table with one TLC finds `NoLaxerThanReplay` violated; `WellFormed` excludes them.
- `schedule.rs:597` says that `stuck_decl` returns a member of a cycle; it
  returns the first pending task, which may only depend on the cycle.
- `schedule.rs:65` says that `progress` receives the running checked count; it
  receives the number of finished tasks, which differs once a block of several
  constants is done.
- The design of the store (`docs/superpowers/specs/2026-07-12-m2c-cache-incremental-design.md`)
  asks for an fsync before the rename (line 201) and calls manifests immutable
  (line 204); the code does not sync, and an insert replaces a manifest on
  purpose. It also calls gc LRU by access time; the code orders by modification
  time, which a hit does not touch.
- `compile.rs:4` says that the outputs of a failed job are deleted; the arms for
  a failed insert and a failed lookup do not delete them.
- `remote.rs:72` says that after a hit the manifest is in the store; where an
  older manifest is there, even a dangling one, it is kept.
- `docs/superpowers/specs/2026-07-12-m2c-cache-incremental-design.md:164` says that
  for packages without a revision the contents of declared `input_file` and
  `input_dir` files are hashed, and line 272 plans a test for it;
  `owner_provenance` (`fingerprint.rs:71`) hashes the declarations only, so a
  changed file is a stale hit. `BuildsAreClean` excepts these modules
  (`InputsChanged`); without that exception TLC finds the stale build.
- `fingerprint.rs:6` says that one hash captures the whole transitive input closure, and
  the same design (line 91) calls the setup file the complete declaration of what a
  lean run depends on, `package` among it (line 102). `setup_inputs_bytes`
  (`fingerprint.rs:91`) leaves the package out, and `owner_provenance` does not tell
  two packages apart that have no revision and declare the same inputs. A module that moves
  between such packages, or all modules of a root package that is renamed, keep their
  fingerprints, and the next build links the artifacts lean made for the former package, for
  them and for what imports them. How much of an artifact depends on the package is up to
  lean, which is external here (`modPkgExt`, an entry of the fixtures such as
  `tests/fixtures/Sample.olean`, by its name records it); the model takes the
  setup file at its word. `BuildsAreClean` excepts these modules (`Moved`); without
  that exception TLC finds the stale build. For this gap and the one before, the
  exception for the layout ends where nothing is looked up: `--force` and `--no-cache`
  give clean artifacts (`StaleHit`).
- `lean_path_env` (`setup.rs:146`) lists the packages' directories in order, and
  nothing removes what earlier builds left there. When a module moves to a
  package later in the path, its old artifacts hide the new ones from indirect
  importers, and what lean makes of them is stored under the new fingerprint.
  `BuildsAreClean` excepts this too (`Hidden`), and fails without the exception.
- `validate_rev` lets tags and branches pass, which `verify_checkout` then always
  rejects, after the clone.

## 6. What is not modelled

The kernel checker and MetaM's reduction and unification (functions on
unbounded terms; the models take a task's verdict as given, and unification is
that of the small terms they need), the `.olean` reader, the parser, the formatter
and the CLI (pure functions of bytes or text), TOML and JSON parsing.

Inside modelled parts:

- Tables: members of a block that disagree about the block, and a decoded
  constant with the name of another's regenerated recursor; unsafe and partial
  constants, which both checks leave out; in `Replay` the recursion limit and
  duplicate theorems, which need a non-empty starting environment.
- Check, pools, store, source cache: contents of logs, progress lines and
  reports; zstd, AWS signatures and size limits of the remote; hard link
  versus copy; loss of power (a killed process keeps what it
  wrote); platforms without `flock`.
- Builds: the scanner's text, globs, the chunks in which a frontier is scanned (in
  parallel, with results in order), the refusal of precompiled modules, counts and
  diagnostics; edits during the build, and two builds of one workspace, which
  share the layout without a lock (hazards without a property).
- Synthesis: function symbols in goals, and with them goals that grow for ever
  (the code's heartbeat and size limits); priorities and local instances, for
  which every order of the table stands; the discrimination tree beyond a
  filter by argument; the synthesis result cache; synthetic opaque metavariables
  of the caller; universe levels.
- Ladder: overload resolution, saved level names and open declarations, local
  contexts, the postponement of implicit lambdas, universe constraints, the
  recursion limit; a resumed term always passes the occurs check. Errors are those
  the ladder may postpone, or seams, which it may not. A goal is a class on one
  type metavariable with at most one output.
- Levels: metavariables, which the kernel refuses and which behave as parameters
  here; `RecGuard`, which turns deep levels into an error; sharing of subtrees;
  the saturation of `to_offset` at 2^64; hashing.

## 7. Plan

Done: the two pools, the graph of the check, the sequential replay
against it, the module graph, the fingerprints and a whole build on the pool,
the store with its remote, the source cache; the type-class synthesis, the ladder, the
universe levels. Proved: the pool of the check with its verdict and its
refinement, that the graph of a table orders every lookup, replay's copies and what its
success means, that the pool rejects nothing that replay accepts, the pool of the build
with its refinement, that builds give what clean builds give, the store, the source
cache, that the synthesis delivers every answer once and records only what holds, the
order and completeness of the ladder's lists.

Left, in the order of what they are worth:

1. Proofs: of the synthesis, `TablesAreComplete`; of the ladder, `OneMVarPerPlace`; of
   the tables, `NoLaxerThanReplay`.
2. `Build`: edits during the build and two builds of one workspace, with the job
   in the steps of `ArtifactStore`.
3. `MetaCache`: assignments, checkpoints and the permanent and transient
   definitional-equality caches; a cached answer is one the current
   assignments justify.
4. `Subprocess` with the lake bridge; `DiscrTree` under `Synthesis`; `TermBank`.
