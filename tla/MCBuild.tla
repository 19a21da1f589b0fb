------------------------------- MODULE MCBuild -------------------------------
(***************************************************************************)
(* Workspaces for model checking a build: a package that has a dependency, *)
(* before and after each kind of change, with what builds of the former    *)
(* have left for a build of the latter.                                    *)
(***************************************************************************)
EXTENDS Build, MCBuildPool, TLC

MCInit == <<0>>

Source(text, imports) ==
    [text |-> text, imports |-> imports, prelude |-> FALSE, isModule |-> FALSE]

Package(name, rev) ==
    [name |-> name, rev |-> rev, options |-> << >>, decls |-> "none", inputs |-> "none"]

Unit(package, root, files) ==
    [package |-> package, root |-> root, options |-> << >>, files |-> files]

Top == <<1>>
Left == <<1, 1>>
Right == <<1, 2>>
Lib == <<2>>

\* The target imports two modules of its package; both import the
\* dependency's module, and one a module of the toolchain.
Before ==
    [toolchain |-> "t1",
     external  |-> {MCInit, <<9>>},
     packages  |-> <<[Package("app", NoRev) EXCEPT !.options = "o" :> 1], Package("dep", "r1")>>,
     units     |-> <<Unit("app", Top, Top :> Source("a", {Left, Right}) @@
                                      Left :> Source("b", {Lib}) @@
                                      Right :> Source("c", {Lib, <<9>>})),
                     Unit("dep", Lib, Lib :> Source("d", {}))>>,
     seeds     |-> {Top}]

NewText    == [Before EXCEPT !.units[2].files[Lib].text = "e"]
NewRev     == [Before EXCEPT !.packages[2].rev = "r2", !.packages[2].inputs = "new"]
NewOption  == [Before EXCEPT !.units[1].options = "o" :> 2]
NewKind    == [Before EXCEPT !.units[1].files[Left].isModule = TRUE]
FewerEdges == [Before EXCEPT !.units[1].files[Right].imports = {Left}]
NewTools   == [Before EXCEPT !.toolchain = "t2"]

\* A second library of the dependency, with a longer root, takes a module over.
Taken == [Before EXCEPT !.units = Append(@, Unit("dep", Left, Left :> Source("b2", {Lib})))]

\* The dependency's module was the package's own before: its artifacts are
\* still there, first in LEAN_PATH.
Inside == [Before EXCEPT !.units[2].package = "app"]

\* A declared file of the package itself has other contents.
Declared  == [Before EXCEPT !.packages[1].decls = "file", !.packages[1].inputs = "old"]
NewInputs == [Declared EXCEPT !.packages[1].inputs = "new"]

\* The dependency is a directory beside the package, and no options are set: nothing that
\* is hashed tells a module of one from a module of the other.  Then the dependency takes
\* a module over.
Local     == [Before EXCEPT !.packages[1].options = << >>, !.packages[2].rev = NoRev]
MovedOver == [Local EXCEPT !.units = Append(@, Unit("dep", Left, Left :> Source("b", {Lib})))]

\* A whole build of ws, except for the modules in S.
StoreOf(ws, S) ==
    LET ms == ModuleGraph(ws)
        fp == Fingerprints(ws, ms)
        kept == {i \in DOMAIN ms : ms[i].name \notin S}
    IN  [f \in {fp[i] : i \in kept} |-> CleanOutputs(ws, ms)[CHOOSE i \in kept : fp[i] = f]]

Dirs == {"app", "dep"} \X {Top, Left, Right, Lib}

LayoutOf(ws) ==
    LET ms == ModuleGraph(ws)
        at(d) == {i \in DOMAIN ms : PathOf(ms[i]) = d}
    IN  [d \in Dirs |-> IF at(d) = {} THEN NoArtifacts
                        ELSE CleanOutputs(ws, ms)[CHOOSE i \in at(d) : TRUE]]

Nothing == [d \in Dirs |-> NoArtifacts]

Plan(mode, ws, storeBefore, layoutBefore) ==
    [ws |-> ws, mode |-> mode, remote |-> << >>, store |-> storeBefore,
     layout |-> layoutBefore, changed |-> {}, moved |-> {}]

\* A build after a change, over all that a build before it has left.
After(old, new) == Plan("cached", new, StoreOf(old, {}), LayoutOf(old))

FpOf(ws, n) ==
    LET ms == ModuleGraph(ws)
    IN  Fingerprints(ws, ms)[CHOOSE i \in DOMAIN ms : ms[i].name = n]

\* The remote has the new version, except that one manifest is unusable.
Fetching ==
    [After(Before, NewText) EXCEPT
        !.remote = (FpOf(NewText, Left) :> Malformed) @@ StoreOf(NewText, {Lib})]

\* A store that has lost a manifest and holds an unusable one, and a layout
\* that a killed build has left half-written.
Damaged ==
    [After(Before, Before) EXCEPT
        !.store = (FpOf(Before, Right) :> Malformed) @@ StoreOf(Before, {Lib}),
        !.layout[<<"app", Left>>] = Partial]

\* All artifacts of the module that moves are those it had in the package.
AfterMove == [After(Local, MovedOver) EXCEPT !.moved = {Left}]

MCPlans ==
    {After(Before, Before), After(Before, NewText), After(Before, NewRev),
     After(Before, NewOption), After(Before, NewKind), After(Before, FewerEdges),
     After(Before, NewTools), After(Before, Taken), After(Inside, Before),
     [After(Declared, NewInputs) EXCEPT !.changed = {"app"}],
     [After(Before, NewText) EXCEPT !.mode = "forced"],
     [After(Before, NewText) EXCEPT !.mode = "uncached"],
     Fetching, Damaged, AfterMove,
     [AfterMove EXCEPT !.mode = "forced"], [AfterMove EXCEPT !.mode = "uncached"],
     Plan("cached", Before, << >>, Nothing)}

\* The builds whose stores and remotes the plans start with.
ASSUME PastAssumption == HonestPast({Before, Inside, Declared, NewText, Local})

\* The graphs of the workspaces, the ids of Top, Left, Right and Lib being 0 to 3.
Both == Graph(4, <<{1, 2}, {3}, {3}, {}>>)
InARow == Graph(4, <<{1, 2}, {3}, {1}, {}>>)

ASSUME PlansAssumption == \A p \in MCPlans : DepsOf(ModuleGraph(p.ws)) \in {Both, InARow}

BuildGraphs == MCGraphs \cup {Both, InARow}

=============================================================================
