------------------------------ MODULE Workspace ------------------------------
(***************************************************************************)
(* From a workspace to what is compiled: the resolution of module names    *)
(* and the import graph (graph.rs), the plan of one lean invocation        *)
(* (setup.rs) and the fingerprints of modules (fingerprint.rs), as         *)
(* operators on records.                                                   *)
(*                                                                         *)
(* A module name is the sequence of its components, and components are     *)
(* numbers in the order of the strings they stand for.  A workspace is     *)
(*   toolchain   what is ambient: toolchain, platform, version of leanr    *)
(*   external    the modules of the toolchain                              *)
(*   packages    the root package, then the manifest's, each with name,    *)
(*               rev, options, decls (what input_file and input_dir        *)
(*               declare) and inputs (what those files hold)               *)
(*   units       the roots of the libraries, in order, each with package,  *)
(*               root, options and files, the sources by module name       *)
(*   seeds       the modules of the targets                                *)
(* and a source has text, imports, prelude and isModule.                   *)
(***************************************************************************)
EXTENDS Naturals, Sequences, FiniteSets
LOCAL INSTANCE SequencesExt
LOCAL INSTANCE TLC

CONSTANTS InitName,     \* the module every other one imports
          NoRev         \* a package without a pinned revision

Candidates(ws, n) ==
    {u \in DOMAIN ws.units : IsPrefix(ws.units[u].root, n) /\ n \in DOMAIN ws.units[u].files}

\* The longest root that has the file, and the first of those.
Resolve(ws, n) ==
    CHOOSE u \in Candidates(ws, n) :
        \A v \in Candidates(ws, n) :
            \/ Len(ws.units[v].root) < Len(ws.units[u].root)
            \/ Len(ws.units[v].root) = Len(ws.units[u].root) /\ u <= v

SourceOf(ws, n) == ws.units[Resolve(ws, n)].files[n]

\* Every module that is not a prelude imports Init.
Imports(source) == source.imports \cup (IF source.prelude THEN {} ELSE {InitName})

\* One frontier of the walk: what is known is passed over, what resolves is
\* scanned, and the rest must come with the toolchain.
NextFrontier(ws, walk) ==
    LET fresh == walk.frontier \ walk.scanned
        found == {n \in fresh : Candidates(ws, n) # {}}
    IN  [scanned    |-> walk.scanned \cup found,
         frontier   |-> UNION {Imports(SourceOf(ws, n)) : n \in found},
         unresolved |-> walk.unresolved \cup ((fresh \ found) \ ws.external)]

Walk(ws) ==
    LET rounds == Cardinality(UNION {DOMAIN ws.units[u].files : u \in DOMAIN ws.units}) + 1
        after[k \in 0 .. rounds] ==
            IF k = 0 THEN [scanned |-> {}, frontier |-> ws.seeds, unresolved |-> {}]
            ELSE NextFrontier(ws, after[k - 1])
    IN  after[rounds]

\* The order of names.
Precedes(m, n) ==
    \E k \in DOMAIN n : /\ k <= Len(m) + 1
                        /\ SubSeq(m, 1, k - 1) = SubSeq(n, 1, k - 1)
                        /\ k <= Len(m) => m[k] < n[k]

\* The modules by id: ids follow the order of names, and only imports that
\* are modules of the workspace become edges.
ModuleGraph(ws) ==
    LET names == SetToSortSeq(Walk(ws).scanned, Precedes)
    IN  [i \in 0 .. Len(names) - 1 |->
            LET n == names[i + 1]
            IN  [name    |-> n,
                 unit    |-> Resolve(ws, n),
                 package |-> ws.units[Resolve(ws, n)].package,
                 source  |-> SourceOf(ws, n),
                 deps    |-> {d \in 0 .. Len(names) - 1 :
                                 names[d + 1] \in Imports(SourceOf(ws, n))}]]

\* The modules topo_waves gets to, wave after wave.
Reached(modules) ==
    LET upTo[k \in 0 .. Cardinality(DOMAIN modules)] ==
            IF k = 0 THEN {}
            ELSE LET done == upTo[k - 1]
                 IN  done \cup {i \in DOMAIN modules : modules[i].deps \subseteq done}
    IN  upTo[Cardinality(DOMAIN modules)]

\* resolve succeeds: no import is unknown, and none is cyclic.
Resolvable(ws) ==
    /\ Walk(ws).unresolved = {}
    /\ Reached(ModuleGraph(ws)) = DOMAIN ModuleGraph(ws)

\* What a workspace that resolves gives its callers: an acyclic graph, one id for each
\* name, and every module in a known package.
WellFormed(ws) ==
    LET modules == ModuleGraph(ws)
    IN  /\ Resolvable(ws)
        /\ IsFiniteSet(DOMAIN modules)
        /\ \A i \in DOMAIN modules :
               /\ modules[i].deps \subseteq DOMAIN modules
               /\ \E p \in DOMAIN ws.packages : ws.packages[p].name = modules[i].package
               /\ \A j \in DOMAIN modules : modules[i].name = modules[j].name => i = j

-----------------------------------------------------------------------------
(* What lean is told about a module, and the key its outputs are kept by.  *)

PackageOf(ws, m) ==
    ws.packages[CHOOSE p \in DOMAIN ws.packages : ws.packages[p].name = m.package]

\* The package's options, overlaid by those of the library.
ModuleOptions(ws, m) == ws.units[m.unit].options @@ PackageOf(ws, m).options

\* A revision stands for its checkout; other packages give what they declare.
OwnerProvenance(package) ==
    IF package.rev # NoRev THEN <<"rev", package.rev>> ELSE <<"inputs", package.decls>>

\* Mutation: only the module itself is hashed.
FingerprintsWithoutImports(ws, modules) ==
    [i \in DOMAIN modules |->
        [name       |-> modules[i].name,
         toolchain  |-> ws.toolchain,
         provenance |-> OwnerProvenance(PackageOf(ws, modules[i])),
         source     |-> modules[i].source,
         setup      |-> <<ModuleOptions(ws, modules[i]), modules[i].source.isModule>>,
         imports    |-> {}]]

\* A hash is the record of what is hashed: no two of them collide.
Fingerprints(ws, modules) ==
    LET fp[i \in DOMAIN modules] ==
            [name       |-> modules[i].name,
             toolchain  |-> ws.toolchain,
             provenance |-> OwnerProvenance(PackageOf(ws, modules[i])),
             source     |-> modules[i].source,
             setup      |-> <<ModuleOptions(ws, modules[i]), modules[i].source.isModule>>,
             imports    |-> {<<modules[d].name, fp[d]>> : d \in modules[i].deps}]
    IN  fp

\* LEAN_PATH, a directory for each package.
LeanPath(ws) == [p \in DOMAIN ws.packages |-> ws.packages[p].name]

=============================================================================
