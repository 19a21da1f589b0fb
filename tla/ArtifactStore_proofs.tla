------------------------- MODULE ArtifactStore_proofs -------------------------
(***************************************************************************)
(* Proofs about the artifact store for any number of processes, any        *)
(* fingerprints, blobs and arity, any number of operations and kills, and  *)
(* any remote and any store at first.                                      *)
(***************************************************************************)
EXTENDS ArtifactStore, SequenceTheorems, TLAPS

-----------------------------------------------------------------------------
(* The inductive invariant: what is shared.                                *)

\* The blob is in the store, or some gc has taken it.
Stored(h) == file[BlobPath(h)] # NoFile \/ h \in collected

\* The fingerprint serves a build, unless a gc takes its blobs.
Complete(f) ==
    /\ Filed(f)
    /\ Len(file[ManifestPath(f)]) = Arity
    /\ \A i \in 1 .. Len(file[ManifestPath(f)]) : Stored(file[ManifestPath(f)][i])

Temporaries == [data : Manifests \cup Blobs \cup {Torn}, readonly : BOOLEAN]

FilesInv ==
    /\ file \in [Paths -> Manifests \cup Blobs \cup {NoFile, Torn}]
    /\ \A h \in Blobs : file[BlobPath(h)] \in {h, NoFile}
    /\ \A f \in Fps : file[ManifestPath(f)] \in Manifests \cup {NoFile}
    /\ tmp \in [Paths -> Temporaries \cup {NoFile}]
    /\ lock \in [Paths -> Procs \cup {NoProc}]
    /\ remote \in RemoteShape

ManifestsInv ==
    \A f \in Fps : Filed(f) =>
        \A i \in 1 .. Len(file[ManifestPath(f)]) :
            Stored(file[ManifestPath(f)][i]) \/ file[ManifestPath(f)][i] \in lost

HistoryInv ==
    /\ tripped \subseteq Procs /\ collected \subseteq Blobs /\ lost \subseteq Blobs
    /\ budget \in 0 .. MaxOps /\ kills \in 0 .. MaxKills

SharedInv == FilesInv /\ ManifestsInv /\ HistoryInv

-----------------------------------------------------------------------------
(* The inductive invariant: what a process rests on.                       *)

Runs == [pc : Places, op : Ops \cup {"none"}, fp : Fps, man : Manifests, k : Nat \ {0},
         target : Paths \cup {<< >>}, again : BOOLEAN, call : {"none", "fetch", "insert"},
         doomed : SUBSET Blobs, result : Results, dest : Manifests]

RunsInv == run \in [Procs -> Runs]

Locked == {"open", "fill", "chmod", "rename"}
Writing == {"lock"} \cup Locked
Collecting == {"dedup", "getBlob", "store"} \cup Writing

\* The slot at hand is one of the manifest's, or the one after the last.
SlotInv(p) ==
    /\ run[p].k <= Len(run[p].man) + 1
    /\ run[p].pc \in {"getBlob", "putBlob"} => run[p].k <= Len(run[p].man)
    /\ run[p].pc \in Writing =>
           \/ run[p].target = ManifestPath(run[p].fp) /\ run[p].k = Len(run[p].man) + 1
           \/ run[p].k <= Len(run[p].man) /\ run[p].target = BlobPath(run[p].man[run[p].k])

\* Whoever writes beside a path holds its lock, and will not replace a file,
\* unless it is the manifest of an insert.
HolderInv(p) ==
    run[p].pc \in Locked =>
        /\ lock[run[p].target] = p
        /\ \/ file[run[p].target] = NoFile
           \/ run[p].target = ManifestPath(run[p].fp) /\ run[p].call = "insert"

\* A temporary file that is about to be renamed is whole.
TemporaryInv(p) ==
    /\ run[p].pc \in {"fill", "chmod", "rename"} => tmp[run[p].target] \in Temporaries
    /\ run[p].pc \in {"chmod", "rename"} =>
           tmp[run[p].target].data = IF run[p].target = ManifestPath(run[p].fp)
                                     THEN run[p].man ELSE run[p].man[run[p].k]

\* Blobs first, manifest last; and a lookup has seen the blobs it has passed.
PrefixInv(p) ==
    run[p].pc \in Collecting \cup {"probe"} =>
        \A i \in 1 .. run[p].k - 1 : Stored(run[p].man[i])

\* Who inserts, inserts what lean wrote.
InsertInv(p) ==
    /\ run[p].pc \in {"dedup", "getBlob"} => run[p].call = "fetch"
    /\ run[p].pc = "store" => run[p].call = "insert"
    /\ run[p].pc \in Writing => run[p].call \in {"fetch", "insert"}
    /\ run[p].pc \in {"store"} \cup Writing /\ run[p].call = "insert" =>
           run[p].man \in Outputs[run[p].fp] /\ run[p].dest = run[p].man

\* What a lookup has read is still there, or has given way to an insert.
LookupInv(p) ==
    run[p].pc = "probe" => file[ManifestPath(run[p].fp)] = run[p].man \/ Complete(run[p].fp)

\* Before lean runs or a blob is linked, the layout is empty.
LayoutInv(p) ==
    \/ run[p].pc \in {"lookup", "probe", "getManifest", "dedup", "getBlob", "lean"}
    \/ run[p].pc \in Writing /\ run[p].call = "fetch"
    => run[p].dest = << >>

\* What is linked was found whole, and is linked in order.
LinkInv(p) ==
    run[p].pc = "link" =>
        /\ \A i \in 1 .. Len(run[p].man) : Stored(run[p].man[i])
        /\ Len(run[p].man) = Arity
        /\ Complete(run[p].fp)
        /\ Len(run[p].dest) = run[p].k - 1
        /\ \A i \in 1 .. run[p].k - 1 : run[p].dest[i] = run[p].man[i]

\* What a push has passed is on the remote.
PushInv(p) ==
    /\ run[p].pc \in {"headBlob", "putBlob"} =>
           \A i \in 1 .. run[p].k - 1 : remote.blobs[run[p].man[i]] # "absent"
    /\ run[p].pc = "putManifest" =>
           \A i \in 1 .. Len(run[p].man) : remote.blobs[run[p].man[i]] # "absent"
    /\ run[p].pc = "headManifest" => run[p].k = 1

ResultInv(p) ==
    /\ run[p].pc # "idle" => run[p].result = "none"
    /\ run[p].result = "linkFailed" => collected # {}
    /\ Succeeded(p) => Complete(run[p].fp)
    /\ run[p].result = "built" => run[p].dest \in Outputs[run[p].fp]

ProcInv(p) ==
    /\ SlotInv(p) /\ HolderInv(p) /\ TemporaryInv(p) /\ PrefixInv(p) /\ InsertInv(p)
    /\ LookupInv(p) /\ LayoutInv(p) /\ LinkInv(p) /\ PushInv(p) /\ ResultInv(p)

IndInv == SharedInv /\ RunsInv /\ \A p \in Procs : ProcInv(p)

-----------------------------------------------------------------------------
(* What is handed out by others is honest: a manifest of the right arity   *)
(* is one that lean could have written for its fingerprint.                *)

Honest(f, m) == m \in Manifests /\ Len(m) = Arity => m \in Outputs[f]

HonestSources ==
    /\ \A r \in Remotes : \A f \in Fps : Honest(f, r.manifests[f])
    /\ \A s \in Stores : \A f \in Fps : Honest(f, s[ManifestPath(f)])

HonestInv ==
    /\ \A f \in Fps : Honest(f, file[ManifestPath(f)]) /\ Honest(f, remote.manifests[f])
    /\ \A p \in Procs : Honest(run[p].fp, run[p].man)
    /\ \A p \in Procs : Succeeded(p) => run[p].dest \in Outputs[run[p].fp]

-----------------------------------------------------------------------------
(* Paths, and how a process moves. *)

LEMMA PathsDiffer ==
    /\ \A h \in Blobs : BlobPath(h) \in Paths
    /\ \A f \in Fps : ManifestPath(f) \in Paths
    /\ \A h \in Blobs, f \in Fps : BlobPath(h) # ManifestPath(f)
    /\ \A g, h \in Blobs : g # h => BlobPath(g) # BlobPath(h)
    /\ \A f, g \in Fps : f # g => ManifestPath(f) # ManifestPath(g)
    /\ \A f \in Fps : ManifestPath(f) # << >>
    /\ \A h \in Blobs : BlobPath(h) # << >>
  BY DEF Paths, BlobPath, ManifestPath

LEMMA EmptyManifest == << >> \in Manifests
  BY DEF Manifests

LEMMA RunTypes ==
    ASSUME RunsInv, NEW p \in Procs
    PROVE  /\ run[p] \in Runs /\ run[p].pc \in Places /\ run[p].op \in Ops \cup {"none"}
           /\ run[p].fp \in Fps /\ run[p].man \in Manifests /\ run[p].k \in Nat \ {0}
           /\ run[p].target \in Paths \cup {<< >>} /\ run[p].again \in BOOLEAN
           /\ run[p].call \in {"none", "fetch", "insert"} /\ run[p].doomed \in SUBSET Blobs
           /\ run[p].result \in Results /\ run[p].dest \in Manifests
           /\ Len(run[p].man) \in Nat /\ Len(run[p].dest) \in Nat
<1>1. run[p] \in Runs
  BY DEF RunsInv
<1> QED BY <1>1 DEF Runs, Manifests

\* Only process p moves.
Moves(p) == RunsInv' /\ \A q \in Procs \ {p} : run'[q] = run[q]

Keeps(p) ==
    /\ run'[p].op = run[p].op /\ run'[p].fp = run[p].fp /\ run'[p].man = run[p].man
    /\ run'[p].again = run[p].again /\ run'[p].call = run[p].call
    /\ run'[p].doomed = run[p].doomed /\ run'[p].result = run[p].result
    /\ run'[p].dest = run[p].dest

LEMMA RunMoves ==
    ASSUME RunsInv, NEW p \in Procs, NEW r \in Runs, run' = [run EXCEPT ![p] = r]
    PROVE  Moves(p) /\ run'[p] = r
  BY DEF RunsInv, Moves

LEMMA ReadMoves ==
    ASSUME RunsInv, NEW p \in Procs, NEW l \in Places, NEW m \in Manifests,
           NEW k \in Nat \ {0}, k = 1,
           run' = [run EXCEPT ![p].pc = l, ![p].man = m, ![p].k = 1]
    PROVE  /\ Moves(p) /\ run'[p].pc = l /\ run'[p].man = m /\ run'[p].k = 1
           /\ run'[p].fp = run[p].fp /\ run'[p].dest = run[p].dest
           /\ run'[p].result = run[p].result /\ run'[p].call = run[p].call
           /\ run'[p].op = run[p].op
<1> DEFINE r == [run[p] EXCEPT !.pc = l, !.man = m, !.k = k]
<1>1. r \in Runs
  BY RunTypes DEF Runs
<1>2. run' = [run EXCEPT ![p] = r]
  BY RunTypes DEF Runs
<1>3. Moves(p) /\ run'[p] = r
  BY <1>1, <1>2, RunMoves
<1>4. /\ r.pc = l /\ r.man = m /\ r.k = k /\ r.fp = run[p].fp /\ r.dest = run[p].dest
      /\ r.result = run[p].result /\ r.call = run[p].call /\ r.op = run[p].op
  BY RunTypes DEF Runs
<1> HIDE DEF r
<1> QED BY <1>3, <1>4

LEMMA GotoMoves ==
    ASSUME RunsInv, NEW p \in Procs, NEW l \in Places, Goto(p, l)
    PROVE  /\ Moves(p) /\ Keeps(p)
           /\ run'[p].pc = l /\ run'[p].k = run[p].k /\ run'[p].target = run[p].target
<1> DEFINE r == [run[p] EXCEPT !.pc = l]
<1>1. r \in Runs
  BY RunTypes DEF Runs
<1>2. run' = [run EXCEPT ![p] = r]
  BY DEF Goto
<1>3. Moves(p) /\ run'[p] = r
  BY <1>1, <1>2, RunMoves
<1> QED BY <1>3, RunTypes DEF Keeps, Runs

LEMMA GotoSlotMoves ==
    ASSUME RunsInv, NEW p \in Procs, NEW l \in Places, NEW k \in Nat \ {0}, GotoSlot(p, l, k)
    PROVE  /\ Moves(p) /\ Keeps(p)
           /\ run'[p].pc = l /\ run'[p].k = k /\ run'[p].target = run[p].target
<1> DEFINE r == [run[p] EXCEPT !.pc = l, !.k = k]
<1>1. r \in Runs
  BY RunTypes DEF Runs
<1>2. run' = [run EXCEPT ![p] = r]
  BY RunTypes DEF GotoSlot, Runs
<1>3. Moves(p) /\ run'[p] = r
  BY <1>1, <1>2, RunMoves
<1> QED BY <1>3, RunTypes DEF Keeps, Runs

LEMMA GotoWriteMoves ==
    ASSUME RunsInv, NEW p \in Procs, NEW path \in Paths, GotoWrite(p, path)
    PROVE  /\ Moves(p) /\ Keeps(p)
           /\ run'[p].pc = "lock" /\ run'[p].k = run[p].k /\ run'[p].target = path
<1> DEFINE r == [run[p] EXCEPT !.pc = "lock", !.target = path]
<1>1. r \in Runs
  BY RunTypes DEF Runs, Places
<1>2. run' = [run EXCEPT ![p] = r]
  BY RunTypes DEF GotoWrite, Runs
<1>3. Moves(p) /\ run'[p] = r
  BY <1>1, <1>2, RunMoves
<1> QED BY <1>3, RunTypes DEF Keeps, Runs

LEMMA FinishMoves ==
    ASSUME RunsInv, NEW p \in Procs, NEW result \in Results, NEW dest \in Manifests,
           Finish(p, result, dest)
    PROVE  /\ Moves(p)
           /\ run'[p] = Idle(run[p].op, run[p].fp, result, dest)
           /\ run'[p].pc = "idle" /\ run'[p].k = 1 /\ run'[p].man = << >>
           /\ run'[p].fp = run[p].fp /\ run'[p].result = result /\ run'[p].dest = dest
<1>1. Idle(run[p].op, run[p].fp, result, dest) \in Runs
  BY RunTypes DEF Idle, Runs, Places, Manifests
<1>2. Moves(p) /\ run'[p] = Idle(run[p].op, run[p].fp, result, dest)
  BY <1>1, RunMoves DEF Finish
<1> QED BY <1>2 DEF Idle

-----------------------------------------------------------------------------
(* What a step may do to what other processes rest on. *)

Respects(p) ==
    /\ \A h \in Blobs : Stored(h) => Stored(h)'
    /\ \A h \in Blobs : remote.blobs[h] # "absent" => remote'.blobs[h] # "absent"
    /\ \A f \in Fps : Filed(f) => Filed(f)' /\ (file'[ManifestPath(f)] = file[ManifestPath(f)]
                                                \/ Complete(f)')
    /\ \A path \in Paths : lock[path] \in Procs \ {p} =>
           /\ lock'[path] = lock[path] /\ tmp'[path] = tmp[path]
           /\ file'[path] \in {file[path], NoFile}
    /\ collected \subseteq collected'

LEMMA CompleteStays ==
    ASSUME FilesInv, NEW p, Respects(p), NEW f \in Fps, Complete(f)
    PROVE  Complete(f)'
<1>1. Filed(f) /\ Filed(f)'
  BY DEF Complete, Respects
<1>2. CASE file'[ManifestPath(f)] = file[ManifestPath(f)]
  <2>1. file[ManifestPath(f)] \in Seq(Blobs)
    BY <1>1 DEF FilesInv, Filed, Manifests
  <2>2. \A i \in 1 .. Len(file[ManifestPath(f)]) : file[ManifestPath(f)][i] \in Blobs
    BY <2>1
  <2>3. \A i \in 1 .. Len(file[ManifestPath(f)]) : Stored(file[ManifestPath(f)][i])'
    BY <1>2, <2>2 DEF Complete, Respects
  <2> QED BY <1>1, <1>2, <2>3 DEF Complete
<1> QED BY <1>1, <1>2 DEF Respects

\* A step of p that respects them leaves the others what they rest on.
LEMMA OthersStay ==
    ASSUME FilesInv, RunsInv, NEW p \in Procs, NEW q \in Procs \ {p}, run'[q] = run[q],
           ProcInv(q), Respects(p)
    PROVE  ProcInv(q)'
<1> USE RunTypes, PathsDiffer DEF ProcInv
<1>1. \A i \in 1 .. Len(run[q].man) : run[q].man[i] \in Blobs
  BY DEF Manifests
<1>2. SlotInv(q)'
  BY DEF SlotInv
<1>3. run[q].pc \in Writing => run[q].target \in Paths
  BY <1>1 DEF SlotInv
<1>4. HolderInv(q)' /\ TemporaryInv(q)'
  <2>1. CASE run[q].pc \in Locked
    <3>1. lock[run[q].target] \in Procs \ {p} /\ run[q].target \in Paths
      BY <1>3, <2>1 DEF HolderInv, Writing
    <3>2. /\ lock'[run[q].target] = lock[run[q].target]
          /\ tmp'[run[q].target] = tmp[run[q].target]
          /\ file'[run[q].target] \in {file[run[q].target], NoFile}
      BY <3>1 DEF Respects
    <3>3. HolderInv(q)'
      BY <2>1, <3>2 DEF HolderInv
    <3>4. TemporaryInv(q)'
      BY <2>1, <3>2 DEF TemporaryInv
    <3> QED BY <3>3, <3>4
  <2>2. CASE run[q].pc \notin Locked
    BY <2>2 DEF HolderInv, TemporaryInv, Locked
  <2> QED BY <2>1, <2>2
<1>5. PrefixInv(q)'
  <2>1. \A i \in 1 .. run[q].k - 1 : i \in 1 .. Len(run[q].man)
    BY DEF SlotInv
  <2> QED BY <1>1, <2>1 DEF PrefixInv, Respects
<1>6. InsertInv(q)' /\ LayoutInv(q)'
  BY DEF InsertInv, LayoutInv
<1>7. LookupInv(q)'
  <2>1. CASE file[ManifestPath(run[q].fp)] = run[q].man
    <3>1. Filed(run[q].fp)
      BY <2>1, StoreAssumption DEF Filed
    <3> QED BY <2>1, <3>1 DEF LookupInv, Respects
  <2>2. CASE Complete(run[q].fp)
    BY <2>2, CompleteStays DEF LookupInv
  <2> QED BY <2>1, <2>2 DEF LookupInv
<1>8. LinkInv(q)'
  BY <1>1, CompleteStays DEF LinkInv, Respects
<1>9. PushInv(q)'
  <2>1. \A i \in 1 .. run[q].k - 1 : i \in 1 .. Len(run[q].man)
    BY DEF SlotInv
  <2> QED BY <1>1, <2>1 DEF PushInv, Respects
<1>10. ResultInv(q)'
  BY CompleteStays DEF ResultInv, Succeeded, Respects
<1> QED BY <1>2, <1>4, <1>5, <1>6, <1>7, <1>8, <1>9, <1>10

\* Who is left to look at: what is shared, and the process itself.
LEMMA ProcessStep ==
    ASSUME IndInv, NEW p \in Procs, Moves(p), Respects(p), SharedInv', ProcInv(p)'
    PROVE  IndInv'
<1>1. \A q \in Procs \ {p} : ProcInv(q)'
  BY OthersStay DEF IndInv, SharedInv, Moves
<1> QED BY <1>1 DEF IndInv, Moves

\* A step that leaves the files and the remote alone.
LEMMA QuietStep ==
    ASSUME IndInv, NEW p \in Procs, Moves(p),
           UNCHANGED <<storeVars, remote, collected, lost>>,
           tripped' \subseteq Procs, budget' \in 0 .. MaxOps, kills' \in 0 .. MaxKills,
           ProcInv(p)'
    PROVE  IndInv'
<1>1. SharedInv'
  <2>1. FilesInv'
    BY DEF IndInv, SharedInv, FilesInv, storeVars
  <2>2. ManifestsInv'
    BY DEF IndInv, SharedInv, ManifestsInv, storeVars, Filed, Stored
  <2>3. HistoryInv'
    BY DEF IndInv, SharedInv, HistoryInv
  <2> QED BY <2>1, <2>2, <2>3 DEF SharedInv
<1>2. Respects(p)
  BY DEF Respects, Stored, Filed, storeVars
<1> QED BY <1>1, <1>2, ProcessStep

-----------------------------------------------------------------------------
(* Steps that end an operation or lead to a place that rests on little.    *)

LEMMA CalmPlace ==
    ASSUME NEW p \in Procs,
           run'[p].pc \in {"lookup", "getManifest", "lean", "walk", "sweep"},
           run'[p].pc \in {"lookup", "getManifest", "lean"} => run'[p].dest = << >>,
           run'[p].result = "none", run'[p].k <= Len(run'[p].man) + 1
    PROVE  ProcInv(p)'
<1> USE DEF Writing, Locked, Collecting
<1>1. SlotInv(p)' /\ HolderInv(p)' /\ TemporaryInv(p)' /\ PrefixInv(p)' /\ InsertInv(p)'
  BY DEF SlotInv, HolderInv, TemporaryInv, PrefixInv, InsertInv
<1>2. LookupInv(p)' /\ LayoutInv(p)' /\ LinkInv(p)' /\ PushInv(p)' /\ ResultInv(p)'
  BY DEF LookupInv, LayoutInv, LinkInv, PushInv, ResultInv, Succeeded
<1> QED BY <1>1, <1>2 DEF ProcInv

Successes == {"built", "cached", "downloaded"}

LEMMA FinishStep ==
    ASSUME RunsInv, NEW p \in Procs, NEW result \in Results, NEW dest \in Manifests,
           Finish(p, result, dest),
           result = "linkFailed" => collected' # {},
           result \in Successes => \A f \in {run[p].fp} : Complete(f)',
           result = "built" => dest \in Outputs[run[p].fp]
    PROVE  Moves(p) /\ ProcInv(p)'
<1> USE DEF Writing, Locked, Collecting
<1>1. /\ Moves(p) /\ run'[p].pc = "idle" /\ run'[p].k = 1 /\ run'[p].man = << >>
      /\ run'[p].fp = run[p].fp /\ run'[p].result = result /\ run'[p].dest = dest
  BY FinishMoves
<1>2. SlotInv(p)' /\ HolderInv(p)' /\ TemporaryInv(p)' /\ PrefixInv(p)' /\ InsertInv(p)'
  BY <1>1 DEF SlotInv, HolderInv, TemporaryInv, PrefixInv, InsertInv
<1>3. LookupInv(p)' /\ LayoutInv(p)' /\ LinkInv(p)' /\ PushInv(p)'
  BY <1>1 DEF LookupInv, LayoutInv, LinkInv, PushInv
<1>4. ResultInv(p)'
  BY <1>1 DEF ResultInv, Succeeded, Successes
<1> QED BY <1>1, <1>2, <1>3, <1>4 DEF ProcInv

\* An end that claims nothing.
LEMMA GiveUpStep ==
    ASSUME RunsInv, NEW p \in Procs, NEW result \in Results \ (Successes \cup {"linkFailed"}),
           NEW dest \in Manifests, Finish(p, result, dest)
    PROVE  Moves(p) /\ ProcInv(p)'
<1>1. result \in Results /\ result \notin Successes /\ result # "linkFailed" /\ result # "built"
  BY DEF Successes
<1> QED BY <1>1, FinishStep

LEMMA EndFetchStep ==
    ASSUME RunsInv, NEW p \in Procs, SlotInv(p), run[p].dest = << >>, run[p].result = "none",
           NEW outcome \in {"fetched", "missing", "degraded"}, EndFetch(p, outcome)
    PROVE  Moves(p) /\ ProcInv(p)'
<1>1. CASE Goto(p, "lean")
  BY <1>1, GotoMoves, CalmPlace DEF Places, Keeps, SlotInv
<1>2. CASE Finish(p, outcome, << >>)
  <2>1. outcome \in Results \ (Successes \cup {"linkFailed"})
    BY DEF Results, Successes
  <2> QED BY <1>2, <2>1, EmptyManifest, GiveUpStep
<1>3. CASE run' = [run EXCEPT ![p].pc = "lookup", ![p].again = TRUE]
  <2> DEFINE r == [run[p] EXCEPT !.pc = "lookup", !.again = TRUE]
  <2>1. r \in Runs
    BY RunTypes DEF Runs, Places
  <2>2. run' = [run EXCEPT ![p] = r]
    BY <1>3, RunTypes DEF Runs
  <2>3. Moves(p) /\ run'[p] = r
    BY <2>1, <2>2, RunMoves
  <2>4. /\ r.pc = "lookup" /\ r.dest = << >> /\ r.result = "none"
        /\ r.k = run[p].k /\ r.man = run[p].man
    BY RunTypes DEF Runs
  <2> QED BY <2>3, <2>4, CalmPlace DEF SlotInv
<1> QED BY <1>1, <1>2, <1>3 DEF EndFetch

LEMMA MissedStep ==
    ASSUME RunsInv, NEW p \in Procs, SlotInv(p), run[p].dest = << >>, run[p].result = "none",
           Missed(p)
    PROVE  Moves(p) /\ ProcInv(p)'
<1>1. ASSUME NEW l \in {"getManifest", "lean"}, Goto(p, l) PROVE Moves(p) /\ ProcInv(p)'
  BY <1>1, GotoMoves, CalmPlace DEF Places, Keeps, SlotInv
<1>2. CASE Finish(p, "nothing", << >>)
  <2>1. "nothing" \in Results \ (Successes \cup {"linkFailed"})
    BY DEF Results, Successes
  <2> QED BY <1>2, <2>1, EmptyManifest, GiveUpStep
<1> QED BY <1>1, <1>2 DEF Missed

-----------------------------------------------------------------------------
(* The lookup. *)

LEMMA StartStep ==
    ASSUME IndInv, NEW p \in Procs, Start(p)
    PROVE  IndInv'
<1>1. PICK op \in Ops, f \in Fps : \E l \in FirstPlaces(op) :
          run' = [run EXCEPT ![p] = [Idle(op, f, "none", << >>) EXCEPT !.pc = l]]
  BY DEF Start
<1>2. PICK l \in FirstPlaces(op) :
          run' = [run EXCEPT ![p] = [Idle(op, f, "none", << >>) EXCEPT !.pc = l]]
  BY <1>1
<1>3. l \in {"walk", "lookup", "lean"}
  BY DEF FirstPlaces
<1> DEFINE r == [Idle(op, f, "none", << >>) EXCEPT !.pc = l]
<1>4. r \in Runs /\ r.pc = l /\ r.dest = << >> /\ r.result = "none" /\ r.k = 1 /\ r.man = << >>
  <2>1. l \in Places /\ "none" \in Results /\ "idle" \in Places
    BY <1>3 DEF Places, Results
  <2>2. Idle(op, f, "none", << >>) \in Runs
    BY <2>1, EmptyManifest DEF Idle, Runs
  <2>3. r \in Runs
    BY <2>1, <2>2 DEF Runs
  <2> QED BY <2>3 DEF Idle
<1>5. Moves(p) /\ run'[p] = r
  <2>1. run' = [run EXCEPT ![p] = r]
    BY <1>2
  <2> QED BY <1>4, <2>1, RunMoves DEF IndInv
<1>6. ProcInv(p)'
  <2> HIDE DEF r
  <2> QED BY <1>3, <1>4, <1>5, CalmPlace
<1>7. UNCHANGED <<storeVars, remote, tripped, collected, lost, kills>> /\ budget > 0
      /\ budget' = budget - 1
  BY DEF Start
<1> QED BY <1>5, <1>6, <1>7, QuietStep, StoreAssumption DEF IndInv, SharedInv, HistoryInv

LEMMA LookupStep ==
    ASSUME IndInv, NEW p \in Procs, Lookup(p)
    PROVE  IndInv'
<1> USE DEF IndInv, SharedInv
<1>1. /\ UNCHANGED <<storeVars, remote, tripped, worldVars>>
      /\ run[p].pc = "lookup" /\ run[p].dest = << >> /\ run[p].result = "none" /\ SlotInv(p)
  BY DEF Lookup, At, ProcInv, LayoutInv, ResultInv
<1>2. CASE Missed(p)
  BY <1>1, <1>2, MissedStep, QuietStep DEF HistoryInv, worldVars
<1>3. ASSUME NEW m, m = file[ManifestPath(run[p].fp)], m \notin {NoFile, Torn},
             run' = [run EXCEPT ![p].pc = "probe", ![p].man = m, ![p].k = 1]
      PROVE  IndInv'
  <2>1. m \in Manifests
    BY <1>3, RunTypes DEF FilesInv
  <2>2. "probe" \in Places
    BY DEF Places
  <2>3. /\ Moves(p) /\ run'[p].pc = "probe" /\ run'[p].man = m /\ run'[p].k = 1
        /\ run'[p].fp = run[p].fp /\ run'[p].dest = << >> /\ run'[p].result = "none"
    BY <1>1, <1>3, <2>1, <2>2, 1 \in Nat \ {0}, ReadMoves
  <2>4. Len(m) \in Nat
    BY <2>1 DEF Manifests
  <2> USE DEF Writing, Locked, Collecting
  <2>5. SlotInv(p)' /\ HolderInv(p)' /\ TemporaryInv(p)' /\ PrefixInv(p)' /\ InsertInv(p)'
    BY <2>3, <2>4 DEF SlotInv, HolderInv, TemporaryInv, PrefixInv, InsertInv
  <2>6. LookupInv(p)'
    BY <1>1, <1>3, <2>3 DEF LookupInv, storeVars
  <2>7. LayoutInv(p)' /\ LinkInv(p)' /\ PushInv(p)' /\ ResultInv(p)'
    BY <2>3 DEF LayoutInv, LinkInv, PushInv, ResultInv, Succeeded
  <2>8. ProcInv(p)'
    BY <2>5, <2>6, <2>7 DEF ProcInv
  <2> QED BY <1>1, <2>3, <2>8, QuietStep DEF HistoryInv, worldVars
<1> QED BY <1>2, <1>3 DEF Lookup

\* A lookup that has seen all blobs of what it read: that is still filed and
\* whole, or an insert has put a whole one in its place.
LEMMA ProbeStep ==
    ASSUME IndInv, NEW p \in Procs, Probe(p)
    PROVE  IndInv'
<1> USE DEF IndInv, SharedInv
<1>1. /\ UNCHANGED <<storeVars, remote, tripped, worldVars>>
      /\ run[p].pc = "probe" /\ run[p].dest = << >> /\ run[p].result = "none" /\ SlotInv(p)
      /\ \A i \in 1 .. run[p].k - 1 : Stored(run[p].man[i])
      /\ file[ManifestPath(run[p].fp)] = run[p].man \/ Complete(run[p].fp)
  BY DEF Probe, At, ProcInv, LayoutInv, ResultInv, PrefixInv, LookupInv
<1>2. CASE Missed(p)
  BY <1>1, <1>2, MissedStep, QuietStep DEF HistoryInv, worldVars
<1> USE DEF Writing, Locked, Collecting
<1>3. \A h : Stored(h)' <=> Stored(h)
  BY <1>1 DEF Stored, storeVars, worldVars
<1>4. \A f : Complete(f)' <=> Complete(f)
  BY <1>1 DEF Complete, Filed, Stored, storeVars, worldVars
<1>5. CASE ~AllSlots(p) /\ file[BlobPath(Blob(p))] # NoFile /\ GotoSlot(p, "probe", run[p].k + 1)
  <2>1. run[p].k + 1 \in Nat \ {0} /\ run[p].k <= Len(run[p].man)
    BY <1>5, RunTypes DEF AllSlots
  <2>2. /\ Moves(p) /\ Keeps(p) /\ run'[p].pc = "probe" /\ run'[p].k = run[p].k + 1
    BY <1>5, <2>1, GotoSlotMoves DEF Places
  <2>3. SlotInv(p)' /\ HolderInv(p)' /\ TemporaryInv(p)' /\ InsertInv(p)'
    BY <2>1, <2>2, RunTypes DEF SlotInv, HolderInv, TemporaryInv, InsertInv, Keeps
  <2>4. PrefixInv(p)'
    BY <1>1, <1>3, <1>5, <2>1, <2>2, RunTypes DEF PrefixInv, Keeps, Stored, Blob
  <2>5. LookupInv(p)'
    BY <1>1, <1>4, <2>2 DEF LookupInv, Keeps, storeVars
  <2>6. LayoutInv(p)' /\ LinkInv(p)' /\ PushInv(p)' /\ ResultInv(p)'
    BY <1>1, <2>2 DEF LayoutInv, LinkInv, PushInv, ResultInv, Succeeded, Keeps
  <2>7. ProcInv(p)'
    BY <2>3, <2>4, <2>5, <2>6 DEF ProcInv
  <2> QED BY <1>1, <2>2, <2>7, QuietStep DEF HistoryInv, worldVars
<1>6. CASE AllSlots(p) /\ Found(p)
  <2>1. run[p].k = Len(run[p].man) + 1
    BY <1>1, <1>6, RunTypes DEF AllSlots, SlotInv
  <2>2. CASE Finish(p, "local", << >>)
    <3>1. "local" \in Results \ (Successes \cup {"linkFailed"})
      BY DEF Results, Successes
    <3>2. Moves(p) /\ ProcInv(p)'
      BY <2>2, <3>1, EmptyManifest, GiveUpStep
    <3> QED BY <1>1, <3>2, QuietStep DEF HistoryInv, worldVars
  <2>3. CASE Goto(p, "lean")
    <3>1. Moves(p) /\ ProcInv(p)'
      BY <1>1, <2>3, GotoMoves, CalmPlace DEF Places, Keeps, SlotInv
    <3> QED BY <1>1, <3>1, QuietStep DEF HistoryInv, worldVars
  <2>4. CASE GotoSlot(p, "headManifest", 1)
    <3>1. /\ Moves(p) /\ Keeps(p) /\ run'[p].pc = "headManifest" /\ run'[p].k = 1
      BY <2>4, GotoSlotMoves DEF Places
    <3>2. SlotInv(p)' /\ HolderInv(p)' /\ TemporaryInv(p)' /\ InsertInv(p)' /\ PrefixInv(p)'
      BY <3>1, RunTypes DEF SlotInv, HolderInv, TemporaryInv, InsertInv, PrefixInv, Keeps
    <3>3. LookupInv(p)' /\ LayoutInv(p)' /\ LinkInv(p)' /\ PushInv(p)' /\ ResultInv(p)'
      BY <1>1, <3>1 DEF LookupInv, LayoutInv, LinkInv, PushInv, ResultInv, Succeeded, Keeps
    <3> QED BY <1>1, <3>1, <3>2, <3>3, QuietStep DEF ProcInv, HistoryInv, worldVars
  <2>5. CASE Len(run[p].man) = Arity /\ GotoSlot(p, "link", 1)
    <3>1. /\ Moves(p) /\ Keeps(p) /\ run'[p].pc = "link" /\ run'[p].k = 1
      BY <2>5, GotoSlotMoves DEF Places
    <3>2. \A i \in 1 .. Len(run[p].man) : Stored(run[p].man[i])
      BY <1>1, <2>1, RunTypes
    <3>3. Complete(run[p].fp)
      <4>1. CASE file[ManifestPath(run[p].fp)] = run[p].man
        <5>1. Filed(run[p].fp)
          BY <4>1, RunTypes, StoreAssumption DEF Filed
        <5> QED BY <2>5, <3>2, <4>1, <5>1 DEF Complete
      <4> QED BY <1>1, <4>1
    <3>4. SlotInv(p)' /\ HolderInv(p)' /\ TemporaryInv(p)' /\ InsertInv(p)' /\ PrefixInv(p)'
      BY <3>1, RunTypes DEF SlotInv, HolderInv, TemporaryInv, InsertInv, PrefixInv, Keeps
    <3>5. LinkInv(p)'
      BY <1>1, <1>3, <1>4, <2>5, <3>1, <3>2, <3>3, RunTypes DEF LinkInv, Keeps
    <3>6. LookupInv(p)' /\ LayoutInv(p)' /\ PushInv(p)' /\ ResultInv(p)'
      BY <1>1, <3>1 DEF LookupInv, LayoutInv, PushInv, ResultInv, Succeeded, Keeps
    <3> QED BY <1>1, <3>1, <3>4, <3>5, <3>6, QuietStep DEF ProcInv, HistoryInv, worldVars
  <2> QED BY <1>6, <2>2, <2>3, <2>4, <2>5 DEF Found
<1> QED BY <1>2, <1>5, <1>6 DEF Probe

-----------------------------------------------------------------------------
(* Collecting the blobs of a manifest, then the manifest.                  *)

\* What a process that collects has to show for its next place.
Collects(p) ==
    /\ run[p].call \in {"fetch", "insert"} /\ run[p].result = "none"
    /\ run[p].call = "fetch" => run[p].dest = << >>
    /\ run[p].call = "insert" => run[p].man \in Outputs[run[p].fp] /\ run[p].dest = run[p].man
    /\ \A i \in 1 .. run[p].k - 1 : Stored(run[p].man[i])

LEMMA Collectors ==
    ASSUME NEW p, ProcInv(p), run[p].pc \in Collecting
    PROVE  Collects(p)
  BY DEF Collects, ProcInv, InsertInv, LayoutInv, PrefixInv, ResultInv, Collecting, Writing, Locked

LEMMA Undisturbed ==
    ASSUME UNCHANGED <<storeVars, collected>>
    PROVE  /\ \A h : Stored(h)' <=> Stored(h)
           /\ \A f : Complete(f)' <=> Complete(f)
  BY DEF Stored, Complete, Filed, storeVars

LEMMA WriteStep ==
    ASSUME IndInv, NEW p \in Procs, Collects(p), NEW path \in Paths, GotoWrite(p, path),
           \/ path = ManifestPath(run[p].fp) /\ run[p].k = Len(run[p].man) + 1
           \/ path = BlobPath(run[p].man[run[p].k]) /\ run[p].k <= Len(run[p].man),
           UNCHANGED <<storeVars, remote, tripped, worldVars>>
    PROVE  IndInv'
<1> USE DEF IndInv
<1>1. /\ Moves(p) /\ Keeps(p) /\ run'[p].pc = "lock" /\ run'[p].k = run[p].k
      /\ run'[p].target = path
  BY GotoWriteMoves
<1>2. \A h : Stored(h)' <=> Stored(h)
  BY Undisturbed DEF worldVars
<1> USE DEF Writing, Locked, Collecting, Keeps
<1>3. SlotInv(p)'
  BY <1>1, RunTypes DEF SlotInv
<1>4. HolderInv(p)' /\ TemporaryInv(p)' /\ InsertInv(p)' /\ LayoutInv(p)'
  BY <1>1 DEF HolderInv, TemporaryInv, InsertInv, LayoutInv, Collects
<1>5. PrefixInv(p)'
  BY <1>1, <1>2 DEF PrefixInv, Collects
<1>6. LookupInv(p)' /\ LinkInv(p)' /\ PushInv(p)' /\ ResultInv(p)'
  BY <1>1 DEF LookupInv, LinkInv, PushInv, ResultInv, Succeeded, Collects
<1>7. ProcInv(p)'
  BY <1>3, <1>4, <1>5, <1>6 DEF ProcInv
<1> QED BY <1>1, <1>7, QuietStep DEF SharedInv, HistoryInv, worldVars

\* To the next slot, its blob being in the store.
LEMMA NextSlotStep ==
    ASSUME RunsInv, NEW p \in Procs, Collects(p), run[p].k <= Len(run[p].man),
           NEW l, l = IF run[p].call = "fetch" THEN "dedup" ELSE "store",
           GotoSlot(p, l, run[p].k + 1),
           \A i \in 1 .. run[p].k : \A h \in {run[p].man[i]} : Stored(h)'
    PROVE  Moves(p) /\ ProcInv(p)'
<1>1. run[p].k + 1 \in Nat \ {0} /\ l \in Places
  BY RunTypes DEF Places
<1>2. Moves(p) /\ Keeps(p) /\ run'[p].pc = l /\ run'[p].k = run[p].k + 1
  BY <1>1, GotoSlotMoves
<1> USE DEF Writing, Locked, Collecting, Keeps
<1>3. SlotInv(p)' /\ PrefixInv(p)'
  BY <1>2, RunTypes DEF SlotInv, PrefixInv
<1>4. HolderInv(p)' /\ TemporaryInv(p)' /\ InsertInv(p)' /\ LayoutInv(p)'
  BY <1>2 DEF HolderInv, TemporaryInv, InsertInv, LayoutInv, Collects
<1>5. LookupInv(p)' /\ LinkInv(p)' /\ PushInv(p)' /\ ResultInv(p)'
  BY <1>2 DEF LookupInv, LinkInv, PushInv, ResultInv, Succeeded, Collects
<1> QED BY <1>2, <1>3, <1>4, <1>5 DEF ProcInv

LEMMA DedupStep ==
    ASSUME IndInv, NEW p \in Procs, Dedup(p)
    PROVE  IndInv'
<1> USE DEF IndInv
<1>1. /\ UNCHANGED <<storeVars, remote, tripped, worldVars>>
      /\ run[p].pc = "dedup" /\ SlotInv(p) /\ run[p].call = "fetch" /\ ProcInv(p)
  BY DEF Dedup, At, ProcInv, InsertInv
<1>2. Collects(p)
  BY <1>1, Collectors DEF Collecting
<1>3. CASE AllSlots(p) /\ GotoWrite(p, ManifestPath(run[p].fp))
  <2>1. run[p].k = Len(run[p].man) + 1
    BY <1>1, <1>3, RunTypes DEF SlotInv, AllSlots
  <2>2. ManifestPath(run[p].fp) \in Paths
    BY RunTypes, PathsDiffer
  <2> QED BY <1>1, <1>2, <1>3, <2>1, <2>2, WriteStep
<1>4. CASE /\ ~AllSlots(p) /\ file[BlobPath(Blob(p))] # NoFile
           /\ GotoSlot(p, "dedup", run[p].k + 1)
  <2>1. run[p].k <= Len(run[p].man)
    BY <1>4, RunTypes DEF AllSlots
  <2>2. \A i \in 1 .. run[p].k : Stored(run[p].man[i])
    BY <1>2, <1>4, RunTypes DEF Collects, Stored, Blob
  <2>3. \A i \in 1 .. run[p].k : \A h \in {run[p].man[i]} : Stored(h)'
    BY <1>1, <2>2, Undisturbed DEF worldVars
  <2>4. Moves(p) /\ ProcInv(p)'
    BY <1>1, <1>2, <1>4, <2>1, <2>3, NextSlotStep
  <2> QED BY <1>1, <2>4, QuietStep DEF SharedInv, HistoryInv, worldVars
<1>5. CASE ~AllSlots(p) /\ Goto(p, "getBlob")
  <2>1. run[p].k <= Len(run[p].man)
    BY <1>5, RunTypes DEF AllSlots
  <2>2. Moves(p) /\ Keeps(p) /\ run'[p].pc = "getBlob" /\ run'[p].k = run[p].k
    BY <1>5, GotoMoves DEF Places
  <2> USE DEF Writing, Locked, Collecting, Keeps
  <2>3. SlotInv(p)' /\ HolderInv(p)' /\ TemporaryInv(p)' /\ InsertInv(p)' /\ LayoutInv(p)'
    BY <1>1, <1>2, <2>1, <2>2, RunTypes
    DEF SlotInv, HolderInv, TemporaryInv, InsertInv, LayoutInv, Collects
  <2>4. PrefixInv(p)'
    BY <1>1, <1>2, <2>2 DEF PrefixInv, Collects, Stored, storeVars, worldVars
  <2>5. LookupInv(p)' /\ LinkInv(p)' /\ PushInv(p)' /\ ResultInv(p)'
    BY <1>2, <2>2 DEF LookupInv, LinkInv, PushInv, ResultInv, Succeeded, Collects
  <2>6. ProcInv(p)'
    BY <2>3, <2>4, <2>5 DEF ProcInv
  <2> QED BY <1>1, <2>2, <2>6, QuietStep DEF SharedInv, HistoryInv, worldVars
<1> QED BY <1>3, <1>4, <1>5 DEF Dedup

\* A fetch that ends without a write.
LEMMA FetchEnds ==
    ASSUME IndInv, NEW p \in Procs, run[p].dest = << >>, run[p].result = "none",
           NEW outcome \in {"fetched", "missing", "degraded"}, EndFetch(p, outcome),
           UNCHANGED <<storeVars, remote, worldVars>>, tripped' \subseteq Procs
    PROVE  IndInv'
<1>1. SlotInv(p) /\ RunsInv
  BY DEF IndInv, ProcInv
<1>2. Moves(p) /\ ProcInv(p)'
  BY <1>1, EndFetchStep
<1> QED BY <1>2, QuietStep DEF IndInv, SharedInv, HistoryInv, worldVars

LEMMA GetBlobStep ==
    ASSUME IndInv, NEW p \in Procs, GetBlob(p)
    PROVE  IndInv'
<1>1. /\ UNCHANGED <<storeVars, remote, worldVars>>
      /\ run[p].pc = "getBlob" /\ ProcInv(p) /\ run[p].k <= Len(run[p].man)
      /\ run[p].dest = << >> /\ run[p].result = "none"
  BY DEF IndInv, GetBlob, At, ProcInv, SlotInv, LayoutInv, ResultInv
<1>2. tripped \subseteq Procs /\ RunsInv
  BY DEF IndInv, SharedInv, HistoryInv
<1>3. CASE EndFetch(p, "degraded") /\ tripped' \subseteq Procs
  BY <1>1, <1>3, FetchEnds
<1>4. CASE GotoWrite(p, BlobPath(Blob(p))) /\ UNCHANGED tripped
  <2>1. Collects(p)
    BY <1>1, Collectors DEF Collecting
  <2>2. run[p].man[run[p].k] \in Blobs
    BY <1>1, <1>2, RunTypes DEF Manifests
  <2>3. BlobPath(run[p].man[run[p].k]) \in Paths
    BY <2>2, PathsDiffer
  <2> QED BY <1>1, <1>4, <2>1, <2>3, WriteStep DEF Blob
<1> QED BY <1>2, <1>3, <1>4 DEF GetBlob, Unreachable

-----------------------------------------------------------------------------
(* What starts a collection: a manifest of the remote, or an output of     *)
(* lean.                                                                   *)

LEMMA FetchMoves ==
    ASSUME RunsInv, NEW p \in Procs, NEW m \in Manifests, NEW k \in Nat \ {0}, k = 1,
           run' = [run EXCEPT ![p].pc = "dedup", ![p].man = m, ![p].k = 1, ![p].call = "fetch"]
    PROVE  /\ Moves(p) /\ run'[p].pc = "dedup" /\ run'[p].man = m /\ run'[p].k = 1
           /\ run'[p].fp = run[p].fp /\ run'[p].dest = run[p].dest
           /\ run'[p].result = run[p].result /\ run'[p].call = "fetch"
<1>1. PICK l \in Places : l = "dedup"
  BY DEF Places
<1>2. PICK c \in {"none", "fetch", "insert"} : c = "fetch"
  OBVIOUS
<1> DEFINE r == [run[p] EXCEPT !.pc = l, !.man = m, !.k = k, !.call = c]
<1>3. r \in Runs
  BY RunTypes DEF Runs
<1>4. run' = [run EXCEPT ![p] = r]
  BY <1>1, <1>2, RunTypes DEF Runs
<1>5. Moves(p) /\ run'[p] = r
  BY <1>3, <1>4, RunMoves
<1>6. /\ r.pc = l /\ r.man = m /\ r.k = k /\ r.fp = run[p].fp /\ r.dest = run[p].dest
      /\ r.result = run[p].result /\ r.call = c
  BY RunTypes DEF Runs
<1> HIDE DEF r
<1> QED BY <1>1, <1>2, <1>5, <1>6

LEMMA OutputMoves ==
    ASSUME RunsInv, NEW p \in Procs, NEW m \in Manifests, NEW k \in Nat \ {0}, k = 1,
           run' = [run EXCEPT ![p].pc = "store", ![p].man = m, ![p].k = 1,
                              ![p].call = "insert", ![p].dest = m]
    PROVE  /\ Moves(p) /\ run'[p].pc = "store" /\ run'[p].man = m /\ run'[p].k = 1
           /\ run'[p].fp = run[p].fp /\ run'[p].dest = m
           /\ run'[p].result = run[p].result /\ run'[p].call = "insert"
<1>1. PICK l \in Places : l = "store"
  BY DEF Places
<1>2. PICK c \in {"none", "fetch", "insert"} : c = "insert"
  OBVIOUS
<1> DEFINE r == [run[p] EXCEPT !.pc = l, !.man = m, !.k = k, !.call = c, !.dest = m]
<1>3. r \in Runs
  BY RunTypes DEF Runs
<1>4. run' = [run EXCEPT ![p] = r]
  BY <1>1, <1>2, RunTypes DEF Runs
<1>5. Moves(p) /\ run'[p] = r
  BY <1>3, <1>4, RunMoves
<1>6. /\ r.pc = l /\ r.man = m /\ r.k = k /\ r.fp = run[p].fp /\ r.dest = m
      /\ r.result = run[p].result /\ r.call = c
  BY RunTypes DEF Runs
<1> HIDE DEF r
<1> QED BY <1>1, <1>2, <1>5, <1>6

\* A collection that is about to begin, with nothing collected yet.
LEMMA FirstSlot ==
    ASSUME NEW p \in Procs, run'[p].pc \in {"dedup", "store"}, run'[p].k = 1,
           run'[p].result = "none", Len(run'[p].man) \in Nat,
           run'[p].pc = "dedup" => run'[p].call = "fetch" /\ run'[p].dest = << >>,
           run'[p].pc = "store" => /\ run'[p].call = "insert" /\ run'[p].dest = run'[p].man
                                   /\ run'[p].man \in Outputs[run'[p].fp]
    PROVE  ProcInv(p)'
<1> USE DEF Writing, Locked, Collecting
<1>1. SlotInv(p)' /\ HolderInv(p)' /\ TemporaryInv(p)' /\ PrefixInv(p)' /\ InsertInv(p)'
  BY DEF SlotInv, HolderInv, TemporaryInv, PrefixInv, InsertInv
<1>2. LookupInv(p)' /\ LayoutInv(p)' /\ LinkInv(p)' /\ PushInv(p)' /\ ResultInv(p)'
  BY DEF LookupInv, LayoutInv, LinkInv, PushInv, ResultInv, Succeeded
<1> QED BY <1>1, <1>2 DEF ProcInv

LEMMA GetManifestStep ==
    ASSUME IndInv, NEW p \in Procs, GetManifest(p)
    PROVE  IndInv'
<1>1. /\ UNCHANGED <<storeVars, remote, worldVars>> /\ RunsInv /\ tripped \subseteq Procs
      /\ run[p].pc = "getManifest" /\ run[p].dest = << >> /\ run[p].result = "none"
  BY DEF GetManifest, At, IndInv, SharedInv, HistoryInv, ProcInv, LayoutInv, ResultInv
<1>2. ASSUME NEW outcome \in {"fetched", "missing", "degraded"}, EndFetch(p, outcome),
             tripped' \subseteq Procs
      PROVE  IndInv'
  BY <1>1, <1>2, FetchEnds
<1>3. ASSUME NEW m, m = remote.manifests[run[p].fp], m # NoFile,
             run' = [run EXCEPT ![p].pc = "dedup", ![p].man = m, ![p].k = 1, ![p].call = "fetch"],
             UNCHANGED tripped
      PROVE  IndInv'
  <2>1. m \in Manifests
    BY <1>3, RunTypes DEF IndInv, SharedInv, FilesInv, RemoteShape
  <2>2. /\ Moves(p) /\ run'[p].pc = "dedup" /\ run'[p].man = m /\ run'[p].k = 1
        /\ run'[p].dest = << >> /\ run'[p].result = "none" /\ run'[p].call = "fetch"
    BY <1>1, <1>3, <2>1, 1 \in Nat \ {0}, FetchMoves
  <2>3. Len(m) \in Nat
    BY <2>1 DEF Manifests
  <2>4. ProcInv(p)'
    BY <2>2, <2>3, FirstSlot
  <2> QED BY <1>1, <1>3, <2>2, <2>4, QuietStep DEF IndInv, SharedInv, HistoryInv, worldVars
<1> QED BY <1>1, <1>2, <1>3 DEF GetManifest, Unreachable

LEMMA LeanStep ==
    ASSUME IndInv, NEW p \in Procs, Lean(p)
    PROVE  IndInv'
<1>1. /\ UNCHANGED <<storeVars, remote, tripped, worldVars>> /\ RunsInv
      /\ run[p].pc = "lean" /\ run[p].result = "none"
  BY DEF Lean, At, IndInv, ProcInv, ResultInv
<1>2. CASE Finish(p, "leanFailed", << >>)
  <2>1. "leanFailed" \in Results \ (Successes \cup {"linkFailed"})
    BY DEF Results, Failures, Successes
  <2>2. Moves(p) /\ ProcInv(p)'
    BY <1>1, <1>2, <2>1, EmptyManifest, GiveUpStep
  <2> QED BY <1>1, <2>2, QuietStep DEF IndInv, SharedInv, HistoryInv, worldVars
<1>3. ASSUME NEW m \in Outputs[run[p].fp],
             run' = [run EXCEPT ![p].pc = "store", ![p].man = m, ![p].k = 1,
                                ![p].call = "insert", ![p].dest = m]
      PROVE  IndInv'
  <2>1. m \in Manifests
    BY <1>1, RunTypes, StoreAssumption
  <2>2. /\ Moves(p) /\ run'[p].pc = "store" /\ run'[p].man = m /\ run'[p].k = 1
        /\ run'[p].dest = m /\ run'[p].result = "none" /\ run'[p].call = "insert"
        /\ run'[p].fp = run[p].fp
    BY <1>1, <1>3, <2>1, 1 \in Nat \ {0}, OutputMoves
  <2>3. Len(m) \in Nat
    BY <2>1 DEF Manifests
  <2>4. ProcInv(p)'
    BY <2>2, <2>3, FirstSlot
  <2> QED BY <1>1, <2>2, <2>4, QuietStep DEF IndInv, SharedInv, HistoryInv, worldVars
<1> QED BY <1>2, <1>3 DEF Lean

LEMMA StoreStep ==
    ASSUME IndInv, NEW p \in Procs, Store(p)
    PROVE  IndInv'
<1>1. /\ UNCHANGED <<storeVars, remote, tripped, worldVars>> /\ RunsInv
      /\ run[p].pc = "store" /\ ProcInv(p) /\ SlotInv(p)
  BY DEF Store, At, IndInv, ProcInv
<1>2. Collects(p)
  BY <1>1, Collectors DEF Collecting
<1>3. CASE AllSlots(p)
  <2>1. run[p].k = Len(run[p].man) + 1 /\ ManifestPath(run[p].fp) \in Paths
    BY <1>1, <1>3, RunTypes, PathsDiffer DEF SlotInv, AllSlots
  <2> QED BY <1>1, <1>2, <1>3, <2>1, WriteStep DEF Store
<1>4. CASE ~AllSlots(p)
  <2>1. run[p].k <= Len(run[p].man)
    BY <1>1, <1>4, RunTypes DEF AllSlots
  <2>2. run[p].man[run[p].k] \in Blobs
    BY <1>1, <2>1, RunTypes DEF Manifests
  <2>3. BlobPath(run[p].man[run[p].k]) \in Paths
    BY <2>2, PathsDiffer
  <2> QED BY <1>1, <1>2, <1>4, <2>1, <2>3, WriteStep DEF Store, Blob
<1> QED BY <1>3, <1>4

-----------------------------------------------------------------------------
(* write_atomic_readonly.                                                  *)

LEMMA TargetsAreSlots ==
    ASSUME IndInv, NEW p \in Procs, run[p].pc \in Writing
    PROVE  /\ Collects(p) /\ run[p].target \in Paths
           /\ WritingManifest(p) => run[p].k = Len(run[p].man) + 1
           /\ ~WritingManifest(p) => /\ run[p].k <= Len(run[p].man)
                                     /\ run[p].man[run[p].k] \in Blobs
                                     /\ run[p].target = BlobPath(run[p].man[run[p].k])
<1>1. ProcInv(p) /\ RunsInv
  BY DEF IndInv
<1>2. Collects(p)
  BY <1>1, Collectors DEF Collecting
<1>3. \/ run[p].target = ManifestPath(run[p].fp) /\ run[p].k = Len(run[p].man) + 1
      \/ run[p].k <= Len(run[p].man) /\ run[p].target = BlobPath(run[p].man[run[p].k])
  BY <1>1 DEF ProcInv, SlotInv
<1>4. run[p].k <= Len(run[p].man) => run[p].man[run[p].k] \in Blobs
  BY <1>1, RunTypes DEF Manifests
<1> QED BY <1>1, <1>2, <1>3, <1>4, RunTypes, PathsDiffer DEF WritingManifest

LEMMA WrittenStep ==
    ASSUME IndInv, NEW p \in Procs, run[p].pc \in Writing, Written(p),
           \A h \in Blobs : Stored(h) => Stored(h)',
           ~WritingManifest(p) => \A h \in {run[p].man[run[p].k]} : Stored(h)',
           WritingManifest(p) /\ run[p].call = "insert" => \A f \in {run[p].fp} : Complete(f)'
    PROVE  Moves(p) /\ ProcInv(p)'
<1>1. RunsInv /\ ProcInv(p) /\ SlotInv(p)
  BY DEF IndInv, ProcInv
<1>2. Collects(p)
  BY TargetsAreSlots
<1>3. CASE ~WritingManifest(p)
  <2>1. run[p].k <= Len(run[p].man) /\ run[p].man \in Seq(Blobs)
    BY <1>1, <1>3, TargetsAreSlots, RunTypes DEF Manifests
  <2>2. \A i \in 1 .. run[p].k : \A h \in {run[p].man[i]} : Stored(h)'
    <3>1. ASSUME NEW i \in 1 .. run[p].k - 1, NEW h, h = run[p].man[i] PROVE Stored(h)'
      <4>1. h \in Blobs /\ Stored(h)
        BY <1>1, <1>2, <2>1, <3>1, RunTypes DEF Collects
      <4> QED BY <4>1
    <3>2. ASSUME NEW i \in 1 .. run[p].k, i \notin 1 .. run[p].k - 1 PROVE i = run[p].k
      BY <1>1, <3>2, RunTypes
    <3> QED BY <1>3, <3>1, <3>2
  <2>3. PICK l : /\ l = IF run[p].call = "fetch" THEN "dedup" ELSE "store"
                 /\ GotoSlot(p, l, run[p].k + 1)
    BY <1>3 DEF Written
  <2> QED BY <1>1, <1>2, <2>1, <2>2, <2>3, NextSlotStep
<1>4. CASE WritingManifest(p) /\ run[p].call = "fetch" /\ EndFetch(p, "fetched")
  BY <1>1, <1>2, <1>4, EndFetchStep DEF Collects
<1>5. CASE WritingManifest(p) /\ run[p].call = "insert" /\ Finish(p, "built", run[p].dest)
  <2>1. "built" \in Results /\ "built" # "linkFailed"
    BY DEF Results
  <2>2. run[p].dest \in Manifests /\ run[p].dest \in Outputs[run[p].fp]
    BY <1>1, <1>2, <1>5, RunTypes DEF Collects
  <2> QED BY <1>1, <1>5, <2>1, <2>2, FinishStep
<1> QED BY <1>3, <1>4, <1>5 DEF Written

LEMMA WriteErrorStep ==
    ASSUME IndInv, NEW p \in Procs, run[p].pc \in Writing, WriteError(p)
    PROVE  Moves(p) /\ ProcInv(p)'
<1>1. RunsInv /\ ProcInv(p) /\ SlotInv(p)
  BY DEF IndInv, ProcInv
<1>2. Collects(p)
  BY TargetsAreSlots
<1>3. CASE run[p].call = "fetch" /\ EndFetch(p, "degraded")
  BY <1>1, <1>2, <1>3, EndFetchStep DEF Collects
<1>4. CASE Finish(p, "writeFailed", run[p].dest)
  <2>1. "writeFailed" \in Results \ (Successes \cup {"linkFailed"})
    BY DEF Results, Failures, Successes
  <2> QED BY <1>1, <1>4, <2>1, RunTypes, GiveUpStep
<1> QED BY <1>3, <1>4 DEF WriteError

\* A step that touches only the lock and the temporary file of a path that
\* nobody else holds.
LEMMA OwnPathStep ==
    ASSUME IndInv, NEW p \in Procs, Moves(p), NEW path \in Paths, lock[path] \notin Procs \ {p},
           UNCHANGED <<file, remote, tripped, worldVars>>,
           lock' \in [Paths -> Procs \cup {NoProc}], tmp' \in [Paths -> Temporaries \cup {NoFile}],
           \A other \in Paths \ {path} : lock'[other] = lock[other] /\ tmp'[other] = tmp[other],
           ProcInv(p)'
    PROVE  IndInv'
<1>1. SharedInv'
  <2>1. FilesInv'
    BY DEF IndInv, SharedInv, FilesInv
  <2>2. ManifestsInv'
    BY DEF IndInv, SharedInv, ManifestsInv, Filed, Stored, worldVars
  <2>3. HistoryInv'
    BY DEF IndInv, SharedInv, HistoryInv, worldVars
  <2> QED BY <2>1, <2>2, <2>3 DEF SharedInv
<1>2. Respects(p)
  BY DEF Respects, Stored, Filed, worldVars
<1> QED BY <1>1, <1>2, ProcessStep

LEMMA LockStep ==
    ASSUME IndInv, NEW p \in Procs, Lock(p)
    PROVE  IndInv'
<1> USE DEF IndInv
<1>1. /\ UNCHANGED <<file, tmp, remote, tripped, worldVars>> /\ RunsInv /\ FilesInv
      /\ run[p].pc = "lock" /\ lock[run[p].target] = NoProc /\ ProcInv(p) /\ run[p].pc \in Writing
  BY DEF Lock, At, SharedInv, Writing
<1>2. Collects(p) /\ run[p].target \in Paths
  BY <1>1, TargetsAreSlots
<1>3. CASE file[run[p].target] # NoFile /\ ~Overwrites(p) /\ Written(p) /\ UNCHANGED lock
  <2>1. UNCHANGED <<storeVars, collected>>
    BY <1>1, <1>3 DEF storeVars, worldVars
  <2>2. \A h : Stored(h)' <=> Stored(h)
    BY <2>1, Undisturbed
  <2>3. ~WritingManifest(p) => Stored(run[p].man[run[p].k])
    BY <1>1, <1>3, TargetsAreSlots DEF Stored
  <2>4. ~(WritingManifest(p) /\ run[p].call = "insert")
    BY <1>3 DEF Overwrites
  <2>5. Moves(p) /\ ProcInv(p)'
    BY <1>1, <1>3, <2>2, <2>3, <2>4, WrittenStep
  <2> QED BY <1>1, <2>1, <2>5, QuietStep DEF SharedInv, HistoryInv, worldVars
<1>4. CASE /\ file[run[p].target] = NoFile \/ Overwrites(p)
           /\ lock' = [lock EXCEPT ![run[p].target] = p]
           /\ Goto(p, "open")
  <2>1. /\ Moves(p) /\ Keeps(p) /\ run'[p].pc = "open" /\ run'[p].k = run[p].k
        /\ run'[p].target = run[p].target
    BY <1>1, <1>4, GotoMoves DEF Places
  <2> USE DEF Writing, Locked, Collecting, Keeps
  <2>2. SlotInv(p)' /\ TemporaryInv(p)' /\ InsertInv(p)' /\ LayoutInv(p)'
    BY <1>1, <2>1 DEF ProcInv, SlotInv, TemporaryInv, InsertInv, LayoutInv
  <2>3. lock'[run[p].target] = p
    BY <1>1, <1>2, <1>4 DEF FilesInv
  <2>4. HolderInv(p)'
    BY <1>1, <1>4, <2>1, <2>3 DEF HolderInv, Overwrites, WritingManifest
  <2>5. PrefixInv(p)'
    BY <1>1, <1>2, <2>1 DEF PrefixInv, Collects, Stored, worldVars
  <2>6. LookupInv(p)' /\ LinkInv(p)' /\ PushInv(p)' /\ ResultInv(p)'
    BY <1>2, <2>1 DEF LookupInv, LinkInv, PushInv, ResultInv, Succeeded, Collects
  <2>7. ProcInv(p)'
    BY <2>2, <2>4, <2>5, <2>6 DEF ProcInv
  <2>8. lock[run[p].target] \notin Procs \ {p}
    BY <1>1, StoreAssumption
  <2>9. /\ lock' \in [Paths -> Procs \cup {NoProc}]
        /\ \A other \in Paths \ {run[p].target} : lock'[other] = lock[other]
    BY <1>1, <1>2, <1>4 DEF FilesInv
  <2>10. tmp' \in [Paths -> Temporaries \cup {NoFile}]
    BY <1>1 DEF FilesInv
  <2> QED BY <1>1, <1>2, <2>1, <2>7, <2>8, <2>9, <2>10, OwnPathStep
<1> QED BY <1>1, <1>3, <1>4 DEF Lock

LEMMA HoldersLock ==
    ASSUME IndInv, NEW p \in Procs, run[p].pc \in Locked
    PROVE  /\ RunsInv /\ FilesInv /\ ProcInv(p) /\ run[p].pc \in Writing
           /\ lock[run[p].target] = p /\ run[p].target \in Paths /\ Collects(p)
           /\ \/ file[run[p].target] = NoFile
              \/ WritingManifest(p) /\ run[p].call = "insert"
<1>1. RunsInv /\ FilesInv /\ ProcInv(p) /\ HolderInv(p) /\ run[p].pc \in Writing
  BY DEF IndInv, SharedInv, ProcInv, Writing
<1> QED BY <1>1, TargetsAreSlots DEF HolderInv, WritingManifest

\* The holder of a lock writes on beside its path.
LEMMA WriteOn ==
    ASSUME IndInv, NEW p \in Procs, run[p].pc \in Locked,
           NEW l \in {"fill", "chmod", "rename"}, Goto(p, l),
           NEW t \in Temporaries, tmp' = [tmp EXCEPT ![run[p].target] = t],
           l # "fill" => t.data = IF WritingManifest(p) THEN run[p].man ELSE run[p].man[run[p].k],
           UNCHANGED <<file, lock, remote, tripped, worldVars>>
    PROVE  IndInv'
<1>1. /\ RunsInv /\ FilesInv /\ ProcInv(p) /\ run[p].pc \in Writing
      /\ lock[run[p].target] = p /\ run[p].target \in Paths /\ Collects(p)
      /\ \/ file[run[p].target] = NoFile
         \/ WritingManifest(p) /\ run[p].call = "insert"
  BY HoldersLock
<1>2. /\ Moves(p) /\ Keeps(p) /\ run'[p].pc = l /\ run'[p].k = run[p].k
      /\ run'[p].target = run[p].target
  BY <1>1, GotoMoves DEF Places
<1> USE DEF Writing, Locked, Collecting, Keeps
<1>3. SlotInv(p)' /\ InsertInv(p)' /\ LayoutInv(p)'
  BY <1>1, <1>2 DEF ProcInv, SlotInv, InsertInv, LayoutInv
<1>4. HolderInv(p)'
  BY <1>1, <1>2 DEF HolderInv, WritingManifest
<1>5. tmp'[run[p].target] = t
  BY <1>1 DEF FilesInv
<1>6. TemporaryInv(p)'
  BY <1>2, <1>5 DEF TemporaryInv, WritingManifest
<1>7. PrefixInv(p)'
  BY <1>1, <1>2 DEF PrefixInv, Collects, Stored, worldVars
<1>8. LookupInv(p)' /\ LinkInv(p)' /\ PushInv(p)' /\ ResultInv(p)'
  BY <1>1, <1>2 DEF LookupInv, LinkInv, PushInv, ResultInv, Succeeded, Collects
<1>9. ProcInv(p)'
  BY <1>3, <1>4, <1>6, <1>7, <1>8 DEF ProcInv
<1>10. /\ tmp' \in [Paths -> Temporaries \cup {NoFile}] /\ lock' \in [Paths -> Procs \cup {NoProc}]
       /\ \A other \in Paths \ {run[p].target} : lock'[other] = lock[other] /\ tmp'[other] = tmp[other]
  BY <1>1 DEF FilesInv
<1> QED BY <1>1, <1>2, <1>9, <1>10, OwnPathStep

LEMMA OpenStep ==
    ASSUME IndInv, NEW p \in Procs, Open(p)
    PROVE  IndInv'
<1> DEFINE t == [data |-> Torn, readonly |-> FALSE]
<1>1. t \in Temporaries
  BY DEF Temporaries
<1>2. /\ run[p].pc \in Locked /\ Goto(p, "fill") /\ tmp' = [tmp EXCEPT ![run[p].target] = t]
      /\ UNCHANGED <<file, lock, remote, tripped, worldVars>>
  BY DEF Open, At, Locked
<1> HIDE DEF t
<1> QED BY <1>1, <1>2, WriteOn

LEMMA FillStep ==
    ASSUME IndInv, NEW p \in Procs, Fill(p)
    PROVE  IndInv'
<1>1. run[p].pc = "fill" /\ run[p].pc \in Locked
  BY DEF Fill, At, Locked
<1>2. /\ RunsInv /\ FilesInv /\ ProcInv(p) /\ run[p].target \in Paths /\ run[p].pc \in Writing
  BY <1>1, HoldersLock
<1> DEFINE d == IF WritingManifest(p) THEN run[p].man ELSE run[p].man[run[p].k]
<1> DEFINE t == [tmp[run[p].target] EXCEPT !.data = d]
<1>3. d \in Manifests \cup Blobs
  BY <1>2, TargetsAreSlots, RunTypes
<1>4. tmp[run[p].target] \in Temporaries
  BY <1>1, <1>2 DEF ProcInv, TemporaryInv
<1> HIDE DEF d
<1>5. t \in Temporaries /\ t.data = d
  BY <1>3, <1>4 DEF Temporaries
<1>6. tmp' = [tmp EXCEPT ![run[p].target] = t]
  BY DEF Fill, Blob, d
<1>7. Goto(p, "chmod") /\ UNCHANGED <<file, lock, remote, tripped, worldVars>>
  BY DEF Fill
<1> HIDE DEF t
<1> QED BY <1>1, <1>5, <1>6, <1>7, WriteOn DEF d

LEMMA ChmodStep ==
    ASSUME IndInv, NEW p \in Procs, Chmod(p)
    PROVE  IndInv'
<1>1. run[p].pc = "chmod" /\ run[p].pc \in Locked
  BY DEF Chmod, At, Locked
<1>2. ProcInv(p) /\ run[p].target \in Paths
  BY <1>1, HoldersLock
<1>3. /\ tmp[run[p].target] \in Temporaries
      /\ tmp[run[p].target].data = IF WritingManifest(p) THEN run[p].man ELSE run[p].man[run[p].k]
  BY <1>1, <1>2 DEF ProcInv, TemporaryInv, WritingManifest
<1> DEFINE t == [tmp[run[p].target] EXCEPT !.readonly = TRUE]
<1>4. t \in Temporaries /\ t.data = tmp[run[p].target].data
  BY <1>3 DEF Temporaries
<1>5. /\ tmp' = [tmp EXCEPT ![run[p].target] = t]
      /\ Goto(p, "rename") /\ UNCHANGED <<file, lock, remote, tripped, worldVars>>
  BY DEF Chmod
<1> HIDE DEF t
<1> QED BY <1>1, <1>3, <1>4, <1>5, WriteOn

\* A writer that gives up lets the lock go; its temporary file stays.
LEMMA GiveUpWriting ==
    ASSUME IndInv, NEW p \in Procs, Refused(p) \/ FillFails(p)
    PROVE  IndInv'
<1>1. /\ run[p].pc \in Locked /\ Unlock(p) /\ WriteError(p)
      /\ UNCHANGED <<file, tmp, remote, tripped, worldVars>>
  BY DEF Refused, FillFails, At, Locked
<1>2. /\ FilesInv /\ lock[run[p].target] = p /\ run[p].target \in Paths /\ run[p].pc \in Writing
  BY <1>1, HoldersLock
<1>3. Moves(p) /\ ProcInv(p)'
  BY <1>1, <1>2, WriteErrorStep
<1>4. /\ tmp' \in [Paths -> Temporaries \cup {NoFile}] /\ lock' \in [Paths -> Procs \cup {NoProc}]
      /\ \A other \in Paths \ {run[p].target} : lock'[other] = lock[other] /\ tmp'[other] = tmp[other]
  BY <1>1, <1>2 DEF FilesInv, Unlock
<1> QED BY <1>1, <1>2, <1>3, <1>4, OwnPathStep

\* A blob file takes the content its name says; a manifest comes after all
\* its blobs, and replaces another only at the end of an insert.
LEMMA RenameStep ==
    ASSUME IndInv, NEW p \in Procs, Rename(p)
    PROVE  IndInv'
<1> DEFINE d == IF WritingManifest(p) THEN run[p].man ELSE run[p].man[run[p].k]
<1>1. run[p].pc = "rename" /\ run[p].pc \in Locked
  BY DEF Rename, At, Locked
<1>2. /\ RunsInv /\ FilesInv /\ ProcInv(p) /\ run[p].pc \in Writing
      /\ lock[run[p].target] = p /\ run[p].target \in Paths /\ Collects(p)
      /\ \/ file[run[p].target] = NoFile
         \/ WritingManifest(p) /\ run[p].call = "insert"
  BY <1>1, HoldersLock
<1>3. tmp[run[p].target].data = d
  BY <1>1, <1>2 DEF ProcInv, TemporaryInv, WritingManifest
<1>4. d \in Manifests \cup Blobs /\ d # NoFile /\ d # Torn
  BY <1>2, TargetsAreSlots, RunTypes, StoreAssumption
<1>5. /\ file' = [file EXCEPT ![run[p].target] = d]
      /\ tmp' = [tmp EXCEPT ![run[p].target] = NoFile]
      /\ lock' = [lock EXCEPT ![run[p].target] = NoProc]
      /\ Written(p) /\ UNCHANGED <<remote, tripped, worldVars>>
  BY <1>3 DEF Rename, Unlock
<1>6. /\ file'[run[p].target] = d
      /\ \A other \in Paths : other # run[p].target => file'[other] = file[other]
  BY <1>2, <1>5 DEF FilesInv
<1>7. \A h \in Blobs : Stored(h) => Stored(h)'
  BY <1>4, <1>5, <1>6, PathsDiffer DEF Stored, worldVars
<1>8. CASE ~WritingManifest(p)
  <2>1. /\ d = run[p].man[run[p].k] /\ d \in Blobs /\ run[p].target = BlobPath(d)
    BY <1>2, <1>8, TargetsAreSlots
  <2>2. \A f \in Fps : file'[ManifestPath(f)] = file[ManifestPath(f)]
    BY <1>6, <2>1, PathsDiffer
  <2>3. \A h \in {d} : Stored(h)'
    BY <1>4, <1>6, <2>1 DEF Stored
  <2>4. Moves(p) /\ ProcInv(p)'
    <3> HIDE DEF d
    <3> QED BY <1>2, <1>5, <1>7, <1>8, <2>1, <2>3, WrittenStep
  <2>5. SharedInv'
    <3>1. \A h \in Blobs : file'[BlobPath(h)] \in {h, NoFile}
      BY <1>2, <1>6, <2>1, PathsDiffer DEF FilesInv
    <3>2. FilesInv'
      BY <1>2, <1>4, <1>5, <2>2, <3>1 DEF FilesInv
    <3>3. ManifestsInv'
      <4> SUFFICES ASSUME NEW f \in Fps, Filed(f)',
                          NEW i \in 1 .. Len(file[ManifestPath(f)])
                   PROVE  \A h \in {file[ManifestPath(f)][i]} : Stored(h)' \/ h \in lost
        BY <1>5, <2>2 DEF ManifestsInv, worldVars
      <4>1. Filed(f) /\ file[ManifestPath(f)] \in Manifests
        BY <1>2, <2>2 DEF Filed, FilesInv
      <4>2. file[ManifestPath(f)][i] \in Blobs
        BY <4>1 DEF Manifests
      <4> QED BY <1>7, <4>1, <4>2 DEF IndInv, SharedInv, ManifestsInv
    <3>4. HistoryInv'
      BY <1>5 DEF IndInv, SharedInv, HistoryInv, worldVars
    <3> QED BY <3>2, <3>3, <3>4 DEF SharedInv
  <2>6. Respects(p)
    BY <1>2, <1>5, <1>6, <1>7, <2>2 DEF Respects, Filed, FilesInv, worldVars
  <2> QED BY <2>4, <2>5, <2>6, ProcessStep
<1>9. CASE WritingManifest(p)
  <2>1. /\ d = run[p].man /\ run[p].target = ManifestPath(run[p].fp)
        /\ d \in Manifests /\ run[p].fp \in Fps
        /\ \A i \in 1 .. Len(d) : Stored(d[i])
    BY <1>2, <1>9, TargetsAreSlots, RunTypes DEF WritingManifest, Collects
  <2>2. /\ \A f \in Fps \ {run[p].fp} : file'[ManifestPath(f)] = file[ManifestPath(f)]
        /\ \A h \in Blobs : file'[BlobPath(h)] = file[BlobPath(h)]
        /\ file'[ManifestPath(run[p].fp)] = d
    BY <1>6, <2>1, PathsDiffer
  <2>3. \A i \in 1 .. Len(d) : \A h \in {d[i]} : Stored(h)'
    <3> HIDE DEF d
    <3> QED BY <1>7, <2>1 DEF Manifests
  <2>4. run[p].call = "insert" => \A f \in {run[p].fp} : Complete(f)'
    <3>1. run[p].call = "insert" => Len(d) = Arity
      BY <1>2, <2>1, StoreAssumption DEF Collects
    <3> HIDE DEF d
    <3> QED BY <1>4, <2>2, <2>3, <3>1 DEF Complete, Filed
  <2>5. Moves(p) /\ ProcInv(p)'
    <3> HIDE DEF d
    <3> QED BY <1>2, <1>5, <1>7, <1>9, <2>4, WrittenStep
  <2> HIDE DEF d
  <2>6. SharedInv'
    <3>1. FilesInv'
      <4>1. file' \in [Paths -> Manifests \cup Blobs \cup {NoFile, Torn}]
        BY <1>2, <1>4, <1>5 DEF FilesInv
      <4>2. \A f \in Fps : file'[ManifestPath(f)] \in Manifests \cup {NoFile}
        BY <1>2, <2>1, <2>2 DEF FilesInv
      <4> QED BY <1>2, <1>5, <2>2, <4>1, <4>2 DEF FilesInv
    <3>2. ManifestsInv'
      <4>1. SUFFICES ASSUME NEW f \in Fps, Filed(f)', NEW m, m = file'[ManifestPath(f)],
                            NEW i \in 1 .. Len(m)
                     PROVE  \A h \in {m[i]} : Stored(h)' \/ h \in lost
        BY <1>5, <2>2 DEF ManifestsInv, worldVars
      <4>2. CASE f = run[p].fp
        BY <2>2, <2>3, <4>1, <4>2
      <4>3. CASE f # run[p].fp
        <5>1. Filed(f) /\ m = file[ManifestPath(f)] /\ m \in Manifests
          BY <1>2, <2>2, <4>1, <4>3 DEF Filed, FilesInv
        <5>2. m[i] \in Blobs
          BY <5>1 DEF Manifests
        <5> QED BY <1>7, <5>1, <5>2 DEF IndInv, SharedInv, ManifestsInv
      <4> QED BY <4>2, <4>3
    <3>3. HistoryInv'
      BY <1>5 DEF IndInv, SharedInv, HistoryInv, worldVars
    <3> QED BY <3>1, <3>2, <3>3 DEF SharedInv
  <2>7. Respects(p)
    <3>1. ASSUME NEW f \in Fps, Filed(f)
          PROVE  Filed(f)' /\ (file'[ManifestPath(f)] = file[ManifestPath(f)] \/ Complete(f)')
      <4>1. CASE f = run[p].fp
        <5>1. run[p].call = "insert"
          BY <1>2, <2>1, <3>1, <4>1 DEF Filed
        <5> QED BY <2>4, <4>1, <5>1 DEF Complete
      <4>2. CASE f # run[p].fp
        BY <2>2, <3>1, <4>2 DEF Filed
      <4> QED BY <4>1, <4>2
    <3>2. ASSUME NEW path \in Paths, lock[path] \in Procs \ {p}
          PROVE  /\ lock'[path] = lock[path] /\ tmp'[path] = tmp[path]
                 /\ file'[path] \in {file[path], NoFile}
      BY <1>2, <1>5, <1>6, <3>2 DEF FilesInv
    <3> QED BY <1>5, <1>7, <3>1, <3>2 DEF Respects, worldVars
  <2> QED BY <2>5, <2>6, <2>7, ProcessStep
<1> QED BY <1>8, <1>9

-----------------------------------------------------------------------------
(* Linking, pushing, collecting, and being killed.                         *)

\* A step that ends with nothing to show for it and touches no file.
LEMMA QuietEnd ==
    ASSUME IndInv, NEW p \in Procs, NEW result \in Results \ (Successes \cup {"linkFailed"}),
           Finish(p, result, << >>), UNCHANGED <<storeVars, remote, tripped, worldVars>>
    PROVE  IndInv'
<1>1. Moves(p) /\ ProcInv(p)'
  BY EmptyManifest, GiveUpStep DEF IndInv
<1> QED BY <1>1, QuietStep DEF IndInv, SharedInv, HistoryInv, worldVars

LEMMA LinkStep ==
    ASSUME IndInv, NEW p \in Procs, Link(p)
    PROVE  IndInv'
<1>1. /\ UNCHANGED <<storeVars, remote, tripped, worldVars>> /\ RunsInv /\ FilesInv
      /\ run[p].pc = "link" /\ ProcInv(p) /\ LinkInv(p) /\ SlotInv(p) /\ run[p].result = "none"
  BY DEF Link, At, IndInv, SharedInv, ProcInv, ResultInv
<1>2. /\ \A h : Stored(h)' <=> Stored(h)
      /\ \A f : Complete(f)' <=> Complete(f)
  BY <1>1, Undisturbed DEF worldVars
<1>3. /\ \A i \in 1 .. Len(run[p].man) : Stored(run[p].man[i])
      /\ Len(run[p].man) = Arity /\ Complete(run[p].fp)
      /\ Len(run[p].dest) = run[p].k - 1
      /\ \A i \in 1 .. run[p].k - 1 : run[p].dest[i] = run[p].man[i]
  BY <1>1 DEF LinkInv
<1>4. CASE Finish(p, IF run[p].again THEN "downloaded" ELSE "cached", run[p].dest)
  <2>1. PICK result \in {"downloaded", "cached"} : Finish(p, result, run[p].dest)
    BY <1>4
  <2>2. result \in Results /\ result # "linkFailed" /\ result # "built"
    BY DEF Results
  <2>3. Moves(p) /\ ProcInv(p)'
    BY <1>1, <1>2, <1>3, <2>1, <2>2, RunTypes, FinishStep
  <2> QED BY <1>1, <2>3, QuietStep DEF IndInv, SharedInv, HistoryInv, worldVars
<1>5. ASSUME ~AllSlots(p), file[BlobPath(Blob(p))] # NoFile,
             run' = [run EXCEPT ![p].dest = Append(@, file[BlobPath(Blob(p))]), ![p].k = @ + 1]
      PROVE  IndInv'
  <2>1. run[p].k <= Len(run[p].man) /\ run[p].k + 1 \in Nat \ {0}
    BY <1>1, <1>5, RunTypes DEF AllSlots
  <2>2. Blob(p) \in Blobs /\ Blob(p) = run[p].man[run[p].k]
    BY <1>1, <2>1, RunTypes DEF Blob, Manifests
  <2>3. file[BlobPath(Blob(p))] = Blob(p)
    BY <1>1, <1>5, <2>2 DEF FilesInv
  <2>4. PICK d \in Manifests :
            /\ d = Append(run[p].dest, Blob(p)) /\ Len(d) = run[p].k /\ d[run[p].k] = Blob(p)
            /\ \A i \in 1 .. run[p].k - 1 : d[i] = run[p].dest[i]
    <3> DEFINE e == Append(run[p].dest, Blob(p))
    <3>1. e \in Manifests /\ Len(e) = run[p].k /\ e[run[p].k] = Blob(p)
          /\ \A i \in 1 .. run[p].k - 1 : e[i] = run[p].dest[i]
      BY <1>1, <1>3, <2>2, RunTypes DEF Manifests
    <3> HIDE DEF e
    <3> QED BY <3>1 DEF e
  <2>5. PICK n \in Nat \ {0} : n = run[p].k + 1 /\ n - 1 = run[p].k
    BY <1>1, RunTypes
  <2> DEFINE r == [run[p] EXCEPT !.dest = d, !.k = n]
  <2>6. r \in Runs /\ run' = [run EXCEPT ![p] = r]
    <3>1. r \in Runs
      BY <1>1, RunTypes DEF Runs
    <3>2. run' = [run EXCEPT ![p] = r]
      BY <1>1, <1>5, <2>3, <2>4, <2>5, RunTypes DEF RunsInv, Runs
    <3> QED BY <3>1, <3>2
  <2>7. /\ Moves(p) /\ run'[p].pc = "link" /\ run'[p].man = run[p].man /\ run'[p].k = n
        /\ run'[p].fp = run[p].fp /\ run'[p].dest = d /\ run'[p].result = "none"
    <3>1. Moves(p) /\ run'[p] = r
      BY <1>1, <2>6, RunMoves
    <3>2. /\ r.pc = run[p].pc /\ r.man = run[p].man /\ r.k = n /\ r.fp = run[p].fp /\ r.dest = d
          /\ r.result = run[p].result
      BY <1>1, RunTypes DEF Runs
    <3> HIDE DEF r
    <3> QED BY <1>1, <3>1, <3>2
  <2> USE DEF Writing, Locked, Collecting
  <2>8. /\ SlotInv(p)' /\ HolderInv(p)' /\ TemporaryInv(p)' /\ PrefixInv(p)' /\ InsertInv(p)'
        /\ LayoutInv(p)' /\ LookupInv(p)' /\ PushInv(p)'
    BY <1>1, <2>1, <2>5, <2>7, RunTypes
    DEF SlotInv, HolderInv, TemporaryInv, PrefixInv, InsertInv, LayoutInv, LookupInv, PushInv
  <2>9. LinkInv(p)'
    <3>1. Len(d) = n - 1
      BY <2>4, <2>5
    <3>2. ASSUME NEW i \in 1 .. n - 1 PROVE d[i] = run[p].man[i]
      <4>1. CASE i = run[p].k
        BY <2>2, <2>4, <4>1
      <4>2. CASE i # run[p].k
        <5>1. i \in 1 .. run[p].k - 1
          BY <1>1, <2>5, <4>2, RunTypes
        <5> QED BY <1>3, <2>4, <5>1
      <4> QED BY <4>1, <4>2
    <3> QED BY <1>2, <1>3, <2>7, <3>1, <3>2 DEF LinkInv
  <2>10. ResultInv(p)'
    BY <2>7 DEF ResultInv, Succeeded
  <2>11. ProcInv(p)'
    BY <2>8, <2>9, <2>10 DEF ProcInv
  <2> QED BY <1>1, <2>7, <2>11, QuietStep DEF IndInv, SharedInv, HistoryInv, worldVars
<1>6. CASE ~AllSlots(p) /\ file[BlobPath(Blob(p))] = NoFile /\ Finish(p, "linkFailed", << >>)
  <2>1. run[p].k \in 1 .. Len(run[p].man)
    BY <1>1, <1>6, RunTypes DEF AllSlots
  <2>2. collected' # {}
    BY <1>1, <1>3, <1>6, <2>1 DEF Stored, Blob, worldVars
  <2>3. "linkFailed" \in Results /\ "linkFailed" \notin Successes
    BY DEF Results, Failures, Successes
  <2>4. Moves(p) /\ ProcInv(p)'
    BY <1>1, <1>6, <2>2, <2>3, EmptyManifest, FinishStep
  <2> QED BY <1>1, <2>4, QuietStep DEF IndInv, SharedInv, HistoryInv, worldVars
<1> QED BY <1>4, <1>5, <1>6 DEF Link

\* A push goes on: what it has passed is on the remote.
Passed(p, n) == \A i \in 1 .. n : remote.blobs[run[p].man[i]] # "absent"

LEMMA PushPlace ==
    ASSUME NEW p \in Procs, run'[p].pc \in {"headBlob", "putBlob", "putManifest"},
           run'[p].result = "none", run'[p].k <= Len(run'[p].man) + 1,
           run'[p].pc = "putBlob" => run'[p].k <= Len(run'[p].man),
           run'[p].pc \in {"headBlob", "putBlob"} => Passed(p, run[p].k - 1)',
           run'[p].pc = "putManifest" => Passed(p, Len(run[p].man))'
    PROVE  ProcInv(p)'
<1> USE DEF Writing, Locked, Collecting
<1>1. SlotInv(p)' /\ HolderInv(p)' /\ TemporaryInv(p)' /\ PrefixInv(p)' /\ InsertInv(p)'
  BY DEF SlotInv, HolderInv, TemporaryInv, PrefixInv, InsertInv
<1>2. LookupInv(p)' /\ LayoutInv(p)' /\ LinkInv(p)' /\ PushInv(p)' /\ ResultInv(p)'
  BY DEF LookupInv, LayoutInv, LinkInv, PushInv, ResultInv, Succeeded, Passed
<1> QED BY <1>1, <1>2 DEF ProcInv

LEMMA HeadManifestStep ==
    ASSUME IndInv, NEW p \in Procs, HeadManifest(p)
    PROVE  IndInv'
<1>1. /\ UNCHANGED <<storeVars, remote, tripped, worldVars>> /\ RunsInv
      /\ run[p].pc = "headManifest" /\ run[p].result = "none" /\ run[p].k = 1 /\ SlotInv(p)
  BY DEF HeadManifest, At, IndInv, ProcInv, PushInv, ResultInv
<1>2. ASSUME NEW result \in {"putFailed", "skipped"}, Finish(p, result, << >>) PROVE IndInv'
  <2>1. result \in Results \ (Successes \cup {"linkFailed"})
    BY DEF Results, Failures, Successes
  <2> QED BY <1>1, <1>2, <2>1, QuietEnd
<1>3. CASE Goto(p, "headBlob")
  <2>1. Moves(p) /\ Keeps(p) /\ run'[p].pc = "headBlob" /\ run'[p].k = run[p].k
    BY <1>1, <1>3, GotoMoves DEF Places
  <2>2. run'[p].k <= Len(run'[p].man) + 1 /\ Passed(p, run[p].k - 1)' /\ run'[p].result = "none"
    BY <1>1, <2>1 DEF Keeps, SlotInv, Passed
  <2>3. ProcInv(p)'
    BY <2>1, <2>2, PushPlace
  <2> QED BY <1>1, <2>1, <2>3, QuietStep DEF IndInv, SharedInv, HistoryInv, worldVars
<1> QED BY <1>2, <1>3 DEF HeadManifest

LEMMA HeadBlobStep ==
    ASSUME IndInv, NEW p \in Procs, HeadBlob(p)
    PROVE  IndInv'
<1>1. /\ UNCHANGED <<storeVars, remote, tripped, worldVars>> /\ RunsInv
      /\ run[p].pc = "headBlob" /\ run[p].result = "none" /\ SlotInv(p)
      /\ Passed(p, run[p].k - 1) /\ run[p].k <= Len(run[p].man) + 1
  BY DEF HeadBlob, At, IndInv, ProcInv, PushInv, ResultInv, Passed, SlotInv
<1>2. CASE Finish(p, "putFailed", << >>)
  <2>1. "putFailed" \in Results \ (Successes \cup {"linkFailed"})
    BY DEF Results, Failures, Successes
  <2> QED BY <1>1, <1>2, <2>1, QuietEnd
<1>3. CASE AllSlots(p) /\ Goto(p, "putManifest")
  <2>1. Moves(p) /\ Keeps(p) /\ run'[p].pc = "putManifest" /\ run'[p].k = run[p].k
    BY <1>1, <1>3, GotoMoves DEF Places
  <2>2. run[p].k - 1 = Len(run[p].man)
    BY <1>1, <1>3, RunTypes DEF AllSlots
  <2>3. Passed(p, Len(run[p].man))' /\ run'[p].result = "none"
        /\ run'[p].k <= Len(run'[p].man) + 1
    BY <1>1, <2>1, <2>2 DEF Passed, Keeps
  <2>4. ProcInv(p)'
    BY <2>1, <2>3, PushPlace
  <2> QED BY <1>1, <2>1, <2>4, QuietStep DEF IndInv, SharedInv, HistoryInv, worldVars
<1>4. CASE /\ ~AllSlots(p) /\ remote.blobs[Blob(p)] # "absent"
           /\ GotoSlot(p, "headBlob", run[p].k + 1)
  <2>1. run[p].k + 1 \in Nat \ {0} /\ run[p].k <= Len(run[p].man)
    BY <1>1, <1>4, RunTypes DEF AllSlots
  <2>2. Moves(p) /\ Keeps(p) /\ run'[p].pc = "headBlob" /\ run'[p].k = run[p].k + 1
    BY <1>1, <1>4, <2>1, GotoSlotMoves DEF Places
  <2>3. Passed(p, run[p].k - 1)' /\ run'[p].result = "none" /\ run'[p].k <= Len(run'[p].man) + 1
    BY <1>1, <1>4, <2>1, <2>2, RunTypes DEF Passed, Keeps, Blob
  <2>4. ProcInv(p)'
    BY <2>2, <2>3, PushPlace
  <2> QED BY <1>1, <2>2, <2>4, QuietStep DEF IndInv, SharedInv, HistoryInv, worldVars
<1>5. CASE ~AllSlots(p) /\ Goto(p, "putBlob")
  <2>1. Moves(p) /\ Keeps(p) /\ run'[p].pc = "putBlob" /\ run'[p].k = run[p].k
    BY <1>1, <1>5, GotoMoves DEF Places
  <2>2. /\ Passed(p, run[p].k - 1)' /\ run'[p].result = "none"
        /\ run'[p].k <= Len(run'[p].man) /\ run'[p].k <= Len(run'[p].man) + 1
    BY <1>1, <1>5, <2>1, RunTypes DEF Passed, Keeps, AllSlots
  <2>3. ProcInv(p)'
    BY <2>1, <2>2, PushPlace
  <2> QED BY <1>1, <2>1, <2>3, QuietStep DEF IndInv, SharedInv, HistoryInv, worldVars
<1> QED BY <1>2, <1>3, <1>4, <1>5 DEF HeadBlob

\* A step that changes only the remote, and takes no blob from it.
LEMMA RemoteStep ==
    ASSUME IndInv, NEW p \in Procs, Moves(p), UNCHANGED <<storeVars, tripped, worldVars>>,
           remote' \in RemoteShape,
           \A h \in Blobs : remote.blobs[h] # "absent" => remote'.blobs[h] # "absent",
           ProcInv(p)'
    PROVE  IndInv'
<1>1. SharedInv'
  <2>1. FilesInv'
    BY DEF IndInv, SharedInv, FilesInv, storeVars
  <2>2. ManifestsInv'
    BY DEF IndInv, SharedInv, ManifestsInv, storeVars, worldVars, Filed, Stored
  <2>3. HistoryInv'
    BY DEF IndInv, SharedInv, HistoryInv, worldVars
  <2> QED BY <2>1, <2>2, <2>3 DEF SharedInv
<1>2. Respects(p)
  BY DEF Respects, Stored, Filed, storeVars, worldVars
<1> QED BY <1>1, <1>2, ProcessStep

LEMMA PutBlobStep ==
    ASSUME IndInv, NEW p \in Procs, PutBlob(p)
    PROVE  IndInv'
<1>1. /\ UNCHANGED <<storeVars, tripped, worldVars>> /\ RunsInv /\ FilesInv
      /\ run[p].pc = "putBlob" /\ run[p].result = "none"
      /\ Passed(p, run[p].k - 1) /\ run[p].k <= Len(run[p].man)
  BY DEF PutBlob, At, IndInv, SharedInv, ProcInv, PushInv, ResultInv, Passed, SlotInv
<1>2. ASSUME NEW result \in {"readFailed", "putFailed"}, Finish(p, result, << >>), UNCHANGED remote
      PROVE  IndInv'
  <2>1. result \in Results \ (Successes \cup {"linkFailed"})
    BY DEF Results, Failures, Successes
  <2> QED BY <1>1, <1>2, <2>1, QuietEnd
<1>3. ASSUME NEW state \in {"good", "bad"}, remote' = [remote EXCEPT !.blobs[Blob(p)] = state],
             GotoSlot(p, "headBlob", run[p].k + 1)
      PROVE  IndInv'
  <2>1. Blob(p) \in Blobs /\ run[p].man \in Seq(Blobs) /\ run[p].k + 1 \in Nat \ {0}
    BY <1>1, RunTypes DEF Blob, Manifests
  <2>2. /\ remote' \in RemoteShape
        /\ remote'.blobs = [remote.blobs EXCEPT ![Blob(p)] = state]
    BY <1>1, <1>3, <2>1 DEF FilesInv, RemoteShape
  <2>3. \A h \in Blobs : remote.blobs[h] # "absent" => remote'.blobs[h] # "absent"
    BY <1>1, <2>2 DEF FilesInv, RemoteShape
  <2>4. Moves(p) /\ Keeps(p) /\ run'[p].pc = "headBlob" /\ run'[p].k = run[p].k + 1
    BY <1>1, <1>3, <2>1, GotoSlotMoves DEF Places
  <2>5. remote'.blobs[Blob(p)] # "absent"
    BY <1>1, <2>1, <2>2 DEF FilesInv, RemoteShape
  <2>6. ASSUME NEW i \in 1 .. run[p].k PROVE remote'.blobs[run[p].man[i]] # "absent"
    <3>1. CASE i = run[p].k
      BY <2>5, <3>1 DEF Blob
    <3>2. CASE i # run[p].k
      <4>1. i \in 1 .. run[p].k - 1 /\ run[p].man[i] \in Blobs
        BY <1>1, <2>1, <3>2, RunTypes
      <4> QED BY <1>1, <2>3, <4>1 DEF Passed
    <3> QED BY <3>1, <3>2
  <2>7. Passed(p, run[p].k - 1)' /\ run'[p].result = "none" /\ run'[p].k <= Len(run'[p].man) + 1
    BY <1>1, <2>4, <2>6, RunTypes DEF Passed, Keeps
  <2>8. ProcInv(p)'
    BY <2>4, <2>7, PushPlace
  <2> QED BY <1>1, <2>2, <2>3, <2>4, <2>8, RemoteStep
<1> QED BY <1>2, <1>3 DEF PutBlob

LEMMA PutManifestStep ==
    ASSUME IndInv, NEW p \in Procs, PutManifest(p)
    PROVE  IndInv'
<1>1. UNCHANGED <<storeVars, tripped, worldVars>> /\ RunsInv /\ FilesInv
  BY DEF PutManifest, IndInv, SharedInv
<1>2. CASE Finish(p, "putFailed", << >>) /\ UNCHANGED remote
  <2>1. "putFailed" \in Results \ (Successes \cup {"linkFailed"})
    BY DEF Results, Failures, Successes
  <2> QED BY <1>1, <1>2, <2>1, QuietEnd
<1>3. CASE /\ remote' = [remote EXCEPT !.manifests[run[p].fp] = run[p].man]
           /\ Finish(p, "pushed", << >>)
  <2>1. "pushed" \in Results \ (Successes \cup {"linkFailed"})
    BY DEF Results, Failures, Successes
  <2>2. Moves(p) /\ ProcInv(p)'
    BY <1>1, <1>3, <2>1, EmptyManifest, GiveUpStep
  <2>3. remote' \in RemoteShape /\ remote'.blobs = remote.blobs
    BY <1>1, <1>3, RunTypes DEF FilesInv, RemoteShape
  <2> QED BY <1>1, <2>2, <2>3, RemoteStep
<1> QED BY <1>2, <1>3 DEF PutManifest

LEMMA WalkStep ==
    ASSUME IndInv, NEW p \in Procs, Walk(p)
    PROVE  IndInv'
<1>1. /\ UNCHANGED <<storeVars, remote, tripped, worldVars>> /\ RunsInv
      /\ run[p].result = "none" /\ SlotInv(p)
  BY DEF Walk, At, IndInv, ProcInv, ResultInv
<1>2. ASSUME NEW result \in {"collected", "gcFailed"}, Finish(p, result, << >>) PROVE IndInv'
  <2>1. result \in Results \ (Successes \cup {"linkFailed"})
    BY DEF Results, Failures, Successes
  <2> QED BY <1>1, <1>2, <2>1, QuietEnd
<1>3. ASSUME NEW D \in SUBSET Present,
             run' = [run EXCEPT ![p].pc = "sweep", ![p].doomed = D]
      PROVE  IndInv'
  <2>1. D \in SUBSET Blobs
    BY DEF Present
  <2>2. PICK l \in Places : l = "sweep"
    BY DEF Places
  <2> DEFINE r == [run[p] EXCEPT !.pc = l, !.doomed = D]
  <2>3. r \in Runs
    BY <1>1, <2>1, RunTypes DEF Runs
  <2>4. run' = [run EXCEPT ![p] = r]
    BY <1>1, <1>3, <2>2, RunTypes DEF Runs
  <2>5. Moves(p) /\ run'[p] = r
    BY <1>1, <2>3, <2>4, RunMoves
  <2>6. r.pc = l /\ r.result = "none" /\ r.k = run[p].k /\ r.man = run[p].man
    BY <1>1, RunTypes DEF Runs
  <2> HIDE DEF r
  <2>7. ProcInv(p)'
    BY <1>1, <2>2, <2>5, <2>6, CalmPlace DEF SlotInv
  <2> QED BY <1>1, <2>5, <2>7, QuietStep DEF IndInv, SharedInv, HistoryInv, worldVars
<1> QED BY <1>2, <1>3 DEF Walk

\* A blob that goes is a blob that is recorded as collected.
LEMMA SweepStep ==
    ASSUME IndInv, NEW p \in Procs, Sweep(p)
    PROVE  IndInv'
<1>1. /\ UNCHANGED <<tmp, lock, remote, tripped, lost, budget, kills>> /\ RunsInv /\ FilesInv
      /\ run[p].pc = "sweep" /\ run[p].result = "none" /\ SlotInv(p)
  BY DEF Sweep, At, IndInv, SharedInv, ProcInv, ResultInv
<1>2. ASSUME NEW result \in {"collected", "gcFailed"}, Finish(p, result, << >>),
             UNCHANGED <<file, collected>>
      PROVE  IndInv'
  <2>1. result \in Results \ (Successes \cup {"linkFailed"})
    BY DEF Results, Failures, Successes
  <2> QED BY <1>1, <1>2, <2>1, QuietEnd DEF storeVars, worldVars
<1>3. ASSUME NEW h \in run[p].doomed \cap Present,
             file' = [file EXCEPT ![BlobPath(h)] = NoFile], collected' = collected \cup {h},
             run' = [run EXCEPT ![p].doomed = @ \ {h}]
      PROVE  IndInv'
  <2>1. h \in Blobs /\ BlobPath(h) \in Paths
    BY PathsDiffer DEF Present
  <2>2. PICK D \in SUBSET Blobs : D = run[p].doomed \ {h}
    BY <1>1, RunTypes
  <2> DEFINE r == [run[p] EXCEPT !.doomed = D]
  <2>3. r \in Runs
    BY <1>1, RunTypes DEF Runs
  <2>4. run' = [run EXCEPT ![p] = r]
    BY <1>1, <1>3, <2>2
  <2>5. Moves(p) /\ run'[p] = r
    BY <1>1, <2>3, <2>4, RunMoves
  <2>6. r.pc = "sweep" /\ r.result = "none" /\ r.k = run[p].k /\ r.man = run[p].man
    BY <1>1, RunTypes DEF Runs
  <2> HIDE DEF r
  <2>7. ProcInv(p)'
    BY <1>1, <2>5, <2>6, CalmPlace DEF SlotInv
  <2>8. /\ \A f \in Fps : file'[ManifestPath(f)] = file[ManifestPath(f)]
        /\ \A g \in Blobs : file'[BlobPath(g)] = IF g = h THEN NoFile ELSE file[BlobPath(g)]
    BY <1>1, <1>3, <2>1, PathsDiffer DEF FilesInv
  <2>9. \A g \in Blobs : Stored(g) => Stored(g)'
    BY <1>3, <2>8 DEF Stored
  <2>10. Respects(p)
    BY <1>1, <1>3, <2>8, <2>9, <2>1 DEF Respects, Filed, FilesInv
  <2>11. SharedInv'
    <3>1. FilesInv'
      BY <1>1, <1>3, <2>1, <2>8 DEF FilesInv
    <3>2. ManifestsInv'
      <4>1. SUFFICES ASSUME NEW f \in Fps, Filed(f)', NEW m, m = file'[ManifestPath(f)],
                            NEW i \in 1 .. Len(m)
                     PROVE  \A g \in {m[i]} : Stored(g)' \/ g \in lost
        BY <1>1, <2>8 DEF ManifestsInv
      <4>2. Filed(f) /\ m = file[ManifestPath(f)] /\ m \in Manifests
        BY <1>1, <2>8, <4>1 DEF Filed, FilesInv
      <4>3. m[i] \in Blobs
        BY <4>2 DEF Manifests
      <4> QED BY <2>9, <4>2, <4>3 DEF IndInv, SharedInv, ManifestsInv
    <3>3. HistoryInv'
      BY <1>1, <1>3, <2>1 DEF IndInv, SharedInv, HistoryInv
    <3> QED BY <3>1, <3>2, <3>3 DEF SharedInv
  <2> QED BY <2>5, <2>7, <2>10, <2>11, ProcessStep
<1> QED BY <1>2, <1>3 DEF Sweep

\* The locks of the killed process are dropped, and nobody else's.
LEMMA KillStep ==
    ASSUME IndInv, NEW p \in Procs, Kill(p)
    PROVE  IndInv'
<1>1. /\ UNCHANGED <<file, tmp, remote, collected, lost, budget>> /\ RunsInv
      /\ kills < MaxKills /\ kills' = kills + 1 /\ tripped' = tripped \ {p}
      /\ lock' = [path \in Paths |-> IF lock[path] = p THEN NoProc ELSE lock[path]]
      /\ Finish(p, "killed", << >>)
  BY DEF Kill, IndInv
<1>2. "killed" \in Results \ (Successes \cup {"linkFailed"})
  BY DEF Results, Failures, Successes
<1>3. Moves(p) /\ ProcInv(p)'
  BY <1>1, <1>2, EmptyManifest, GiveUpStep
<1>4. SharedInv'
  <2>1. FilesInv'
    BY <1>1 DEF IndInv, SharedInv, FilesInv
  <2>2. ManifestsInv'
    BY <1>1 DEF IndInv, SharedInv, ManifestsInv, Filed, Stored
  <2>3. HistoryInv'
    BY <1>1, StoreAssumption DEF IndInv, SharedInv, HistoryInv
  <2> QED BY <2>1, <2>2, <2>3 DEF SharedInv
<1>5. Respects(p)
  BY <1>1 DEF Respects, Stored, Filed
<1> QED BY <1>3, <1>4, <1>5, ProcessStep

-----------------------------------------------------------------------------
(* The inductive invariant is one.                                         *)

LEMMA StepKeepsIndInv ==
    ASSUME IndInv, NEW p \in Procs, Step(p)
    PROVE  IndInv'
  BY LookupStep, ProbeStep, GetManifestStep, DedupStep, GetBlobStep, LeanStep, StoreStep, LockStep,
     GiveUpWriting, OpenStep, FillStep, ChmodStep, RenameStep, LinkStep, HeadManifestStep,
     HeadBlobStep, PutBlobStep, PutManifestStep, WalkStep, SweepStep DEF Step

LEMMA NextKeepsIndInv == IndInv /\ [Next]_vars => IndInv'
<1> SUFFICES ASSUME IndInv, [Next]_vars PROVE IndInv'
  OBVIOUS
<1>1. CASE UNCHANGED vars
  <2>1. SharedInv'
    BY <1>1 DEF vars, storeVars, worldVars, IndInv, SharedInv, FilesInv, ManifestsInv, HistoryInv,
                Filed, Stored
  <2>2. RunsInv'
    BY <1>1 DEF vars, IndInv, RunsInv
  <2>3. ASSUME NEW p \in Procs PROVE ProcInv(p)'
    BY <1>1 DEF vars, storeVars, worldVars, IndInv, ProcInv, SlotInv, HolderInv, TemporaryInv,
                PrefixInv, InsertInv, LookupInv, LayoutInv, LinkInv, PushInv, ResultInv,
                Succeeded, Complete, Filed, Stored
  <2> QED BY <2>1, <2>2, <2>3 DEF IndInv
<1>2. ASSUME NEW p \in Procs, Start(p) \/ Step(p) \/ Kill(p) PROVE IndInv'
  BY <1>2, StartStep, StepKeepsIndInv, KillStep
<1> QED BY <1>1, <1>2 DEF Next, Over

LEMMA InitIndInv == Init => IndInv
<1> SUFFICES ASSUME Init PROVE IndInv
  OBVIOUS
<1> USE DEF Init
<1>1. PICK f \in Fps : run = [p \in Procs |-> Idle("none", f, "none", << >>)]
  OBVIOUS
<1>2. FilesInv
  <2>1. PICK s \in Stores : file = s
    OBVIOUS
  <2>2. /\ s \in [Paths -> Manifests \cup Blobs \cup {NoFile}]
        /\ \A h \in Blobs : s[BlobPath(h)] \in {h, NoFile}
        /\ \A g \in Fps : s[ManifestPath(g)] \in Manifests \cup {NoFile}
    BY StoreAssumption
  <2>3. file \in [Paths -> Manifests \cup Blobs \cup {NoFile, Torn}]
    BY <2>1, <2>2
  <2>4. remote \in RemoteShape
    BY StoreAssumption
  <2> QED BY <2>1, <2>2, <2>3, <2>4 DEF FilesInv
<1>3. ManifestsInv
  <2>1. SUFFICES ASSUME NEW g \in Fps, Filed(g), NEW i \in 1 .. Len(file[ManifestPath(g)]),
                        ~Stored(file[ManifestPath(g)][i])
                 PROVE  file[ManifestPath(g)][i] \in lost
    BY DEF ManifestsInv
  <2>2. file[ManifestPath(g)] \in Seq(Blobs)
    BY <1>2, <2>1 DEF FilesInv, Filed, Manifests
  <2>3. file[ManifestPath(g)][i] \in MissingBlobs(g)
    BY <2>1, <2>2 DEF MissingBlobs, Stored
  <2> QED BY <2>1, <2>3
<1>4. HistoryInv
  BY StoreAssumption DEF HistoryInv, MissingBlobs
<1>5. RunsInv
  <2>1. "none" \in Results /\ "idle" \in Places
    BY DEF Results, Places
  <2>2. Idle("none", f, "none", << >>) \in Runs
    BY <2>1, EmptyManifest DEF Idle, Runs
  <2> QED BY <1>1, <2>2 DEF RunsInv
<1>6. ASSUME NEW p \in Procs PROVE ProcInv(p)
  <2>1. /\ run[p].pc = "idle" /\ run[p].result = "none" /\ run[p].k = 1 /\ run[p].man = << >>
    BY <1>1 DEF Idle
  <2> USE DEF Writing, Locked, Collecting
  <2>2. SlotInv(p) /\ HolderInv(p) /\ TemporaryInv(p) /\ PrefixInv(p) /\ InsertInv(p)
    BY <2>1 DEF SlotInv, HolderInv, TemporaryInv, PrefixInv, InsertInv
  <2>3. LookupInv(p) /\ LayoutInv(p) /\ LinkInv(p) /\ PushInv(p) /\ ResultInv(p)
    BY <2>1 DEF LookupInv, LayoutInv, LinkInv, PushInv, ResultInv, Succeeded
  <2> QED BY <2>2, <2>3 DEF ProcInv
<1> QED BY <1>2, <1>3, <1>4, <1>5, <1>6 DEF IndInv, SharedInv

-----------------------------------------------------------------------------
(* Honesty is kept: manifests go round between processes, the store and    *)
(* the remote, and new ones come from lean.                                *)

\* The process keeps its manifest, or ends without linking.
Settles(p) ==
    /\ \A q \in Procs \ {p} : run'[q] = run[q]
    /\ run'[p].fp = run[p].fp
    /\ \/ /\ run'[p].man = run[p].man /\ run'[p].dest = run[p].dest
          /\ run'[p].result = run[p].result
       \/ run'[p].man = << >> /\ run'[p].result \notin {"cached", "downloaded"}

LEMMA EmptyIsHonest == \A f : Honest(f, << >>)
  BY StoreAssumption DEF Honest

LEMMA HonestStep ==
    ASSUME HonestInv, IndInv, IndInv', NEW p \in Procs, Settles(p),
           \A f \in Fps : Honest(f, file'[ManifestPath(f)]) /\ Honest(f, remote'.manifests[f])
    PROVE  HonestInv'
<1>1. Honest(run'[p].fp, run'[p].man)
  BY EmptyIsHonest DEF Settles, HonestInv
<1>2. Succeeded(p)' => run'[p].dest \in Outputs[run'[p].fp]
  <2>1. run'[p].result = "built" => run'[p].dest \in Outputs[run'[p].fp]
    BY DEF IndInv, ProcInv, ResultInv
  <2> QED BY <2>1 DEF Settles, HonestInv, Succeeded
<1>3. \A q \in Procs \ {p} : /\ Honest(run'[q].fp, run'[q].man)
                             /\ Succeeded(q)' => run'[q].dest \in Outputs[run'[q].fp]
  BY DEF Settles, HonestInv, Succeeded
<1> QED BY <1>1, <1>2, <1>3 DEF HonestInv

LEMMA GotoSettles ==
    ASSUME RunsInv, NEW p \in Procs, NEW l,
           Goto(p, l) \/ (\E k : GotoSlot(p, l, k)) \/ (\E path : GotoWrite(p, path))
    PROVE  Settles(p)
<1>1. ASSUME Goto(p, l) PROVE Settles(p)
  BY <1>1, RunTypes DEF Goto, RunsInv, Runs, Settles
<1>2. ASSUME NEW k, GotoSlot(p, l, k) PROVE Settles(p)
  BY <1>2, RunTypes DEF GotoSlot, RunsInv, Runs, Settles
<1>3. ASSUME NEW path, GotoWrite(p, path) PROVE Settles(p)
  BY <1>3, RunTypes DEF GotoWrite, RunsInv, Runs, Settles
<1> QED BY <1>1, <1>2, <1>3

LEMMA FinishSettles ==
    ASSUME RunsInv, NEW p \in Procs, NEW result, NEW dest, Finish(p, result, dest),
           result \notin {"cached", "downloaded"}
    PROVE  Settles(p)
  BY RunTypes DEF Finish, Idle, RunsInv, Settles

LEMMA EndFetchSettles ==
    ASSUME RunsInv, NEW p \in Procs, NEW outcome \in {"fetched", "missing", "degraded"},
           EndFetch(p, outcome)
    PROVE  Settles(p)
<1>1. CASE run' = [run EXCEPT ![p].pc = "lookup", ![p].again = TRUE]
  BY <1>1, RunTypes DEF RunsInv, Runs, Settles
<1> QED BY <1>1, GotoSettles, FinishSettles DEF EndFetch

LEMMA WritersSettle ==
    ASSUME RunsInv, NEW p \in Procs, Missed(p) \/ Written(p) \/ WriteError(p)
    PROVE  Settles(p)
<1>1. CASE Missed(p)
  BY <1>1, GotoSettles, FinishSettles DEF Missed
<1>2. CASE Written(p)
  BY <1>2, GotoSettles, FinishSettles, EndFetchSettles DEF Written
<1>3. CASE WriteError(p)
  BY <1>3, FinishSettles, EndFetchSettles DEF WriteError
<1> QED BY <1>1, <1>2, <1>3

\* The steps that take up no manifest and hand out none.
LEMMA SettledSteps ==
    ASSUME RunsInv, NEW p \in Procs,
           \/ Probe(p) \/ Dedup(p) \/ GetBlob(p) \/ Store(p) \/ Lock(p) \/ Refused(p) \/ Open(p)
           \/ Fill(p) \/ FillFails(p) \/ Chmod(p) \/ HeadManifest(p) \/ HeadBlob(p) \/ PutBlob(p)
           \/ Walk(p) \/ Sweep(p) \/ Kill(p)
    PROVE  Settles(p)
<1>1. CASE Probe(p) \/ Dedup(p) \/ GetBlob(p) \/ Store(p)
  BY <1>1, GotoSettles, FinishSettles, EndFetchSettles, WritersSettle
  DEF Probe, Found, Dedup, GetBlob, Unreachable, Store
<1>2. CASE Lock(p) \/ Refused(p) \/ Open(p) \/ Fill(p) \/ FillFails(p) \/ Chmod(p)
  BY <1>2, GotoSettles, WritersSettle DEF Lock, Refused, Open, Fill, FillFails, Chmod
<1>3. CASE HeadManifest(p) \/ HeadBlob(p) \/ PutBlob(p) \/ Kill(p)
  BY <1>3, GotoSettles, FinishSettles DEF HeadManifest, HeadBlob, PutBlob, Kill
<1>4. CASE Walk(p)
  <2>1. ASSUME NEW D, run' = [run EXCEPT ![p].pc = "sweep", ![p].doomed = D] PROVE Settles(p)
    BY <2>1, RunTypes DEF RunsInv, Runs, Settles
  <2> QED BY <1>4, <2>1, FinishSettles DEF Walk
<1>5. CASE Sweep(p)
  <2>1. ASSUME NEW h, run' = [run EXCEPT ![p].doomed = @ \ {h}] PROVE Settles(p)
    BY <2>1, RunTypes DEF RunsInv, Runs, Settles
  <2> QED BY <1>5, <2>1, FinishSettles DEF Sweep
<1> QED BY <1>1, <1>2, <1>3, <1>4, <1>5

\* They leave the manifests alone.
LEMMA SettledManifests ==
    ASSUME IndInv, NEW p \in Procs,
           \/ Probe(p) \/ Dedup(p) \/ GetBlob(p) \/ Store(p) \/ Lock(p) \/ Refused(p) \/ Open(p)
           \/ Fill(p) \/ FillFails(p) \/ Chmod(p) \/ HeadManifest(p) \/ HeadBlob(p) \/ PutBlob(p)
           \/ Walk(p) \/ Sweep(p) \/ Kill(p)
    PROVE  \A f \in Fps : /\ file'[ManifestPath(f)] = file[ManifestPath(f)]
                          /\ remote'.manifests[f] = remote.manifests[f]
<1>1. CASE Sweep(p)
  <2>1. ASSUME NEW h \in Present, file' = [file EXCEPT ![BlobPath(h)] = NoFile], NEW f \in Fps
        PROVE  file'[ManifestPath(f)] = file[ManifestPath(f)]
    BY <2>1, PathsDiffer DEF Present, IndInv, SharedInv, FilesInv
  <2> QED BY <1>1, <2>1 DEF Sweep
<1>2. CASE PutBlob(p)
  BY <1>2 DEF PutBlob, storeVars, IndInv, SharedInv, FilesInv, RemoteShape
<1>3. CASE Probe(p) \/ Dedup(p) \/ GetBlob(p) \/ Store(p)
  BY <1>3 DEF Probe, Dedup, GetBlob, Store, storeVars
<1>4. CASE Lock(p) \/ Refused(p) \/ Open(p) \/ Fill(p) \/ FillFails(p) \/ Chmod(p)
  BY <1>4 DEF Lock, Refused, Open, Fill, FillFails, Chmod
<1>5. CASE HeadManifest(p) \/ HeadBlob(p) \/ Walk(p) \/ Kill(p)
  BY <1>5 DEF HeadManifest, HeadBlob, Walk, Kill, storeVars
<1> QED BY <1>1, <1>2, <1>3, <1>4, <1>5

\* A process takes up a manifest that is honest.
LEMMA TakesStep ==
    ASSUME HonestInv, NEW p \in Procs, \A q \in Procs \ {p} : run'[q] = run[q],
           Honest(run'[p].fp, run'[p].man), run'[p].result = "none",
           UNCHANGED <<storeVars, remote>>
    PROVE  HonestInv'
  BY DEF HonestInv, Succeeded, storeVars

LEMMA HonestLookup ==
    ASSUME HonestInv, IndInv, IndInv', NEW p \in Procs, Lookup(p)
    PROVE  HonestInv'
<1>1. /\ RunsInv /\ UNCHANGED <<storeVars, remote>> /\ run[p].result = "none"
  BY DEF IndInv, Lookup, At, ProcInv, ResultInv
<1>2. CASE Missed(p)
  BY <1>1, <1>2, WritersSettle, HonestStep DEF HonestInv, storeVars
<1>3. ASSUME NEW m, m = file[ManifestPath(run[p].fp)], m \notin {NoFile, Torn},
             run' = [run EXCEPT ![p].pc = "probe", ![p].man = m, ![p].k = 1]
      PROVE  HonestInv'
  <2>1. m \in Manifests
    BY <1>1, <1>3, RunTypes DEF IndInv, SharedInv, FilesInv
  <2>2. "probe" \in Places
    BY DEF Places
  <2>3. /\ Moves(p) /\ run'[p].man = m /\ run'[p].fp = run[p].fp
        /\ run'[p].result = run[p].result
    BY <1>1, <1>3, <2>1, <2>2, 1 \in Nat \ {0}, ReadMoves
  <2>4. Honest(run'[p].fp, run'[p].man)
    BY <1>1, <1>3, <2>3, RunTypes DEF HonestInv
  <2> QED BY <1>1, <2>3, <2>4, TakesStep DEF Moves
<1> QED BY <1>2, <1>3 DEF Lookup

LEMMA HonestGetManifest ==
    ASSUME HonestInv, IndInv, IndInv', NEW p \in Procs, GetManifest(p)
    PROVE  HonestInv'
<1>1. /\ RunsInv /\ UNCHANGED <<storeVars, remote>> /\ run[p].result = "none"
  BY DEF IndInv, GetManifest, At, ProcInv, ResultInv
<1>2. ASSUME NEW outcome \in {"fetched", "missing", "degraded"}, EndFetch(p, outcome)
      PROVE  HonestInv'
  BY <1>1, <1>2, EndFetchSettles, HonestStep DEF HonestInv, storeVars
<1>3. ASSUME NEW m, m = remote.manifests[run[p].fp], m # NoFile,
             run' = [run EXCEPT ![p].pc = "dedup", ![p].man = m, ![p].k = 1, ![p].call = "fetch"]
      PROVE  HonestInv'
  <2>1. m \in Manifests
    BY <1>1, <1>3, RunTypes DEF IndInv, SharedInv, FilesInv, RemoteShape
  <2>2. /\ Moves(p) /\ run'[p].man = m /\ run'[p].fp = run[p].fp
        /\ run'[p].result = run[p].result
    BY <1>1, <1>3, <2>1, 1 \in Nat \ {0}, FetchMoves
  <2>3. Honest(run'[p].fp, run'[p].man)
    BY <1>1, <1>3, <2>2, RunTypes DEF HonestInv
  <2> QED BY <1>1, <2>2, <2>3, TakesStep DEF Moves
<1> QED BY <1>2, <1>3 DEF GetManifest, Unreachable

LEMMA HonestLean ==
    ASSUME HonestInv, IndInv, IndInv', NEW p \in Procs, Lean(p)
    PROVE  HonestInv'
<1>1. /\ RunsInv /\ UNCHANGED <<storeVars, remote>> /\ run[p].result = "none"
  BY DEF IndInv, Lean, At, ProcInv, ResultInv
<1>2. CASE Finish(p, "leanFailed", << >>)
  BY <1>1, <1>2, FinishSettles, HonestStep DEF HonestInv, storeVars
<1>3. ASSUME NEW m \in Outputs[run[p].fp],
             run' = [run EXCEPT ![p].pc = "store", ![p].man = m, ![p].k = 1,
                                ![p].call = "insert", ![p].dest = m]
      PROVE  HonestInv'
  <2>1. m \in Manifests
    BY <1>1, RunTypes, StoreAssumption
  <2>2. /\ Moves(p) /\ run'[p].man = m /\ run'[p].fp = run[p].fp
        /\ run'[p].result = run[p].result
    BY <1>1, <1>3, <2>1, 1 \in Nat \ {0}, OutputMoves
  <2>3. Honest(run'[p].fp, run'[p].man)
    BY <2>2 DEF Honest
  <2> QED BY <1>1, <2>2, <2>3, TakesStep DEF Moves
<1> QED BY <1>2, <1>3 DEF Lean

LEMMA HonestStart ==
    ASSUME HonestInv, IndInv, IndInv', NEW p \in Procs, Start(p)
    PROVE  HonestInv'
<1>1. RunsInv /\ UNCHANGED <<storeVars, remote>>
  BY DEF IndInv, Start
<1>2. PICK op, f, l : run' = [run EXCEPT ![p] = [Idle(op, f, "none", << >>) EXCEPT !.pc = l]]
  BY DEF Start
<1>3. run'[p] = [Idle(op, f, "none", << >>) EXCEPT !.pc = l]
      /\ \A q \in Procs \ {p} : run'[q] = run[q]
  BY <1>1, <1>2 DEF RunsInv
<1>4. run'[p].man = << >> /\ run'[p].result = "none"
  BY <1>3 DEF Idle
<1> QED BY <1>1, <1>3, <1>4, EmptyIsHonest, TakesStep

\* What is linked slot by slot is in the end the manifest itself.
LEMMA HonestLink ==
    ASSUME HonestInv, IndInv, IndInv', NEW p \in Procs, Link(p)
    PROVE  HonestInv'
<1>1. /\ RunsInv /\ UNCHANGED <<storeVars, remote>> /\ run[p].result = "none"
      /\ LinkInv(p) /\ SlotInv(p) /\ run[p].pc = "link"
  BY DEF IndInv, Link, At, ProcInv, ResultInv
<1>2. CASE AllSlots(p) /\ Finish(p, IF run[p].again THEN "downloaded" ELSE "cached", run[p].dest)
  <2>1. run[p].k - 1 = Len(run[p].man)
    BY <1>1, <1>2, RunTypes DEF AllSlots, SlotInv
  <2>2. run[p].dest = run[p].man
    <3>1. run[p].dest \in Seq(Blobs) /\ run[p].man \in Seq(Blobs)
      BY <1>1, RunTypes DEF Manifests
    <3>2. /\ Len(run[p].dest) = Len(run[p].man)
          /\ \A i \in 1 .. Len(run[p].dest) : run[p].dest[i] = run[p].man[i]
      BY <1>1, <2>1, RunTypes DEF LinkInv
    <3> QED BY <3>1, <3>2, SeqEqual
  <2>3. run[p].dest \in Outputs[run[p].fp]
    BY <1>1, <2>2, RunTypes DEF HonestInv, Honest, LinkInv
  <2>4. /\ run'[p].man = << >> /\ run'[p].fp = run[p].fp /\ run'[p].dest = run[p].dest
        /\ \A q \in Procs \ {p} : run'[q] = run[q]
    BY <1>1, <1>2 DEF Finish, Idle, RunsInv
  <2> QED BY <1>1, <2>3, <2>4, EmptyIsHonest DEF HonestInv, Succeeded, storeVars
<1>3. ASSUME NEW d, run' = [run EXCEPT ![p].dest = d, ![p].k = @ + 1] PROVE HonestInv'
  <2>1. /\ run'[p].man = run[p].man /\ run'[p].fp = run[p].fp /\ run'[p].result = run[p].result
        /\ \A q \in Procs \ {p} : run'[q] = run[q]
    BY <1>1, <1>3, RunTypes DEF RunsInv, Runs
  <2> QED BY <1>1, <2>1, TakesStep DEF HonestInv
<1>4. CASE Finish(p, "linkFailed", << >>)
  BY <1>1, <1>4, FinishSettles, HonestStep DEF HonestInv, storeVars
<1> QED
  <2>1. ASSUME run' = [run EXCEPT ![p].dest = Append(@, file[BlobPath(Blob(p))]), ![p].k = @ + 1]
        PROVE  run' = [run EXCEPT ![p].dest = Append(run[p].dest, file[BlobPath(Blob(p))]),
                                  ![p].k = @ + 1]
    BY <1>1, <2>1 DEF RunsInv
  <2> QED BY <1>2, <1>3, <1>4, <2>1 DEF Link

\* What a process files or pushes is the manifest it has taken up.
LEMMA HonestRename ==
    ASSUME HonestInv, IndInv, IndInv', NEW p \in Procs, Rename(p)
    PROVE  HonestInv'
<1>1. run[p].pc = "rename" /\ run[p].pc \in Locked /\ Written(p) /\ UNCHANGED remote
      /\ file' = [file EXCEPT ![run[p].target] = tmp[run[p].target].data]
  BY DEF Rename, At, Locked
<1>2. /\ RunsInv /\ FilesInv /\ ProcInv(p) /\ run[p].pc \in Writing /\ run[p].target \in Paths
  BY <1>1, HoldersLock
<1>3. tmp[run[p].target].data = IF WritingManifest(p) THEN run[p].man ELSE run[p].man[run[p].k]
  BY <1>1, <1>2 DEF ProcInv, TemporaryInv, WritingManifest
<1>4. ASSUME NEW f \in Fps PROVE Honest(f, file'[ManifestPath(f)])
  <2>1. CASE run[p].target = ManifestPath(f)
    <3>1. f = run[p].fp /\ WritingManifest(p)
      BY <1>2, <2>1, TargetsAreSlots, RunTypes, PathsDiffer DEF WritingManifest
    <3>2. file'[ManifestPath(f)] = run[p].man
      BY <1>1, <1>2, <1>3, <2>1, <3>1 DEF FilesInv
    <3> QED BY <3>1, <3>2 DEF HonestInv
  <2>2. CASE run[p].target # ManifestPath(f)
    BY <1>1, <1>2, <2>2, PathsDiffer DEF FilesInv, HonestInv
  <2> QED BY <2>1, <2>2
<1>5. Settles(p)
  BY <1>1, <1>2, WritersSettle
<1> QED BY <1>1, <1>4, <1>5, HonestStep DEF HonestInv

LEMMA HonestPutManifest ==
    ASSUME HonestInv, IndInv, IndInv', NEW p \in Procs, PutManifest(p)
    PROVE  HonestInv'
<1>1. RunsInv /\ UNCHANGED file /\ remote \in RemoteShape
  BY DEF IndInv, SharedInv, FilesInv, PutManifest, storeVars
<1>2. CASE Finish(p, "putFailed", << >>) /\ UNCHANGED remote
  BY <1>1, <1>2, FinishSettles, HonestStep DEF HonestInv
<1>3. CASE /\ remote' = [remote EXCEPT !.manifests[run[p].fp] = run[p].man]
           /\ Finish(p, "pushed", << >>)
  <2>1. \A f \in Fps : remote'.manifests[f] = IF f = run[p].fp THEN run[p].man
                                              ELSE remote.manifests[f]
    BY <1>1, <1>3, RunTypes DEF RemoteShape
  <2>2. \A f \in Fps : Honest(f, remote'.manifests[f])
    BY <2>1 DEF HonestInv
  <2> QED BY <1>1, <1>3, <2>2, FinishSettles, HonestStep DEF HonestInv
<1> QED BY <1>2, <1>3 DEF PutManifest

LEMMA NextKeepsHonestInv == HonestInv /\ IndInv /\ IndInv' /\ [Next]_vars => HonestInv'
<1> SUFFICES ASSUME HonestInv, IndInv, IndInv', [Next]_vars PROVE HonestInv'
  OBVIOUS
<1>1. CASE UNCHANGED vars
  BY <1>1 DEF vars, storeVars, HonestInv, Succeeded
<1>2. ASSUME NEW p \in Procs, Start(p) \/ Step(p) \/ Kill(p) PROVE HonestInv'
  <2>1. CASE \/ Start(p) \/ Lookup(p) \/ GetManifest(p) \/ Lean(p) \/ Link(p) \/ Rename(p)
             \/ PutManifest(p)
    BY <2>1, HonestStart, HonestLookup, HonestGetManifest, HonestLean, HonestLink, HonestRename,
       HonestPutManifest
  <2>2. CASE \/ Probe(p) \/ Dedup(p) \/ GetBlob(p) \/ Store(p) \/ Lock(p) \/ Refused(p) \/ Open(p)
             \/ Fill(p) \/ FillFails(p) \/ Chmod(p) \/ HeadManifest(p) \/ HeadBlob(p)
             \/ PutBlob(p) \/ Walk(p) \/ Sweep(p) \/ Kill(p)
    <3>1. Settles(p)
      BY <2>2, SettledSteps DEF IndInv
    <3>2. \A f \in Fps : /\ file'[ManifestPath(f)] = file[ManifestPath(f)]
                         /\ remote'.manifests[f] = remote.manifests[f]
      BY <2>2, SettledManifests
    <3> QED BY <3>1, <3>2, HonestStep DEF HonestInv
  <2> QED BY <1>2, <2>1, <2>2 DEF Step
<1> QED BY <1>1, <1>2 DEF Next, Over

LEMMA InitHonestInv == HonestSources /\ Init => HonestInv
<1> SUFFICES ASSUME HonestSources, Init PROVE HonestInv
  OBVIOUS
<1>1. PICK f \in Fps : run = [p \in Procs |-> Idle("none", f, "none", << >>)]
  BY DEF Init
<1>2. \A p \in Procs : run[p].man = << >> /\ run[p].result = "none"
  BY <1>1 DEF Idle
<1> QED BY <1>2, EmptyIsHonest DEF Init, HonestSources, HonestInv, Succeeded

-----------------------------------------------------------------------------
(* The theorems.                                                           *)

\* The inductive invariant holds in every state of the store.
THEOREM Inductive == Spec => []IndInv
<1> QED BY InitIndInv, NextKeepsIndInv, PTL DEF Spec

\* The manifest of a filed fingerprint.
LEMMA FiledTypes ==
    ASSUME FilesInv, NEW f \in Fps, Filed(f)
    PROVE  /\ file[ManifestPath(f)] \in Seq(Blobs)
           /\ DOMAIN file[ManifestPath(f)] = 1 .. Len(file[ManifestPath(f)])
  BY DEF FilesInv, Filed, Manifests

\* Whoever writes beside a path holds its lock, and every variable stays in
\* its domain (TypeOK), for any number of threads, kills and collectors.
THEOREM TypeCorrect == Spec => []TypeOK
<1>1. IndInv => TypeOK
  <2> SUFFICES ASSUME IndInv PROVE TypeOK
    OBVIOUS
  <2>1. SharedInv /\ RunsInv /\ FilesInv /\ HistoryInv
    BY DEF IndInv, SharedInv
  <2>2. \A path \in Paths :
           tmp[path] = NoFile \/ tmp[path] \in [data : Manifests \cup Blobs \cup {Torn},
                                                readonly : BOOLEAN]
    BY <2>1 DEF FilesInv, Temporaries
  <2>3. ASSUME NEW p \in Procs
        PROVE  /\ run[p].pc \in Places /\ run[p].op \in Ops \cup {"none"} /\ run[p].fp \in Fps
               /\ run[p].man \in Manifests /\ run[p].k \in 1 .. Len(run[p].man) + 1
               /\ run[p].result \in Results /\ run[p].dest \in Seq(Blobs \cup {Torn})
               /\ run[p].doomed \subseteq Blobs
               /\ At(p, "open") \/ At(p, "fill") \/ At(p, "chmod") \/ At(p, "rename") =>
                      run[p].target \in Paths /\ lock[run[p].target] = p
    <3>1. run[p].k \in 1 .. Len(run[p].man) + 1
      BY <2>1, RunTypes DEF IndInv, ProcInv, SlotInv
    <3>2. run[p].dest \in Seq(Blobs \cup {Torn})
      BY <2>1, RunTypes DEF Manifests
    <3>3. run[p].pc \in Locked => run[p].target \in Paths /\ lock[run[p].target] = p
      BY HoldersLock
    <3> QED BY <2>1, <3>1, <3>2, <3>3, RunTypes DEF At, Locked
  <2> QED BY <2>1, <2>2, <2>3 DEF TypeOK, FilesInv, HistoryInv
<1> QED BY <1>1, Inductive, PTL

\* write_atomic_readonly: a blob file holds what its name says, whoever is
\* killed in the middle of writing it and whoever else writes it.
THEOREM BlobsStayIntact == Spec => []BlobsAreIntact
<1>1. IndInv => BlobsAreIntact
  BY DEF IndInv, SharedInv, FilesInv, BlobsAreIntact
<1> QED BY <1>1, Inductive, PTL

\* insert and fetch write the blobs first and the manifest last: only a gc
\* leaves a manifest without one of its blobs.
THEOREM ManifestsComeLast == Spec => []OnlyGcLeavesDanglingManifests
<1>1. IndInv => OnlyGcLeavesDanglingManifests
  <2> SUFFICES ASSUME IndInv, NEW f \in Fps, Filed(f), NEW h \in MissingBlobs(f)
               PROVE  h \in collected \cup lost
    BY DEF OnlyGcLeavesDanglingManifests
  <2>1. PICK i \in 1 .. Len(file[ManifestPath(f)]) :
            file[ManifestPath(f)][i] = h /\ file[BlobPath(h)] = NoFile
    BY FiledTypes DEF MissingBlobs, IndInv, SharedInv
  <2> QED BY <2>1 DEF IndInv, SharedInv, ManifestsInv, Stored
<1> QED BY <1>1, Inductive, PTL

\* lookup answers only with what materialize can link: a job fails for want
\* of a blob only if a gc took it in between.
THEOREM LookupsAreGood == Spec => []LinkFailsOnlyForGc
<1>1. IndInv => LinkFailsOnlyForGc
  BY DEF IndInv, ProcInv, ResultInv, LinkFailsOnlyForGc
<1> QED BY <1>1, Inductive, PTL

\* A job that succeeds, by running lean, from the store or from the remote,
\* leaves its fingerprint with a manifest of its arity and all its blobs, as
\* long as no gc runs.
THEOREM JobsHeal == Spec => []BuildsHealTheStore
<1>1. IndInv => BuildsHealTheStore
  <2> SUFFICES ASSUME IndInv, NEW p \in Procs, Succeeded(p), collected = {}
               PROVE  /\ Filed(run[p].fp)
                      /\ Len(file[ManifestPath(run[p].fp)]) = Arity
                      /\ MissingBlobs(run[p].fp) = {}
    BY DEF BuildsHealTheStore
  <2>1. Complete(run[p].fp) /\ run[p].fp \in Fps /\ FilesInv
    BY RunTypes DEF IndInv, SharedInv, ProcInv, ResultInv
  <2>2. Filed(run[p].fp) /\ Len(file[ManifestPath(run[p].fp)]) = Arity
    BY <2>1 DEF Complete
  <2>3. \A i \in DOMAIN file[ManifestPath(run[p].fp)] :
            file[BlobPath(file[ManifestPath(run[p].fp)][i])] # NoFile
    BY <2>1, <2>2, FiledTypes DEF Complete, Stored
  <2> QED BY <2>2, <2>3 DEF MissingBlobs
<1> QED BY <1>1, Inductive, PTL

\* The steps that change a manifest of the remote, or one of the store.
LEMMA ManifestWriters ==
    ASSUME IndInv, [Next]_vars, NEW f \in Fps
    PROVE  /\ remote'.manifests[f] # remote.manifests[f] => \E p \in Procs : PutManifest(p)
           /\ file'[ManifestPath(f)] # file[ManifestPath(f)] => \E p \in Procs : Rename(p)
<1>1. CASE UNCHANGED vars
  BY <1>1 DEF vars, storeVars
<1>2. ASSUME NEW p \in Procs, Start(p) \/ Step(p) \/ Kill(p)
      PROVE  /\ remote'.manifests[f] # remote.manifests[f] => PutManifest(p)
             /\ file'[ManifestPath(f)] # file[ManifestPath(f)] => Rename(p)
  <2>1. CASE Start(p) \/ Lookup(p) \/ GetManifest(p) \/ Lean(p) \/ Link(p)
    BY <2>1 DEF Start, Lookup, GetManifest, Lean, Link, storeVars
  <2>2. CASE Rename(p) \/ PutManifest(p)
    BY <2>2 DEF Rename, PutManifest, storeVars
  <2>3. CASE \/ Probe(p) \/ Dedup(p) \/ GetBlob(p) \/ Store(p) \/ Lock(p) \/ Refused(p) \/ Open(p)
             \/ Fill(p) \/ FillFails(p) \/ Chmod(p) \/ HeadManifest(p) \/ HeadBlob(p)
             \/ PutBlob(p) \/ Walk(p) \/ Sweep(p) \/ Kill(p)
    BY <2>3, SettledManifests
  <2> QED BY <1>2, <2>1, <2>2, <2>3 DEF Step
<1> QED BY <1>1, <1>2 DEF Next, Over

\* push_one: a manifest goes up after the last of its blobs, so that no
\* reader of the remote finds it without one of them.
THEOREM BlobsGoUpFirst == Spec => PushesAreComplete
<1>1. IndInv /\ [Next]_vars =>
          [\A f \in Fps : remote'.manifests[f] # remote.manifests[f] =>
               \A i \in DOMAIN remote'.manifests[f] :
                   remote'.blobs[remote'.manifests[f][i]] # "absent"]_vars
  <2> SUFFICES ASSUME IndInv, [Next]_vars, NEW f \in Fps,
                      remote'.manifests[f] # remote.manifests[f],
                      NEW i \in DOMAIN remote'.manifests[f]
               PROVE  remote'.blobs[remote'.manifests[f][i]] # "absent"
    OBVIOUS
  <2>1. PICK p \in Procs : PutManifest(p)
    BY ManifestWriters
  <2>2. RunsInv /\ FilesInv /\ PushInv(p) /\ run[p].pc = "putManifest"
    BY <2>1 DEF IndInv, SharedInv, ProcInv, PutManifest, At
  <2>3. remote' = [remote EXCEPT !.manifests[run[p].fp] = run[p].man]
    BY <2>1 DEF PutManifest
  <2>4. remote'.manifests[f] = run[p].man /\ remote'.blobs = remote.blobs
    BY <2>2, <2>3, RunTypes DEF FilesInv, RemoteShape
  <2>5. DOMAIN run[p].man = 1 .. Len(run[p].man)
    BY <2>2, RunTypes DEF Manifests
  <2> QED BY <2>2, <2>4, <2>5 DEF PushInv
<1> QED BY <1>1, Inductive, PTL DEF Spec, PushesAreComplete

\* write_atomic_readonly leaves a file that is there alone, unless it files
\* the manifest of an insert: what a remote says never replaces what a lean
\* run here has written.
THEOREM InsertsWin == Spec => FetchReplacesNothing
<1>1. IndInv /\ [Next]_vars =>
          [\A f \in Fps : Filed(f) /\ file'[ManifestPath(f)] # file[ManifestPath(f)] =>
               \E p \in Procs : At(p, "rename") /\ run'[p].result = "built"]_vars
  <2> SUFFICES ASSUME IndInv, [Next]_vars, NEW f \in Fps, Filed(f),
                      file'[ManifestPath(f)] # file[ManifestPath(f)]
               PROVE  \E p \in Procs : At(p, "rename") /\ run'[p].result = "built"
    OBVIOUS
  <2>1. PICK p \in Procs : Rename(p)
    BY ManifestWriters
  <2>2. /\ run[p].pc = "rename" /\ run[p].pc \in Locked /\ Written(p)
        /\ file' = [file EXCEPT ![run[p].target] = tmp[run[p].target].data]
    BY <2>1 DEF Rename, At, Locked
  <2>3. /\ RunsInv /\ FilesInv /\ run[p].target \in Paths
        /\ \/ file[run[p].target] = NoFile
           \/ WritingManifest(p) /\ run[p].call = "insert"
    BY <2>2, HoldersLock
  <2>4. run[p].target = ManifestPath(f)
    BY <2>2, <2>3, PathsDiffer DEF FilesInv
  <2>5. WritingManifest(p) /\ run[p].call = "insert"
    BY <2>3, <2>4 DEF Filed
  <2>6. Finish(p, "built", run[p].dest)
    BY <2>2, <2>5 DEF Written
  <2>7. run'[p].result = "built"
    BY <2>3, <2>6 DEF Finish, Idle, RunsInv
  <2> QED BY <2>2, <2>7 DEF At
<1> QED BY <1>1, Inductive, PTL DEF Spec, FetchReplacesNothing

\* A job that succeeds leaves one whole family that lean could have written
\* for its fingerprint, whatever shapes of manifest the store has kept and
\* the remote hands out, as long as those of the right arity are honest:
\* cache.rs checks a manifest's arity, and takes its content on trust.
THEOREM BuildsDeliver == ASSUME HonestSources PROVE Spec => []BuildsDeliverAnOutput
<1>1. Init => HonestInv
  BY InitHonestInv
<1>2. HonestInv /\ IndInv /\ IndInv' /\ [Next]_vars => HonestInv'
  BY NextKeepsHonestInv
<1>3. HonestInv => BuildsDeliverAnOutput
  BY DEF HonestInv, BuildsDeliverAnOutput
<1> QED BY <1>1, <1>2, <1>3, Inductive, PTL DEF Spec

=============================================================================
