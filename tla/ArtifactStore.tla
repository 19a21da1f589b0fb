---------------------------- MODULE ArtifactStore ----------------------------
(***************************************************************************)
(* The content-addressed artifact store of leanr_build (cache.rs), its     *)
(* remote tier (remote.rs) and the job that uses them (compile.rs), as     *)
(* processes that share nothing but a directory: each may be killed        *)
(* between any two of its file-system operations.                          *)
(*                                                                         *)
(* A manifest is the sequence of the blobs of a module's artifacts, filed  *)
(* under a fingerprint; a blob is filed under the hash of its content, so  *)
(* the content of an intact blob file is its own name.  A process here is  *)
(* a thread of a build, of `cache get` or of `cache push`, or a            *)
(* `cache gc`; it works on one fingerprint at a time.                      *)
(*                                                                         *)
(* Atomicity.  One action is one operation on the file system or one       *)
(* request; taking a lock is joined with the test that follows it, and the *)
(* rename with the release of the lock.                                    *)
(***************************************************************************)
EXTENDS Naturals, Sequences, FiniteSets

CONSTANTS Procs,         \* threads and processes that use the store
          Fps,           \* fingerprints
          Blobs,         \* blob hashes, or the contents they name
          Arity,         \* artifacts of a module
          Outputs,       \* the families a lean run for a fingerprint may write
          Remotes,       \* what the remote may hold at first
          Stores,        \* what the store may hold at first
          Ops,           \* what processes do: "build", "get", "push", "gc"
          Cap,           \* gc --max-size, in blobs
          MaxOps,        \* bound: operations begun in a behaviour
          MaxKills,      \* bound: processes killed in a behaviour
          NoFile,        \* the file does not exist
          Torn,          \* a temporary file that is not fully written
          NoProc         \* nobody holds the lock

Manifests == Seq(Blobs)

BlobPath(h) == <<"blob", h>>
ManifestPath(f) == <<"manifest", f>>
Paths == {BlobPath(h) : h \in Blobs} \cup {ManifestPath(f) : f \in Fps}

RemoteShape == [manifests : [Fps -> Manifests \cup {NoFile}],
                blobs : [Blobs -> {"absent", "good", "bad"}]]

ASSUME StoreAssumption ==
    /\ Arity \in Nat \ {0}
    /\ \A f \in Fps : /\ Outputs[f] \subseteq Manifests
                      /\ \A m \in Outputs[f] : Len(m) = Arity
    /\ Remotes \subseteq RemoteShape
    /\ \A s \in Stores : /\ s \in [Paths -> Manifests \cup Blobs \cup {NoFile}]
                         /\ \A h \in Blobs : s[BlobPath(h)] \in {h, NoFile}
                         /\ \A f \in Fps : s[ManifestPath(f)] \in Manifests \cup {NoFile}
    /\ Ops \subseteq {"build", "get", "push", "gc"}
    /\ {Cap, MaxOps, MaxKills} \subseteq Nat
    /\ NoFile \notin Manifests \cup Blobs /\ Torn \notin Manifests \cup Blobs \cup {NoFile}
    /\ NoProc \notin Procs

VARIABLES
    file,       \* content of each file of the store, by path
    tmp,        \* the temporary file beside each path
    lock,       \* who holds the flock of each path
    remote,     \* manifests and blobs of the remote
    run,        \* what each process is doing, a record
    tripped,    \* processes whose remote circuit breaker has tripped
    collected,  \* history: blobs some gc has removed
    budget,     \* operations that may still begin
    lost,       \* history: blobs that earlier gcs have taken from manifests
    kills       \* processes killed so far

storeVars == <<file, tmp, lock>>
worldVars == <<collected, lost, budget, kills>>
vars == <<storeVars, remote, run, tripped, worldVars>>

Places == {"idle", "lookup", "probe", "getManifest", "dedup", "getBlob",
           "store", "lock", "open", "fill", "chmod", "rename", "lean", "link",
           "headManifest", "headBlob", "putBlob", "putManifest", "walk", "sweep"}

Failures == {"leanFailed", "writeFailed", "linkFailed", "readFailed", "putFailed", "gcFailed"}
Results == {"none", "killed", "built", "cached", "downloaded", "local", "fetched", "missing",
            "degraded", "pushed", "skipped", "nothing", "collected"} \cup Failures

Idle(op, f, result, dest) ==
    [pc |-> "idle", op |-> op, fp |-> f, man |-> << >>, k |-> 1, target |-> << >>,
     again |-> FALSE, call |-> "none", doomed |-> {}, result |-> result, dest |-> dest]

\* Readable manifests.
Filed(f) == file[ManifestPath(f)] \notin {NoFile, Torn}

MissingBlobs(f) == {h \in Blobs : /\ \E i \in DOMAIN file[ManifestPath(f)] :
                                         file[ManifestPath(f)][i] = h
                                  /\ file[BlobPath(h)] = NoFile}

Init ==
    /\ file \in Stores
    /\ tmp = [path \in Paths |-> NoFile]
    /\ lock = [path \in Paths |-> NoProc]
    /\ remote \in Remotes
    /\ \E f \in Fps : run = [p \in Procs |-> Idle("none", f, "none", << >>)]
    /\ tripped = {}
    /\ collected = {}
    /\ budget = MaxOps
    /\ lost = UNION {MissingBlobs(f) : f \in {g \in Fps : Filed(g)}}
    /\ kills = 0

-----------------------------------------------------------------------------
(* Moves of a process. *)

At(p, l) == run[p].pc = l

Goto(p, l) == run' = [run EXCEPT ![p].pc = l]

\* To l, with slot k of the manifest at hand.
GotoSlot(p, l, k) == run' = [run EXCEPT ![p].pc = l, ![p].k = k]

\* To write_atomic_readonly on path.
GotoWrite(p, path) == run' = [run EXCEPT ![p].pc = "lock", ![p].target = path]

Finish(p, result, dest) == run' = [run EXCEPT ![p] = Idle(run[p].op, run[p].fp, result, dest)]

\* The blob of the slot at hand, and whether the slots are all dealt with.
Blob(p) == run[p].man[run[p].k]
AllSlots(p) == run[p].k > Len(run[p].man)

\* A forced build does not look.
FirstPlaces(op) == IF op = "gc" THEN {"walk"}
                   ELSE IF op = "build" THEN {"lookup", "lean"} ELSE {"lookup"}

\* A thread takes up a fingerprint, or a command begins.
Start(p) ==
    /\ At(p, "idle")
    /\ budget > 0
    /\ \E op \in Ops, f \in Fps : \E l \in FirstPlaces(op) :
           run' = [run EXCEPT ![p] = [Idle(op, f, "none", << >>) EXCEPT !.pc = l]]
    /\ budget' = budget - 1
    /\ UNCHANGED <<storeVars, remote, tripped, collected, lost, kills>>

-----------------------------------------------------------------------------
(* Cache::lookup: the manifest, then the existence of each of its blobs. *)

\* A miss leads a build to the remote, if there is one and it has not been
\* asked yet, and then to lean.
Missed(p) ==
    \/ run[p].op = "build" /\ ~run[p].again /\ Goto(p, "getManifest")
    \/ run[p].op = "build" /\ Goto(p, "lean")
    \/ run[p].op = "get" /\ Goto(p, "getManifest")
    \/ run[p].op = "push" /\ Finish(p, "nothing", << >>)

\* Mutation: whatever the manifest lists is linked.
FoundAnyArity(p) ==
    \/ run[p].op = "build" /\ GotoSlot(p, "link", 1)
    \/ run[p].op = "get" /\ Finish(p, "local", << >>)
    \/ run[p].op = "push" /\ GotoSlot(p, "headManifest", 1)

\* A build takes only a manifest of its own arity.
Found(p) ==
    \/ run[p].op = "build" /\ Len(run[p].man) = Arity /\ GotoSlot(p, "link", 1)
    \/ run[p].op = "build" /\ Len(run[p].man) # Arity /\ Goto(p, "lean")
    \/ run[p].op = "get" /\ Finish(p, "local", << >>)
    \/ run[p].op = "push" /\ GotoSlot(p, "headManifest", 1)

\* An unreadable manifest is a miss.
Lookup(p) ==
    /\ At(p, "lookup")
    /\ LET m == file[ManifestPath(run[p].fp)] IN
       \/ m \in {NoFile, Torn} /\ Missed(p)
       \/ m \notin {NoFile, Torn}
          /\ run' = [run EXCEPT ![p].pc = "probe", ![p].man = m, ![p].k = 1]
    /\ UNCHANGED <<storeVars, remote, tripped, worldVars>>

\* Mutation: the blobs are taken to be there.
ProbeNothing(p) ==
    /\ At(p, "probe")
    /\ Found(p)
    /\ UNCHANGED <<storeVars, remote, tripped, worldVars>>

Probe(p) ==
    /\ At(p, "probe")
    /\ \/ AllSlots(p) /\ Found(p)
       \/ ~AllSlots(p) /\ file[BlobPath(Blob(p))] # NoFile /\ GotoSlot(p, "probe", run[p].k + 1)
       \/ ~AllSlots(p) /\ file[BlobPath(Blob(p))] = NoFile /\ Missed(p)
    /\ UNCHANGED <<storeVars, remote, tripped, worldVars>>

-----------------------------------------------------------------------------
(* RemoteCache::fetch. *)

\* A build goes on to look again, or to lean; `cache get` counts.
EndFetch(p, outcome) ==
    \/ run[p].op = "build" /\ outcome = "fetched"
       /\ run' = [run EXCEPT ![p].pc = "lookup", ![p].again = TRUE]
    \/ run[p].op = "build" /\ outcome # "fetched" /\ Goto(p, "lean")
    \/ run[p].op = "get" /\ Finish(p, outcome, << >>)

\* The connection fails: the breaker trips, for the rest of the run.
Unreachable(p, outcome) == tripped' = tripped \cup {p} /\ EndFetch(p, outcome)

\* The manifest arrives, or there is none, or the answer is unusable.
GetManifest(p) ==
    /\ At(p, "getManifest")
    /\ LET m == remote.manifests[run[p].fp] IN
       \/ p \in tripped /\ EndFetch(p, "missing") /\ UNCHANGED tripped
       \/ p \notin tripped /\ Unreachable(p, "missing")
       \/ p \notin tripped /\ EndFetch(p, "degraded") /\ UNCHANGED tripped
       \/ p \notin tripped /\ m = NoFile /\ EndFetch(p, "missing") /\ UNCHANGED tripped
       \/ p \notin tripped /\ m # NoFile
          /\ run' = [run EXCEPT ![p].pc = "dedup", ![p].man = m, ![p].k = 1, ![p].call = "fetch"]
          /\ UNCHANGED tripped
    /\ UNCHANGED <<storeVars, remote, worldVars>>

\* Blobs that exist locally are not downloaded; after the last, the manifest.
Dedup(p) ==
    /\ At(p, "dedup")
    /\ \/ AllSlots(p) /\ GotoWrite(p, ManifestPath(run[p].fp))
       \/ ~AllSlots(p) /\ file[BlobPath(Blob(p))] # NoFile /\ GotoSlot(p, "dedup", run[p].k + 1)
       \/ ~AllSlots(p) /\ file[BlobPath(Blob(p))] = NoFile /\ Goto(p, "getBlob")
    /\ UNCHANGED <<storeVars, remote, tripped, worldVars>>

\* Only bytes that hash to the name are stored; any failure degrades.
GetBlob(p) ==
    /\ At(p, "getBlob")
    /\ \/ Unreachable(p, "degraded")
       \/ EndFetch(p, "degraded") /\ UNCHANGED tripped
       \/ /\ remote.blobs[Blob(p)] = "good"
          /\ GotoWrite(p, BlobPath(Blob(p)))
          /\ UNCHANGED tripped
    /\ UNCHANGED <<storeVars, remote, worldVars>>

-----------------------------------------------------------------------------
(* lean, and Cache::insert of what it wrote. *)

\* lean writes one of its possible outputs, or fails and they are removed.
Lean(p) ==
    /\ At(p, "lean")
    /\ \/ Finish(p, "leanFailed", << >>)
       \/ \E m \in Outputs[run[p].fp] :
              run' = [run EXCEPT ![p].pc = "store", ![p].man = m, ![p].k = 1,
                                 ![p].call = "insert", ![p].dest = m]
    /\ UNCHANGED <<storeVars, remote, tripped, worldVars>>

\* Mutation: the manifest is written first.
ManifestFirst(p) ==
    /\ At(p, "store")
    /\ GotoWrite(p, ManifestPath(run[p].fp))
    /\ UNCHANGED <<storeVars, remote, tripped, worldVars>>

\* The blobs in order, then the manifest.
Store(p) ==
    /\ At(p, "store")
    /\ GotoWrite(p, IF AllSlots(p) THEN ManifestPath(run[p].fp) ELSE BlobPath(Blob(p)))
    /\ UNCHANGED <<storeVars, remote, tripped, worldVars>>

-----------------------------------------------------------------------------
(* write_atomic_readonly: lock, test, write a temporary file beside the    *)
(* path, make it read-only, rename it.                                     *)

WritingManifest(p) == run[p].target = ManifestPath(run[p].fp)

\* Mutation: what a lean run inserts does not replace a manifest either.
OverwritesNothing(p) == FALSE

\* Mutation: a fetched manifest replaces the one there is.
OverwritesAlways(p) == WritingManifest(p)

\* Only the manifest of an insert replaces a file.
Overwrites(p) == WritingManifest(p) /\ run[p].call = "insert"

\* The call that was writing goes on.
Written(p) ==
    \/ ~WritingManifest(p) /\ run[p].call = "fetch" /\ GotoSlot(p, "dedup", run[p].k + 1)
    \/ ~WritingManifest(p) /\ run[p].call = "insert" /\ GotoSlot(p, "store", run[p].k + 1)
    \/ WritingManifest(p) /\ run[p].call = "fetch" /\ EndFetch(p, "fetched")
    \/ WritingManifest(p) /\ run[p].call = "insert" /\ Finish(p, "built", run[p].dest)

\* The call ends in an error: a fetch degrades, a job fails.
WriteError(p) ==
    \/ run[p].call = "fetch" /\ EndFetch(p, "degraded")
    \/ run[p].call = "insert" /\ Finish(p, "writeFailed", run[p].dest)

\* Mutation: the lock is not waited for, as where there is no flock.
LockIgnored(p) ==
    /\ At(p, "lock")
    /\ lock' = [lock EXCEPT ![run[p].target] = p]
    /\ Goto(p, "open")
    /\ UNCHANGED <<file, tmp, remote, tripped, worldVars>>

\* Wait for the lock; a file that is there already is left alone.
Lock(p) ==
    /\ At(p, "lock")
    /\ lock[run[p].target] = NoProc
    /\ \/ /\ file[run[p].target] # NoFile /\ ~Overwrites(p)
          /\ Written(p)
          /\ UNCHANGED lock
       \/ /\ file[run[p].target] = NoFile \/ Overwrites(p)
          /\ lock' = [lock EXCEPT ![run[p].target] = p]
          /\ Goto(p, "open")
    /\ UNCHANGED <<file, tmp, remote, tripped, worldVars>>

Unlock(p) == lock' = [lock EXCEPT ![run[p].target] = NoProc]

ReadOnlyTmp(path) == tmp[path] # NoFile /\ tmp[path].readonly

\* A temporary file that is already read-only cannot be opened again.
Refused(p) ==
    /\ At(p, "open")
    /\ ReadOnlyTmp(run[p].target)
    /\ Unlock(p)
    /\ WriteError(p)
    /\ UNCHANGED <<file, tmp, remote, tripped, worldVars>>

\* Mutation: the file itself is written.
OpenInPlace(p) ==
    /\ At(p, "open")
    /\ file' = [file EXCEPT ![run[p].target] = Torn]
    /\ tmp' = [tmp EXCEPT ![run[p].target] = [data |-> Torn, readonly |-> FALSE]]
    /\ Goto(p, "fill")
    /\ UNCHANGED <<lock, remote, tripped, worldVars>>

Open(p) ==
    /\ At(p, "open")
    /\ ~ReadOnlyTmp(run[p].target)
    /\ tmp' = [tmp EXCEPT ![run[p].target] = [data |-> Torn, readonly |-> FALSE]]
    /\ Goto(p, "fill")
    /\ UNCHANGED <<file, lock, remote, tripped, worldVars>>

Fill(p) ==
    /\ At(p, "fill")
    /\ tmp' = [tmp EXCEPT ![run[p].target].data = IF WritingManifest(p) THEN run[p].man ELSE Blob(p)]
    /\ Goto(p, "chmod")
    /\ UNCHANGED <<file, lock, remote, tripped, worldVars>>

\* Mutation: only success releases the lock.
FillFailsHoldingLock(p) ==
    /\ At(p, "fill")
    /\ WriteError(p)
    /\ UNCHANGED <<file, tmp, lock, remote, tripped, worldVars>>

\* The disk is full: the temporary file stays, cut short.
FillFails(p) ==
    /\ At(p, "fill")
    /\ Unlock(p)
    /\ WriteError(p)
    /\ UNCHANGED <<file, tmp, remote, tripped, worldVars>>

Chmod(p) ==
    /\ At(p, "chmod")
    /\ tmp' = [tmp EXCEPT ![run[p].target].readonly = TRUE]
    /\ Goto(p, "rename")
    /\ UNCHANGED <<file, lock, remote, tripped, worldVars>>

Rename(p) ==
    /\ At(p, "rename")
    /\ file' = [file EXCEPT ![run[p].target] = tmp[run[p].target].data]
    /\ tmp' = [tmp EXCEPT ![run[p].target] = NoFile]
    /\ Unlock(p)
    /\ Written(p)
    /\ UNCHANGED <<remote, tripped, worldVars>>

-----------------------------------------------------------------------------
(* Cache::materialize, into a fresh layout. *)

Link(p) ==
    /\ At(p, "link")
    /\ \/ /\ AllSlots(p)
          /\ Finish(p, IF run[p].again THEN "downloaded" ELSE "cached", run[p].dest)
       \/ /\ ~AllSlots(p) /\ file[BlobPath(Blob(p))] # NoFile
          /\ run' = [run EXCEPT ![p].dest = Append(@, file[BlobPath(Blob(p))]), ![p].k = @ + 1]
       \/ /\ ~AllSlots(p) /\ file[BlobPath(Blob(p))] = NoFile
          /\ Finish(p, "linkFailed", << >>)
    /\ UNCHANGED <<storeVars, remote, tripped, worldVars>>

-----------------------------------------------------------------------------
(* Pusher::push_one: HEAD requests, blobs, then the manifest; every failed *)
(* request ends the push.                                                  *)

\* Mutation: the manifest goes up before the blobs.
HeadManifestThenPut(p) ==
    /\ At(p, "headManifest")
    /\ Goto(p, "putManifest")
    /\ UNCHANGED <<storeVars, remote, tripped, worldVars>>

HeadManifest(p) ==
    /\ At(p, "headManifest")
    /\ \/ Finish(p, "putFailed", << >>)
       \/ remote.manifests[run[p].fp] # NoFile /\ Finish(p, "skipped", << >>)
       \/ remote.manifests[run[p].fp] = NoFile /\ Goto(p, "headBlob")
    /\ UNCHANGED <<storeVars, remote, tripped, worldVars>>

HeadBlob(p) ==
    /\ At(p, "headBlob")
    /\ \/ AllSlots(p) /\ Goto(p, "putManifest")
       \/ ~AllSlots(p) /\ Finish(p, "putFailed", << >>)
       \/ ~AllSlots(p) /\ remote.blobs[Blob(p)] # "absent" /\ GotoSlot(p, "headBlob", run[p].k + 1)
       \/ ~AllSlots(p) /\ remote.blobs[Blob(p)] = "absent" /\ Goto(p, "putBlob")
    /\ UNCHANGED <<storeVars, remote, tripped, worldVars>>

\* The blob is read and sent as it is.
PutBlob(p) ==
    /\ At(p, "putBlob")
    /\ LET bytes == file[BlobPath(Blob(p))] IN
       \/ bytes = NoFile /\ Finish(p, "readFailed", << >>) /\ UNCHANGED remote
       \/ bytes # NoFile /\ Finish(p, "putFailed", << >>) /\ UNCHANGED remote
       \/ /\ bytes # NoFile
          /\ remote' = [remote EXCEPT !.blobs[Blob(p)] = IF bytes = Blob(p) THEN "good" ELSE "bad"]
          /\ GotoSlot(p, "headBlob", run[p].k + 1)
    /\ UNCHANGED <<storeVars, tripped, worldVars>>

PutManifest(p) ==
    /\ At(p, "putManifest")
    /\ \/ Finish(p, "putFailed", << >>) /\ UNCHANGED remote
       \/ /\ remote' = [remote EXCEPT !.manifests[run[p].fp] = run[p].man]
          /\ Finish(p, "pushed", << >>)
    /\ UNCHANGED <<storeVars, tripped, worldVars>>

-----------------------------------------------------------------------------
(* Cache::gc: one walk, then the removals; no lock is taken.  Which blobs  *)
(* are the oldest is left open.  An entry that vanishes between its        *)
(* listing and its stat, a writer's temporary file for one, ends the gc.   *)

Present == {h \in Blobs : file[BlobPath(h)] # NoFile}

Walk(p) ==
    /\ At(p, "walk")
    /\ \/ Cardinality(Present) <= Cap /\ Finish(p, "collected", << >>)
       \/ Finish(p, "gcFailed", << >>)
       \/ \E D \in SUBSET Present :
              /\ D # {} /\ Cardinality(Present) - Cardinality(D) = Cap
              /\ run' = [run EXCEPT ![p].pc = "sweep", ![p].doomed = D]
    /\ UNCHANGED <<storeVars, remote, tripped, worldVars>>

\* A blob that is gone already ends the gc.
Sweep(p) ==
    /\ At(p, "sweep")
    /\ \/ /\ run[p].doomed = {} /\ Finish(p, "collected", << >>)
          /\ UNCHANGED <<file, collected>>
       \/ \E h \in run[p].doomed \cap Present :
              /\ file' = [file EXCEPT ![BlobPath(h)] = NoFile]
              /\ collected' = collected \cup {h}
              /\ run' = [run EXCEPT ![p].doomed = @ \ {h}]
       \/ /\ run[p].doomed \ Present # {} /\ Finish(p, "gcFailed", << >>)
          /\ UNCHANGED <<file, collected>>
    /\ UNCHANGED <<tmp, lock, remote, tripped, lost, budget, kills>>

-----------------------------------------------------------------------------
(* The environment. *)

\* The kernel drops the locks of a killed process; its files stay.
Kill(p) ==
    /\ ~At(p, "idle")
    /\ kills < MaxKills
    /\ kills' = kills + 1
    /\ lock' = [path \in Paths |-> IF lock[path] = p THEN NoProc ELSE lock[path]]
    /\ tripped' = tripped \ {p}
    /\ Finish(p, "killed", << >>)
    /\ UNCHANGED <<file, tmp, remote, collected, lost, budget>>

\* Everybody is idle and nothing may begin any more.
Over == budget = 0 /\ (\A p \in Procs : At(p, "idle")) /\ UNCHANGED vars

Step(p) ==
    \/ Lookup(p) \/ Probe(p)
    \/ GetManifest(p) \/ Dedup(p) \/ GetBlob(p)
    \/ Lean(p) \/ Store(p)
    \/ Lock(p) \/ Refused(p) \/ Open(p) \/ Fill(p) \/ FillFails(p) \/ Chmod(p) \/ Rename(p)
    \/ Link(p)
    \/ HeadManifest(p) \/ HeadBlob(p) \/ PutBlob(p) \/ PutManifest(p)
    \/ Walk(p) \/ Sweep(p)

Next ==
    \/ \E p \in Procs : Start(p) \/ Step(p) \/ Kill(p)
    \/ Over

Spec == Init /\ [][Next]_vars

\* Fairness: whoever has begun goes on.
FairSpec == Spec /\ \A p \in Procs : WF_vars(Step(p))

-----------------------------------------------------------------------------
(* Properties. *)

\* Every variable stays in its domain, and whoever writes beside a path
\* holds its lock.
TypeOK ==
    /\ file \in [Paths -> Manifests \cup Blobs \cup {NoFile, Torn}]
    /\ \A path \in Paths :
           tmp[path] = NoFile \/ tmp[path] \in [data : Manifests \cup Blobs \cup {Torn},
                                                readonly : BOOLEAN]
    /\ lock \in [Paths -> Procs \cup {NoProc}]
    /\ remote \in RemoteShape
    /\ \A p \in Procs :
           /\ run[p].pc \in Places /\ run[p].op \in Ops \cup {"none"} /\ run[p].fp \in Fps
           /\ run[p].man \in Manifests /\ run[p].k \in 1 .. Len(run[p].man) + 1
           /\ run[p].result \in Results /\ run[p].dest \in Seq(Blobs \cup {Torn})
           /\ run[p].doomed \subseteq Blobs
           /\ At(p, "open") \/ At(p, "fill") \/ At(p, "chmod") \/ At(p, "rename") =>
                  run[p].target \in Paths /\ lock[run[p].target] = p
    /\ tripped \subseteq Procs /\ collected \subseteq Blobs /\ lost \subseteq Blobs
    /\ budget \in 0 .. MaxOps /\ kills \in 0 .. MaxKills

\* What `cache verify` looks for: a blob file holds what its name says, in
\* every state, whoever is killed in the middle of writing it.
BlobsAreIntact == \A h \in Blobs : file[BlobPath(h)] \in {h, NoFile}

\* Blobs first, manifest last: only a gc leaves a manifest without one of
\* its blobs, never a kill and never a concurrent writer.
OnlyGcLeavesDanglingManifests ==
    \A f \in Fps : Filed(f) => MissingBlobs(f) \subseteq collected \cup lost

\* The same for those who read the remote while others push to it: a
\* manifest goes up only after the last of its blobs.
PushesAreComplete ==
    [][\A f \in Fps : remote'.manifests[f] # remote.manifests[f] =>
           \A i \in DOMAIN remote'.manifests[f] :
               remote'.blobs[remote'.manifests[f][i]] # "absent"]_vars

Succeeded(p) == run[p].result \in {"built", "cached", "downloaded"}

\* A job that succeeds leaves in the layout one whole family that a lean
\* run for its fingerprint could have written: never a mixture, whatever
\* manifests of another shape the remote hands out and the store has kept.
BuildsDeliverAnOutput ==
    \A p \in Procs : Succeeded(p) => run[p].dest \in Outputs[run[p].fp]

\* A job fails for want of a blob only if a gc took it meanwhile: lookup
\* answers only with what materialize can link.
LinkFailsOnlyForGc ==
    \A p \in Procs : run[p].result = "linkFailed" => collected # {}

\* A successful job leaves its fingerprint in a state that serves the next
\* one, even where it found a manifest of another shape or a dangling one.
BuildsHealTheStore ==
    \A p \in Procs : Succeeded(p) /\ collected = {} =>
        /\ Filed(run[p].fp)
        /\ Len(file[ManifestPath(run[p].fp)]) = Arity
        /\ MissingBlobs(run[p].fp) = {}

\* What came from a lean run here is not replaced by what a remote says: a
\* manifest changes only at the end of an insert.
FetchReplacesNothing ==
    [][\A f \in Fps : Filed(f) /\ file'[ManifestPath(f)] # file[ManifestPath(f)] =>
           \E p \in Procs : At(p, "rename") /\ run'[p].result = "built"]_vars

\* Every operation ends, whoever is killed while holding a lock.
EveryOperationEnds == \A p \in Procs : ~At(p, "idle") ~> At(p, "idle")

\* A killed process leaves nothing behind that makes a later write fail.
KillsAreHarmless == [][\A p \in Procs : ~Refused(p)]_vars

=============================================================================
