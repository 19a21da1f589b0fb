----------------------------- MODULE SourceCache -----------------------------
(***************************************************************************)
(* The source cache that all leanr processes of a user share (fetch.rs of  *)
(* leanr_build): one directory per package and revision, cloned once,      *)
(* immutable afterwards.  A call of materialize starts one thread per      *)
(* package of its manifest and waits for all of them.                      *)
(*                                                                         *)
(* Atomicity.  One action is one look at the file system, one run of git,  *)
(* one rename.  Opening the lock file is joined with the first look at the *)
(* entry; taking the lock with the second look, since only the lock's      *)
(* holder can make the entry appear; leaving the lock with the thread's    *)
(* last step.  A run of git may fail in any place: it cannot be started,   *)
(* it exits with an error, or it is killed after GIT_TIMEOUT.  Nobody      *)
(* reuses the pid of a killed process while git still writes to the        *)
(* temporary directory of its former owner.                                *)
(***************************************************************************)
EXTENDS Naturals, Sequences

CONSTANTS Procs,         \* leanr processes
          Entries,       \* package and revision pairs
          Invalid,       \* those whose name, url or rev is refused
          Shas,          \* those whose rev is a full commit id
          PathPackages,  \* dependencies that are directories already
          Manifests,     \* the package lists of the workspaces
          MaxCalls,      \* bound: calls of materialize in a behaviour
          MaxKills,      \* bound: processes killed in a behaviour
          MaxTampers,    \* bound: entries moved by hand in a behaviour
          Nobody         \* nobody holds the lock

ASSUME SourceCacheAssumption ==
    /\ Invalid \subseteq Entries /\ Shas \subseteq Entries
    /\ Entries \cap PathPackages = {}
    /\ Manifests \subseteq Seq(Entries \cup PathPackages)
    /\ {MaxCalls, MaxKills, MaxTampers} \subseteq Nat

VARIABLES
    entry,     \* what each entry's directory holds
    tmp,       \* the temporary directory of each process beside each entry
    lock,      \* who holds the flock of each entry
    call,      \* the call each process is making, a record
    tampers,   \* history: entries moved by hand so far
    budget,    \* calls that may still begin
    kills      \* processes killed so far

vars == <<entry, tmp, lock, call, tampers, budget, kills>>

\* A directory is absent, cut short, at the branch the clone starts on, or at
\* the commit the revision names.
Contents == {"absent", "partial", "default", "rev"}

Places == {"start", "verify", "lock", "clean", "clone", "checkout", "verifyTmp", "rename", "over"}

Slots == UNION {DOMAIN m : m \in Manifests}
Threads == Procs \X Slots

ASSUME NobodyAssumption == Nobody \notin Threads

NoCall == [on |-> FALSE, packages |-> << >>, pc |-> << >>, ok |-> << >>,
           moved |-> {}, answer |-> "none"]

Init ==
    /\ entry = [e \in Entries |-> "absent"]
    /\ tmp = [p \in Procs |-> [e \in Entries |-> "absent"]]
    /\ lock = [e \in Entries |-> Nobody]
    /\ call = [p \in Procs |-> NoCall]
    /\ tampers = 0
    /\ budget = MaxCalls
    /\ kills = 0

-----------------------------------------------------------------------------
(* Moves of thread t = <<p, i>>, which deals with package i of p's call. *)

At(t, l) == t[2] \in DOMAIN call[t[1]].pc /\ call[t[1]].pc[t[2]] = l

Package(t) == call[t[1]].packages[t[2]]

Goto(t, l) == call' = [call EXCEPT ![t[1]].pc[t[2]] = l]

\* Mutation: only success releases the lock.
EndThreadHoldingLock(t, ok) ==
    /\ call' = [call EXCEPT ![t[1]].pc[t[2]] = "over", ![t[1]].ok[t[2]] = ok]
    /\ lock' = [e \in Entries |-> IF lock[e] = t /\ ok THEN Nobody ELSE lock[e]]

\* The thread ends, and drops its lock if it has one.
EndThread(t, ok) ==
    /\ call' = [call EXCEPT ![t[1]].pc[t[2]] = "over", ![t[1]].ok[t[2]] = ok]
    /\ lock' = [e \in Entries |-> IF lock[e] = t THEN Nobody ELSE lock[e]]

\* materialize begins.
Begin(p) ==
    /\ ~call[p].on
    /\ budget > 0
    /\ budget' = budget - 1
    /\ \E m \in Manifests :
           call' = [call EXCEPT ![p] = [on |-> TRUE, packages |-> m,
                                        pc |-> [i \in DOMAIN m |-> "start"],
                                        ok |-> [i \in DOMAIN m |-> FALSE],
                                        moved |-> {}, answer |-> "none"]]
    /\ UNCHANGED <<entry, tmp, lock, tampers, kills>>

\* A path dependency is there or not.
LookForPath(t) ==
    /\ At(t, "start")
    /\ Package(t) \in PathPackages
    /\ \E ok \in BOOLEAN : EndThread(t, ok)
    /\ UNCHANGED <<entry, tmp, tampers, budget, kills>>

Refuse(t) ==
    /\ At(t, "start")
    /\ Package(t) \in Invalid
    /\ EndThread(t, FALSE)
    /\ UNCHANGED <<entry, tmp, tampers, budget, kills>>

\* Mutation: an entry that exists is good.
LookOnly(t) ==
    /\ At(t, "start")
    /\ Package(t) \in Entries \ Invalid
    /\ \/ entry[Package(t)] # "absent" /\ EndThread(t, TRUE)
       \/ entry[Package(t)] = "absent" /\ Goto(t, "lock") /\ UNCHANGED lock
    /\ UNCHANGED <<entry, tmp, tampers, budget, kills>>

\* The look before the lock; the lock file may be impossible to open.
Look(t) ==
    /\ At(t, "start")
    /\ Package(t) \in Entries \ Invalid
    /\ \/ entry[Package(t)] # "absent" /\ Goto(t, "verify") /\ UNCHANGED lock
       \/ entry[Package(t)] = "absent" /\ Goto(t, "lock") /\ UNCHANGED lock
       \/ entry[Package(t)] = "absent" /\ EndThread(t, FALSE)
    /\ UNCHANGED <<entry, tmp, tampers, budget, kills>>

\* HEAD of dir is the revision, spelled as the manifest spells it: a tag or
\* a branch never is.
HeadMatches(t, dir) == dir = "rev" /\ Package(t) \in Shas

\* verify_checkout of an entry; an error is final, nothing is repaired.
Verify(t) ==
    /\ At(t, "verify")
    /\ \/ EndThread(t, FALSE)
       \/ HeadMatches(t, entry[Package(t)]) /\ EndThread(t, TRUE)
    /\ UNCHANGED <<entry, tmp, tampers, budget, kills>>

\* Mutation: the lock is not waited for, as where there is no flock.
LockIgnored(t) ==
    /\ At(t, "lock")
    /\ lock' = [lock EXCEPT ![Package(t)] = t]
    /\ Goto(t, IF entry[Package(t)] # "absent" THEN "verify" ELSE "clean")
    /\ UNCHANGED <<entry, tmp, tampers, budget, kills>>

\* Mutation: no second look.
LockWithoutLook(t) ==
    /\ At(t, "lock")
    /\ lock[Package(t)] = Nobody
    /\ lock' = [lock EXCEPT ![Package(t)] = t]
    /\ Goto(t, "clean")
    /\ UNCHANGED <<entry, tmp, tampers, budget, kills>>

\* Wait for the lock, then look again.
Lock(t) ==
    /\ At(t, "lock")
    /\ lock[Package(t)] = Nobody
    /\ lock' = [lock EXCEPT ![Package(t)] = t]
    /\ Goto(t, IF entry[Package(t)] # "absent" THEN "verify" ELSE "clean")
    /\ UNCHANGED <<entry, tmp, tampers, budget, kills>>

SetTmp(t, content) == tmp' = [tmp EXCEPT ![t[1]][Package(t)] = content]

\* remove_dir_all; its failure is ignored.
Clean(t) ==
    /\ At(t, "clean")
    /\ SetTmp(t, "absent") \/ UNCHANGED tmp
    /\ Goto(t, "clone")
    /\ UNCHANGED <<entry, lock, tampers, budget, kills>>

\* Mutation: the clone goes to the entry's own directory.
CloneInPlace(t) ==
    /\ At(t, "clone")
    /\ entry' = [entry EXCEPT ![Package(t)] = "default"]
    /\ SetTmp(t, "default")
    /\ Goto(t, "checkout")
    /\ UNCHANGED <<lock, tampers, budget, kills>>

\* git clone refuses a directory that is there; killed, it leaves a part.
Clone(t) ==
    /\ At(t, "clone")
    /\ \/ EndThread(t, FALSE) /\ UNCHANGED tmp
       \/ tmp[t[1]][Package(t)] = "absent" /\ SetTmp(t, "partial") /\ EndThread(t, FALSE)
       \/ /\ tmp[t[1]][Package(t)] = "absent" /\ SetTmp(t, "default")
          /\ Goto(t, "checkout") /\ UNCHANGED lock
    /\ UNCHANGED <<entry, tampers, budget, kills>>

Checkout(t) ==
    /\ At(t, "checkout")
    /\ \/ EndThread(t, FALSE) /\ (SetTmp(t, "partial") \/ UNCHANGED tmp)
       \/ SetTmp(t, "rev") /\ Goto(t, "verifyTmp") /\ UNCHANGED lock
    /\ UNCHANGED <<entry, tampers, budget, kills>>

VerifyTmp(t) ==
    /\ At(t, "verifyTmp")
    /\ \/ EndThread(t, FALSE)
       \/ HeadMatches(t, tmp[t[1]][Package(t)]) /\ Goto(t, "rename") /\ UNCHANGED lock
    /\ UNCHANGED <<entry, tmp, tampers, budget, kills>>

\* rename(2) fails on a directory that is there, or for reasons of its own.
Rename(t) ==
    /\ At(t, "rename")
    /\ \/ EndThread(t, FALSE) /\ UNCHANGED <<entry, tmp>>
       \/ /\ entry[Package(t)] = "absent"
          /\ entry' = [entry EXCEPT ![Package(t)] = tmp[t[1]][Package(t)]]
          /\ SetTmp(t, "absent")
          /\ EndThread(t, TRUE)
    /\ UNCHANGED <<tampers, budget, kills>>

\* Every thread is joined; the first error in package order is the answer.
Join(p) ==
    /\ call[p].on
    /\ \A i \in DOMAIN call[p].pc : call[p].pc[i] = "over"
    /\ call' = [call EXCEPT ![p].on = FALSE,
                            ![p].answer = IF \A i \in DOMAIN call[p].ok : call[p].ok[i]
                                          THEN "ok" ELSE "error"]
    /\ UNCHANGED <<entry, tmp, lock, tampers, budget, kills>>

-----------------------------------------------------------------------------
(* The environment. *)

\* The kernel drops the locks of a killed process.  The git it ran goes on:
\* a clone or a checkout still comes to some end in the temporary directory.
Kill(p) ==
    /\ call[p].on
    /\ kills < MaxKills
    /\ kills' = kills + 1
    /\ lock' = [e \in Entries |-> IF lock[e] # Nobody /\ lock[e] \in {p} \X Slots
                                  THEN Nobody ELSE lock[e]]
    /\ \E left \in [Entries -> Contents] :
           /\ \A e \in Entries :
                  left[e] # tmp[p][e] =>
                      /\ left[e] # "absent"
                      /\ \E i \in DOMAIN call[p].pc : /\ call[p].packages[i] = e
                                                      /\ call[p].pc[i] \in {"clone", "checkout"}
           /\ tmp' = [tmp EXCEPT ![p] = left]
    /\ call' = [call EXCEPT ![p] = NoCall]
    /\ UNCHANGED <<entry, tampers, budget>>

\* Somebody checks out another commit in an entry.
Tamper(e) ==
    /\ tampers < MaxTampers
    /\ entry[e] = "rev"
    /\ tampers' = tampers + 1
    /\ entry' = [entry EXCEPT ![e] = "default"]
    /\ call' = [p \in Procs |-> [call[p] EXCEPT !.moved = @ \cup {e}]]
    /\ UNCHANGED <<tmp, lock, budget, kills>>

\* Nothing runs and nothing may begin any more.
Over == budget = 0 /\ (\A p \in Procs : ~call[p].on) /\ UNCHANGED vars

Step(t) ==
    \/ LookForPath(t) \/ Refuse(t) \/ Look(t) \/ Verify(t)
    \/ Lock(t)
    \/ Clean(t) \/ Clone(t) \/ Checkout(t) \/ VerifyTmp(t) \/ Rename(t)

Next ==
    \/ \E t \in Threads : Step(t)
    \/ \E p \in Procs : Begin(p) \/ Join(p) \/ Kill(p)
    \/ \E e \in Entries : Tamper(e)
    \/ Over

Spec == Init /\ [][Next]_vars

\* Fairness: the threads of a call run, git ends (it has a deadline), and the
\* scope joins its threads.
FairSpec == /\ Spec
            /\ \A t \in Threads : WF_vars(Step(t))
            /\ \A p \in Procs : WF_vars(Join(p))

-----------------------------------------------------------------------------
(* Properties. *)

Holding == {"clean", "clone", "checkout", "verifyTmp", "rename"}

\* Every variable stays in its domain, and only the holder of an entry's lock
\* works on a clone of it.
TypeOK ==
    /\ entry \in [Entries -> Contents]
    /\ tmp \in [Procs -> [Entries -> Contents]]
    /\ lock \in [Entries -> Threads \cup {Nobody}]
    /\ \A p \in Procs :
           /\ call[p].on \in BOOLEAN /\ call[p].answer \in {"none", "ok", "error"}
           /\ call[p].packages \in Manifests \cup {<< >>}
           /\ call[p].moved \subseteq Entries
           /\ DOMAIN call[p].pc = DOMAIN call[p].packages
           /\ \A i \in DOMAIN call[p].pc :
                  /\ call[p].pc[i] \in Places
                  /\ call[p].pc[i] \in Holding => lock[call[p].packages[i]] = <<p, i>>
    /\ tampers \in 0 .. MaxTampers /\ budget \in 0 .. MaxCalls /\ kills \in 0 .. MaxKills

\* A crashed or failing run never leaves a half-clone posing as an entry, and
\* an entry that is there does not change unless somebody moves it by hand.
EntriesAreWhole ==
    [][\A e \in Entries : entry'[e] # entry[e] =>
           \/ entry[e] = "absent" /\ entry'[e] = "rev"
           \/ Tamper(e)]_vars

\* When materialize answers Ok, every package of the manifest is in the cache
\* at its own revision, unless it was moved after the call began: an entry
\* moved earlier is an error, whichever look finds it.
OkMeansReady ==
    \A p \in Procs : call[p].answer = "ok" =>
        \A i \in DOMAIN call[p].packages :
            LET e == call[p].packages[i] IN
            e \in Entries => entry[e] = "rev" \/ e \in call[p].moved

\* Whoever loses the race to clone an entry finds it after waiting: no call
\* fails because another one has succeeded.
NobodyClonesTwice ==
    \A t \in Threads : At(t, "rename") => entry[Package(t)] = "absent"

\* Every call comes back, whoever is killed while holding a lock.
EveryCallEnds == \A p \in Procs : call[p].on ~> ~call[p].on

=============================================================================
