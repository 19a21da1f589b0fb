-------------------------- MODULE SourceCache_proofs --------------------------
(***************************************************************************)
(* Proofs about the source cache for any number of processes, workspaces,  *)
(* calls, kills and edits by hand.                                         *)
(***************************************************************************)
EXTENDS SourceCache, TLAPS

-----------------------------------------------------------------------------
(* The inductive invariant. *)

PackageLists == Manifests \cup {<< >>}

PerPackage(S) == UNION {[DOMAIN m -> S] : m \in PackageLists}

Calls == [on : BOOLEAN, packages : PackageLists, pc : PerPackage(Places),
          ok : PerPackage(BOOLEAN), moved : SUBSET Entries,
          answer : {"none", "ok", "error"}]

\* A call has one thread per package of its manifest.
CallsInv ==
    /\ call \in [Procs -> Calls]
    /\ \A p \in Procs : /\ call[p].pc \in [DOMAIN call[p].packages -> Places]
                        /\ call[p].ok \in [DOMAIN call[p].packages -> BOOLEAN]

\* Past its first look a thread deals with a package that is not refused.
PlacesInv ==
    \A p \in Procs : \A i \in DOMAIN call[p].pc :
        call[p].pc[i] \in Holding \cup {"verify", "lock"} =>
            call[p].packages[i] \in Entries \ Invalid

\* Whoever works on a clone holds the entry's lock, and the entry is absent:
\* its second look said so, and only the lock's holder makes it appear.
HoldersInv ==
    \A p \in Procs : \A i \in DOMAIN call[p].pc :
        call[p].pc[i] \in Holding =>
            /\ lock[call[p].packages[i]] = <<p, i>>
            /\ entry[call[p].packages[i]] = "absent"

\* What is about to be renamed has been verified.
ClonesInv ==
    \A p \in Procs : \A i \in DOMAIN call[p].pc :
        call[p].pc[i] = "rename" => tmp[p][call[p].packages[i]] = "rev"

\* A thread that has returned Ok has seen its entry at the revision.
OkInv ==
    \A p \in Procs : \A i \in DOMAIN call[p].pc :
        call[p].ok[i] /\ call[p].packages[i] \in Entries =>
            \/ entry[call[p].packages[i]] = "rev"
            \/ call[p].packages[i] \in call[p].moved

\* A call answers when its threads are over.
AnswersInv ==
    \A p \in Procs :
        /\ ~call[p].on => \A i \in DOMAIN call[p].pc : call[p].pc[i] = "over"
        /\ call[p].on => call[p].answer = "none"
        /\ call[p].answer = "ok" => \A i \in DOMAIN call[p].pc : call[p].ok[i]

DirsInv ==
    /\ entry \in [Entries -> Contents]
    /\ tmp \in [Procs -> [Entries -> Contents]]
    /\ lock \in [Entries -> Threads \cup {Nobody}]

CountersInv == tampers \in 0 .. MaxTampers /\ budget \in 0 .. MaxCalls /\ kills \in 0 .. MaxKills

IndInv ==
    /\ CallsInv /\ PlacesInv /\ HoldersInv /\ ClonesInv /\ OkInv /\ AnswersInv
    /\ DirsInv /\ CountersInv

-----------------------------------------------------------------------------
(* How a thread moves. *)

\* Thread <<p, i>> goes to place l with verdict b, and no other thread moves.
Moves(p, i, l, b) ==
    /\ CallsInv'
    /\ \A q \in Procs : /\ call'[q].on = call[q].on /\ call'[q].packages = call[q].packages
                        /\ call'[q].moved = call[q].moved /\ call'[q].answer = call[q].answer
                        /\ DOMAIN call'[q].pc = DOMAIN call[q].pc
    /\ \A q \in Procs : \A j \in DOMAIN call[q].pc :
           q # p \/ j # i => call'[q].pc[j] = call[q].pc[j] /\ call'[q].ok[j] = call[q].ok[j]
    /\ call'[p].pc[i] = l
    /\ call'[p].ok[i] = b

LEMMA GotoMoves ==
    ASSUME CallsInv, NEW p \in Procs, NEW i \in DOMAIN call[p].pc, NEW l \in Places,
           Goto(<<p, i>>, l)
    PROVE  Moves(p, i, l, call[p].ok[i])
<1>1. call[p] \in Calls /\ call \in [Procs -> Calls] /\ call[p].packages \in PackageLists
  BY DEF CallsInv, Calls
<1> DEFINE c == [call[p] EXCEPT !.pc = [call[p].pc EXCEPT ![i] = l]]
<1>2. call' = [call EXCEPT ![p] = c]
  BY DEF Goto
<1>3. [call[p].pc EXCEPT ![i] = l] \in [DOMAIN call[p].packages -> Places]
  BY DEF CallsInv
<1>4. [call[p].pc EXCEPT ![i] = l] \in PerPackage(Places)
  BY <1>1, <1>3 DEF PerPackage
<1>5. c \in Calls
  BY <1>1, <1>4 DEF Calls
<1>6. /\ c.pc = [call[p].pc EXCEPT ![i] = l] /\ c.ok = call[p].ok
      /\ c.on = call[p].on /\ c.packages = call[p].packages /\ c.moved = call[p].moved
      /\ c.answer = call[p].answer
  BY <1>1 DEF Calls
<1>7. call' \in [Procs -> Calls] /\ call'[p] = c /\ \A q \in Procs \ {p} : call'[q] = call[q]
  BY <1>1, <1>2, <1>5
<1> HIDE DEF c
<1>8. CallsInv'
  BY <1>3, <1>6, <1>7 DEF CallsInv
<1>9. \A q \in Procs : DOMAIN call'[q].pc = DOMAIN call[q].pc
  BY <1>6, <1>7
<1> QED BY <1>6, <1>7, <1>8, <1>9 DEF Moves

LEMMA EndThreadMoves ==
    ASSUME CallsInv, NEW p \in Procs, NEW i \in DOMAIN call[p].pc, NEW b \in BOOLEAN,
           EndThread(<<p, i>>, b)
    PROVE  Moves(p, i, "over", b)
<1>1. call[p] \in Calls /\ call \in [Procs -> Calls] /\ call[p].packages \in PackageLists
  BY DEF CallsInv, Calls
<1> DEFINE c == [call[p] EXCEPT !.pc = [call[p].pc EXCEPT ![i] = "over"],
                                !.ok = [call[p].ok EXCEPT ![i] = b]]
<1>2. call' = [call EXCEPT ![p] = c]
  BY <1>1 DEF EndThread, Calls
<1>3. /\ [call[p].pc EXCEPT ![i] = "over"] \in [DOMAIN call[p].packages -> Places]
      /\ [call[p].ok EXCEPT ![i] = b] \in [DOMAIN call[p].packages -> BOOLEAN]
  BY DEF CallsInv, Places
<1>4. /\ [call[p].pc EXCEPT ![i] = "over"] \in PerPackage(Places)
      /\ [call[p].ok EXCEPT ![i] = b] \in PerPackage(BOOLEAN)
  BY <1>1, <1>3 DEF PerPackage
<1>5. c \in Calls
  BY <1>1, <1>4 DEF Calls
<1>6. /\ c.pc = [call[p].pc EXCEPT ![i] = "over"] /\ c.ok = [call[p].ok EXCEPT ![i] = b]
      /\ c.on = call[p].on /\ c.packages = call[p].packages /\ c.moved = call[p].moved
      /\ c.answer = call[p].answer
  BY <1>1 DEF Calls
<1>7. call' \in [Procs -> Calls] /\ call'[p] = c /\ \A q \in Procs \ {p} : call'[q] = call[q]
  BY <1>1, <1>2, <1>5
<1> HIDE DEF c
<1>8. CallsInv'
  BY <1>3, <1>6, <1>7 DEF CallsInv
<1>9. DOMAIN call[p].ok = DOMAIN call[p].pc
  BY DEF CallsInv
<1>10. \A q \in Procs : DOMAIN call'[q].pc = DOMAIN call[q].pc
  BY <1>6, <1>7
<1> QED BY <1>6, <1>7, <1>8, <1>9, <1>10 DEF Moves

-----------------------------------------------------------------------------
(* The steps of a thread. *)

\* A thread may change an entry, its process's temporary directory beside it
\* and the lock of it only as the lock's holder, or take a lock that is free.
Respects(p, i) ==
    /\ \A e \in Entries : entry'[e] # entry[e] =>
           entry[e] = "absent" /\ entry'[e] = "rev" /\ lock[e] = <<p, i>>
    /\ \A q \in Procs, e \in Entries : tmp'[q][e] # tmp[q][e] =>
           q = p /\ lock[e] = <<p, i>>
    /\ \A e \in Entries : lock'[e] # lock[e] => lock[e] \in {Nobody, <<p, i>>}

\* What a place and a verdict say of the package of thread <<p, i>>.
Justified(p, i, l, b) ==
    LET e == call[p].packages[i] IN
    /\ l \in Holding \cup {"verify", "lock"} => e \in Entries \ Invalid
    /\ l \in Holding => lock'[e] = <<p, i>> /\ entry'[e] = "absent"
    /\ l = "rename" => tmp'[p][e] = "rev"
    /\ b /\ e \in Entries => entry'[e] = "rev" \/ e \in call[p].moved

\* Such a step keeps the invariant: it cannot touch what others rest on.
LEMMA RespectfulStep ==
    ASSUME IndInv, DirsInv', CountersInv',
           NEW p \in Procs, NEW i \in DOMAIN call[p].pc, <<p, i>> \in Threads,
           call[p].pc[i] # "over", NEW l, NEW b \in BOOLEAN,
           Moves(p, i, l, b), Respects(p, i), Justified(p, i, l, b)
    PROVE  IndInv'
<1> USE DEF IndInv, Moves
<1>1. CallsInv'
  OBVIOUS
<1>2. PlacesInv'
  BY DEF PlacesInv, Justified
<1>3. HoldersInv'
  <2>1. ASSUME NEW q \in Procs, NEW j \in DOMAIN call[q].pc, call'[q].pc[j] \in Holding,
               NEW e, e = call[q].packages[j]
        PROVE  lock'[e] = <<q, j>> /\ entry'[e] = "absent"
    <3>1. CASE q = p /\ j = i
      BY <2>1, <3>1 DEF Justified
    <3>2. CASE ~(q = p /\ j = i)
      <4>1. e \in Entries /\ lock[e] = <<q, j>> /\ entry[e] = "absent"
        BY <2>1, <3>2 DEF HoldersInv, PlacesInv
      <4>2. j \in Slots
        BY <4>1, NobodyAssumption DEF CallsInv, Calls, PackageLists, Slots
      <4>3. lock[e] # <<p, i>> /\ lock[e] # Nobody
        BY <3>2, <4>1, <4>2, NobodyAssumption DEF Threads
      <4> QED BY <4>1, <4>3 DEF Respects
    <3> QED BY <3>1, <3>2
  <2>2. ASSUME NEW q \in Procs, NEW j \in DOMAIN call'[q].pc, call'[q].pc[j] \in Holding
        PROVE  /\ lock'[call'[q].packages[j]] = <<q, j>>
               /\ entry'[call'[q].packages[j]] = "absent"
    <3>1. j \in DOMAIN call[q].pc /\ call'[q].packages[j] = call[q].packages[j]
      BY <2>2
    <3> QED BY <2>1, <2>2, <3>1
  <2> QED BY <2>2 DEF HoldersInv
<1>4. ClonesInv'
  <2> SUFFICES ASSUME NEW q \in Procs, NEW j \in DOMAIN call[q].pc,
                      call'[q].pc[j] = "rename"
               PROVE  tmp'[q][call[q].packages[j]] = "rev"
    BY DEF ClonesInv
  <2>1. CASE q = p /\ j = i
    BY <2>1 DEF Justified
  <2>2. CASE ~(q = p /\ j = i)
    <3> DEFINE e == call[q].packages[j]
    <3>1. e \in Entries /\ lock[e] = <<q, j>> /\ tmp[q][e] = "rev"
      BY <2>2 DEF HoldersInv, PlacesInv, ClonesInv, Holding
    <3>2. lock[e] # <<p, i>>
      BY <2>2, <3>1
    <3> QED BY <3>1, <3>2 DEF Respects
  <2> QED BY <2>1, <2>2
<1>5. OkInv'
  <2> SUFFICES ASSUME NEW q \in Procs, NEW j \in DOMAIN call[q].pc,
                      call'[q].ok[j], call[q].packages[j] \in Entries
               PROVE  \/ entry'[call[q].packages[j]] = "rev"
                      \/ call[q].packages[j] \in call[q].moved
    BY DEF OkInv
  <2>1. CASE q = p /\ j = i
    BY <2>1 DEF Justified
  <2>2. CASE ~(q = p /\ j = i)
    BY <2>2 DEF OkInv, Respects
  <2> QED BY <2>1, <2>2
<1>6. AnswersInv'
  <2>1. call[p].on /\ call[p].answer = "none"
    BY DEF AnswersInv
  <2>2. ASSUME NEW q \in Procs, q # p
        PROVE  /\ ~call'[q].on => \A j \in DOMAIN call'[q].pc : call'[q].pc[j] = "over"
               /\ call'[q].on => call'[q].answer = "none"
               /\ call'[q].answer = "ok" => \A j \in DOMAIN call'[q].pc : call'[q].ok[j]
    BY <2>2 DEF AnswersInv
  <2> QED BY <2>1, <2>2 DEF AnswersInv
<1> QED BY <1>1, <1>2, <1>3, <1>4, <1>5, <1>6

\* Ending drops the thread's own lock and no other.
LEMMA EndThreadStep ==
    ASSUME IndInv, NEW p \in Procs, NEW i \in DOMAIN call[p].pc, <<p, i>> \in Threads,
           call[p].pc[i] # "over", NEW b \in BOOLEAN, EndThread(<<p, i>>, b),
           entry' \in [Entries -> Contents], tmp' \in [Procs -> [Entries -> Contents]],
           UNCHANGED <<tampers, budget, kills>>,
           \A e \in Entries : entry'[e] # entry[e] =>
               entry[e] = "absent" /\ entry'[e] = "rev" /\ lock[e] = <<p, i>>,
           \A q \in Procs, e \in Entries : tmp'[q][e] # tmp[q][e] =>
               q = p /\ lock[e] = <<p, i>>,
           b /\ call[p].packages[i] \in Entries => entry'[call[p].packages[i]] = "rev"
    PROVE  IndInv'
<1>1. Moves(p, i, "over", b)
  BY EndThreadMoves DEF IndInv
<1>2. lock' = [e \in Entries |-> IF lock[e] = <<p, i>> THEN Nobody ELSE lock[e]]
  BY DEF EndThread
<1>3. DirsInv' /\ CountersInv'
  BY <1>2 DEF IndInv, DirsInv, CountersInv
<1>4. Respects(p, i)
  BY <1>2 DEF Respects
<1>5. Justified(p, i, "over", b)
  BY DEF Justified, Holding
<1> QED BY <1>1, <1>3, <1>4, <1>5, RespectfulStep

\* A thread that goes on keeps its lock and leaves the entries alone.
LEMMA GotoStep ==
    ASSUME IndInv, NEW p \in Procs, NEW i \in DOMAIN call[p].pc, <<p, i>> \in Threads,
           call[p].pc[i] # "over", NEW l \in Places, Goto(<<p, i>>, l),
           call[p].packages[i] \in Entries \ Invalid,
           UNCHANGED <<entry, tampers, budget, kills>>,
           \/ UNCHANGED lock
           \/ /\ lock[call[p].packages[i]] = Nobody
              /\ lock' = [lock EXCEPT ![call[p].packages[i]] = <<p, i>>],
           \/ UNCHANGED tmp
           \/ /\ lock[call[p].packages[i]] = <<p, i>>
              /\ \E c \in Contents : SetTmp(<<p, i>>, c),
           l \in Holding => /\ lock'[call[p].packages[i]] = <<p, i>>
                            /\ entry[call[p].packages[i]] = "absent",
           l = "rename" => tmp'[p][call[p].packages[i]] = "rev"
    PROVE  IndInv'
<1> DEFINE e == call[p].packages[i]
<1>1. Moves(p, i, l, call[p].ok[i]) /\ call[p].ok[i] \in BOOLEAN
  BY GotoMoves DEF IndInv, CallsInv
<1>2. lock' \in [Entries -> Threads \cup {Nobody}]
  BY DEF IndInv, DirsInv
<1>3. /\ tmp' \in [Procs -> [Entries -> Contents]]
      /\ \A q \in Procs, x \in Entries : tmp'[q][x] # tmp[q][x] => q = p /\ x = e
  <2>1. CASE UNCHANGED tmp
    BY <2>1 DEF IndInv, DirsInv
  <2>2. ASSUME NEW c \in Contents, SetTmp(<<p, i>>, c)
        PROVE  <1>3
    <3>1. tmp' = [tmp EXCEPT ![p] = [tmp[p] EXCEPT ![e] = c]]
      BY <2>2 DEF SetTmp, Package
    <3> QED BY <3>1 DEF IndInv, DirsInv
  <2> QED BY <2>1, <2>2
<1>4. DirsInv' /\ CountersInv'
  BY <1>2, <1>3 DEF IndInv, DirsInv, CountersInv
<1>5. Respects(p, i)
  <2>1. \A x \in Entries : lock'[x] # lock[x] => lock[x] \in {Nobody, <<p, i>>}
    BY DEF IndInv, DirsInv
  <2>2. \A q \in Procs, x \in Entries : tmp'[q][x] # tmp[q][x] => q = p /\ lock[x] = <<p, i>>
    BY <1>3
  <2> QED BY <2>1, <2>2 DEF Respects
<1>6. Justified(p, i, l, call[p].ok[i])
  BY DEF Justified, IndInv, OkInv
<1> QED BY <1>1, <1>4, <1>5, <1>6, RespectfulStep

LEMMA ThreadStep ==
    ASSUME IndInv, NEW t \in Threads, Step(t)
    PROVE  IndInv'
<1>1. PICK p \in Procs, i \in Slots : t = <<p, i>>
  BY DEF Threads
<1> DEFINE e == call[p].packages[i]
<1>2. i \in DOMAIN call[p].pc /\ call[p].pc[i] # "over"
  BY <1>1 DEF Step, At, LookForPath, Refuse, Look, Verify, Lock, Clean, Clone, Checkout,
              VerifyTmp, Rename
<1>3. Package(t) = e
  BY <1>1 DEF Package
<1>4. /\ entry \in [Entries -> Contents] /\ tmp \in [Procs -> [Entries -> Contents]]
      /\ call[p].pc[i] \in Places
  BY <1>2 DEF IndInv, DirsInv, CallsInv
<1>5. ASSUME NEW b \in BOOLEAN, EndThread(t, b), UNCHANGED <<entry, tmp, tampers, budget, kills>>,
             b /\ e \in Entries => entry[e] = "rev"
      PROVE  IndInv'
  BY <1>1, <1>2, <1>4, <1>5, EndThreadStep
<1>6. ASSUME At(t, "start"), LookForPath(t) \/ Refuse(t) \/ Look(t) PROVE IndInv'
  <2>1. CASE LookForPath(t)
    BY <1>3, <1>5, <2>1, SourceCacheAssumption DEF LookForPath
  <2>2. CASE Refuse(t)
    BY <1>3, <1>5, <2>2 DEF Refuse
  <2>3. CASE Look(t)
    <3>1. ASSUME NEW l \in {"verify", "lock"}, Goto(t, l), UNCHANGED lock PROVE IndInv'
      <4>1. UNCHANGED <<entry, tmp, tampers, budget, kills>> /\ e \in Entries \ Invalid
        BY <1>3, <2>3 DEF Look
      <4> QED BY <1>1, <1>2, <3>1, <4>1, GotoStep DEF Places, Holding
    <3> QED BY <1>5, <2>3, <3>1 DEF Look
  <2> QED BY <1>6, <2>1, <2>2, <2>3
<1>7. ASSUME Verify(t) PROVE IndInv'
  BY <1>3, <1>5, <1>7 DEF Verify, HeadMatches
<1>8. ASSUME Lock(t) PROVE IndInv'
  <2>1. e \in Entries \ Invalid
    BY <1>1, <1>2, <1>8 DEF Lock, At, IndInv, PlacesInv
  <2>2. /\ lock[e] = Nobody /\ lock' = [lock EXCEPT ![e] = <<p, i>>]
        /\ UNCHANGED <<entry, tmp, tampers, budget, kills>>
    BY <1>1, <1>3, <1>8 DEF Lock
  <2>3. PICK l \in {"verify", "clean"} : Goto(t, l) /\ (l = "clean" => entry[e] = "absent")
    BY <1>3, <1>8 DEF Lock
  <2>4. lock'[e] = <<p, i>>
    BY <2>1, <2>2 DEF IndInv, DirsInv
  <2> QED BY <1>1, <1>2, <2>1, <2>2, <2>3, <2>4, GotoStep DEF Places, Holding
<1>9. ASSUME call[p].pc[i] \in Holding
      PROVE  e \in Entries \ Invalid /\ lock[e] = <<p, i>> /\ entry[e] = "absent"
  BY <1>2, <1>9 DEF IndInv, PlacesInv, HoldersInv
\* What a thread may do while it holds the lock, except for the rename.
<1>10. ASSUME call[p].pc[i] \in Holding, NEW c \in Contents,
              UNCHANGED tmp \/ SetTmp(t, c),
              UNCHANGED <<entry, tampers, budget, kills>>,
              \/ EndThread(t, FALSE)
              \/ \E l \in Holding \ {"rename"} : Goto(t, l) /\ UNCHANGED lock
       PROVE  IndInv'
  <2>1. CASE EndThread(t, FALSE)
    <3>1. /\ tmp' \in [Procs -> [Entries -> Contents]]
          /\ \A q \in Procs, x \in Entries : tmp'[q][x] # tmp[q][x] => q = p /\ x = e
      <4>1. CASE UNCHANGED tmp
        BY <1>4, <4>1
      <4>2. CASE SetTmp(t, c)
        <5>1. tmp' = [tmp EXCEPT ![p] = [tmp[p] EXCEPT ![e] = c]]
          BY <1>1, <1>3, <4>2 DEF SetTmp
        <5> QED BY <1>4, <5>1
      <4> QED BY <1>10, <4>1, <4>2
    <3> QED BY <1>1, <1>2, <1>4, <1>9, <1>10, <2>1, <3>1, EndThreadStep
  <2>2. ASSUME NEW l \in Holding \ {"rename"}, Goto(t, l), UNCHANGED lock PROVE IndInv'
    BY <1>1, <1>2, <1>9, <1>10, <2>2, GotoStep DEF Places, Holding
  <2> QED BY <1>10, <2>1, <2>2
<1>11. ASSUME Clean(t) \/ Clone(t) \/ Checkout(t) PROVE IndInv'
  <2>1. call[p].pc[i] \in {"clean", "clone", "checkout"}
    BY <1>1, <1>11 DEF Clean, Clone, Checkout, At
  <2>2. CASE Clean(t)
    BY <1>10, <2>1, <2>2 DEF Clean, Contents, Holding
  <2>3. CASE Clone(t)
    BY <1>10, <2>1, <2>3 DEF Clone, Contents, Holding
  <2>4. CASE Checkout(t)
    BY <1>10, <2>1, <2>4 DEF Checkout, Contents, Holding
  <2> QED BY <1>11, <2>2, <2>3, <2>4
<1>12. ASSUME VerifyTmp(t) PROVE IndInv'
  <2>1. call[p].pc[i] = "verifyTmp" /\ call[p].pc[i] \in Holding
    BY <1>1, <1>12 DEF VerifyTmp, At, Holding
  <2>2. CASE EndThread(t, FALSE)
    BY <1>5, <1>12, <2>2 DEF VerifyTmp
  <2>3. CASE HeadMatches(t, tmp[p][e]) /\ Goto(t, "rename") /\ UNCHANGED lock
    <3>1. tmp[p][e] = "rev"
      BY <2>3 DEF HeadMatches
    <3> QED BY <1>1, <1>2, <1>9, <1>12, <2>1, <2>3, <3>1, GotoStep DEF VerifyTmp, Places, Holding
  <2> QED BY <1>1, <1>3, <1>12, <2>2, <2>3 DEF VerifyTmp
<1>13. ASSUME Rename(t) PROVE IndInv'
  <2>1. call[p].pc[i] = "rename" /\ call[p].pc[i] \in Holding
    BY <1>1, <1>13 DEF Rename, At, Holding
  <2>2. CASE EndThread(t, FALSE) /\ UNCHANGED <<entry, tmp>>
    BY <1>5, <1>13, <2>2 DEF Rename
  <2>3. CASE /\ entry[e] = "absent"
             /\ entry' = [entry EXCEPT ![e] = tmp[p][e]]
             /\ SetTmp(t, "absent")
             /\ EndThread(t, TRUE)
    <3>1. tmp[p][e] = "rev" /\ "absent" \in Contents /\ "rev" \in Contents
      BY <1>2, <2>1 DEF IndInv, ClonesInv, Contents
    <3>2. tmp' = [tmp EXCEPT ![p] = [tmp[p] EXCEPT ![e] = "absent"]]
      BY <1>1, <1>3, <2>3 DEF SetTmp
    <3>3. /\ tmp' \in [Procs -> [Entries -> Contents]]
          /\ \A q \in Procs, x \in Entries : tmp'[q][x] # tmp[q][x] => q = p /\ x = e
      BY <1>4, <3>1, <3>2
    <3>4. /\ entry' \in [Entries -> Contents] /\ entry'[e] = "rev"
          /\ \A x \in Entries : entry'[x] # entry[x] => x = e
      BY <1>4, <1>9, <2>1, <2>3, <3>1
    <3>5. UNCHANGED <<tampers, budget, kills>>
      BY <1>13 DEF Rename
    <3>6. \A x \in Entries : entry'[x] # entry[x] =>
              entry[x] = "absent" /\ entry'[x] = "rev" /\ lock[x] = <<p, i>>
      BY <1>9, <2>1, <2>3, <3>4
    <3>7. \A q \in Procs, x \in Entries : tmp'[q][x] # tmp[q][x] =>
              q = p /\ lock[x] = <<p, i>>
      BY <1>9, <2>1, <3>3
    <3>8. EndThread(<<p, i>>, TRUE)
      BY <1>1, <2>3
    <3> QED BY <1>1, <1>2, <3>3, <3>4, <3>5, <3>6, <3>7, <3>8, EndThreadStep
  <2> QED BY <1>1, <1>3, <1>13, <2>2, <2>3 DEF Rename
<1> QED
  BY <1>6, <1>7, <1>8, <1>11, <1>12, <1>13 DEF Step, LookForPath, Refuse, Look

-----------------------------------------------------------------------------
(* The other steps. *)

LEMMA InitIndInv == Init => IndInv
<1> SUFFICES ASSUME Init PROVE IndInv
  OBVIOUS
<1>1. \A p \in Procs : call[p] = NoCall
  BY DEF Init
<1>2. /\ NoCall.pc = << >> /\ NoCall.ok = << >> /\ NoCall.packages = << >>
      /\ NoCall.on = FALSE /\ NoCall.answer = "none"
  BY DEF NoCall
<1>3. NoCall \in Calls /\ << >> \in [DOMAIN << >> -> Places] /\ << >> \in [DOMAIN << >> -> BOOLEAN]
  BY DEF NoCall, Calls, PerPackage, PackageLists
<1>4. CallsInv
  BY <1>1, <1>2, <1>3 DEF CallsInv, Init
<1>5. PlacesInv /\ HoldersInv /\ ClonesInv /\ OkInv /\ AnswersInv
  BY <1>1, <1>2 DEF PlacesInv, HoldersInv, ClonesInv, OkInv, AnswersInv
<1>6. DirsInv /\ CountersInv
  BY SourceCacheAssumption DEF Init, DirsInv, CountersInv, Contents
<1> QED BY <1>4, <1>5, <1>6 DEF IndInv

\* A new call has not looked at anything yet.
LEMMA BeginStep ==
    ASSUME IndInv, NEW p \in Procs, Begin(p)
    PROVE  IndInv'
<1> USE DEF IndInv
<1>1. PICK m \in Manifests :
          call' = [call EXCEPT ![p] = [on |-> TRUE, packages |-> m,
                                       pc |-> [i \in DOMAIN m |-> "start"],
                                       ok |-> [i \in DOMAIN m |-> FALSE],
                                       moved |-> {}, answer |-> "none"]]
  BY DEF Begin
<1> DEFINE c == [on |-> TRUE, packages |-> m, pc |-> [i \in DOMAIN m |-> "start"],
                 ok |-> [i \in DOMAIN m |-> FALSE], moved |-> {}, answer |-> "none"]
<1>2. c.pc \in [DOMAIN m -> Places] /\ c.ok \in [DOMAIN m -> BOOLEAN]
  BY DEF Places
<1>3. c \in Calls
  BY <1>2 DEF Calls, PerPackage, PackageLists
<1>4. /\ c.packages = m /\ c.on = TRUE /\ c.answer = "none" /\ DOMAIN c.pc = DOMAIN m
      /\ \A i \in DOMAIN m : c.pc[i] = "start" /\ c.ok[i] = FALSE
  OBVIOUS
<1>5. call' \in [Procs -> Calls] /\ call'[p] = c /\ \A q \in Procs \ {p} : call'[q] = call[q]
  BY <1>1, <1>3 DEF CallsInv
<1>6. UNCHANGED <<entry, tmp, lock, tampers, kills>> /\ budget' = budget - 1 /\ budget > 0
  BY DEF Begin
<1> HIDE DEF c
<1>7. CallsInv'
  BY <1>2, <1>4, <1>5 DEF CallsInv
<1>8. PlacesInv' /\ ClonesInv'
  BY <1>4, <1>5, <1>6 DEF PlacesInv, ClonesInv, Holding
<1>11. HoldersInv'
  <2>1. ASSUME NEW q \in Procs, NEW j \in DOMAIN call'[q].pc, call'[q].pc[j] \in Holding
        PROVE  /\ lock'[call'[q].packages[j]] = <<q, j>>
               /\ entry'[call'[q].packages[j]] = "absent"
    <3>1. q # p /\ call'[q] = call[q]
      BY <1>4, <1>5, <2>1 DEF Holding
    <3> QED BY <1>6, <2>1, <3>1 DEF HoldersInv
  <2> QED BY <2>1 DEF HoldersInv
<1>9. OkInv' /\ AnswersInv'
  BY <1>4, <1>5, <1>6 DEF OkInv, AnswersInv
<1>10. DirsInv' /\ CountersInv'
  BY <1>6, SourceCacheAssumption DEF DirsInv, CountersInv
<1> QED BY <1>7, <1>8, <1>9, <1>10, <1>11

\* The answer is Ok only if every thread's is.
LEMMA JoinStep ==
    ASSUME IndInv, NEW p \in Procs, Join(p)
    PROVE  IndInv'
<1> USE DEF IndInv
<1> DEFINE a == IF \A i \in DOMAIN call[p].ok : call[p].ok[i] THEN "ok" ELSE "error"
           c == [call[p] EXCEPT !.on = FALSE, !.answer = a]
<1>1. call[p] \in Calls
  BY DEF CallsInv
<1>2. call' = [call EXCEPT ![p] = c]
  BY <1>1 DEF Join, Calls
<1>3. /\ c.on = FALSE /\ c.answer = a /\ c.packages = call[p].packages
      /\ c.pc = call[p].pc /\ c.ok = call[p].ok /\ c.moved = call[p].moved
  BY <1>1 DEF Calls
<1>4. c \in Calls
  BY <1>1 DEF Calls
<1>5. DOMAIN call[p].ok = DOMAIN call[p].pc /\ \A i \in DOMAIN call[p].pc : call[p].pc[i] = "over"
  BY DEF Join, CallsInv
<1>6. a = "ok" => \A i \in DOMAIN call[p].pc : call[p].ok[i]
  BY <1>5
<1> HIDE DEF c, a
<1>7. call' \in [Procs -> Calls] /\ call'[p] = c /\ \A q \in Procs \ {p} : call'[q] = call[q]
  BY <1>2, <1>4 DEF CallsInv
<1>8. UNCHANGED <<entry, tmp, lock, tampers, budget, kills>>
  BY DEF Join
<1>9. CallsInv'
  BY <1>3, <1>7 DEF CallsInv
<1>10. PlacesInv' /\ ClonesInv'
  BY <1>3, <1>7, <1>8 DEF PlacesInv, ClonesInv
<1>14. HoldersInv'
  <2>1. ASSUME NEW q \in Procs, NEW j \in DOMAIN call'[q].pc, call'[q].pc[j] \in Holding
        PROVE  /\ lock'[call'[q].packages[j]] = <<q, j>>
               /\ entry'[call'[q].packages[j]] = "absent"
    <3>1. call'[q].pc = call[q].pc /\ call'[q].packages = call[q].packages
      BY <1>3, <1>7
    <3> QED BY <1>8, <2>1, <3>1 DEF HoldersInv
  <2> QED BY <2>1 DEF HoldersInv
<1>11. OkInv'
  BY <1>3, <1>7, <1>8 DEF OkInv
<1>12. AnswersInv'
  BY <1>3, <1>5, <1>6, <1>7 DEF AnswersInv
<1>13. DirsInv' /\ CountersInv'
  BY <1>8 DEF DirsInv, CountersInv
<1> QED BY <1>9, <1>10, <1>11, <1>12, <1>13, <1>14

\* A kill takes the locks of one process, and whatever its git still writes
\* is beside no entry that somebody else works on.
LEMMA KillStep ==
    ASSUME IndInv, NEW p \in Procs, Kill(p)
    PROVE  IndInv'
<1> USE DEF IndInv
<1>1. PICK left \in [Entries -> Contents] : tmp' = [tmp EXCEPT ![p] = left]
  BY DEF Kill
<1>2. /\ call' = [call EXCEPT ![p] = NoCall]
      /\ lock' = [e \in Entries |-> IF lock[e] # Nobody /\ lock[e] \in {p} \X Slots
                                    THEN Nobody ELSE lock[e]]
      /\ UNCHANGED <<entry, tampers, budget>> /\ kills < MaxKills /\ kills' = kills + 1
  BY DEF Kill
<1>3. /\ NoCall.pc = << >> /\ NoCall.ok = << >> /\ NoCall.packages = << >>
      /\ NoCall.on = FALSE /\ NoCall.answer = "none"
  BY DEF NoCall
<1>4. NoCall \in Calls /\ << >> \in [DOMAIN << >> -> Places] /\ << >> \in [DOMAIN << >> -> BOOLEAN]
  BY DEF NoCall, Calls, PerPackage, PackageLists
<1>5. call' \in [Procs -> Calls] /\ call'[p] = NoCall /\ \A q \in Procs \ {p} : call'[q] = call[q]
  BY <1>2, <1>4 DEF CallsInv
<1>6. CallsInv'
  BY <1>3, <1>4, <1>5 DEF CallsInv
<1>7. PlacesInv' /\ OkInv' /\ AnswersInv'
  BY <1>2, <1>3, <1>5 DEF PlacesInv, OkInv, AnswersInv
<1>8. tmp' \in [Procs -> [Entries -> Contents]] /\ \A q \in Procs \ {p} : tmp'[q] = tmp[q]
  BY <1>1 DEF DirsInv
<1>9. HoldersInv'
  <2>1. ASSUME NEW q \in Procs, NEW j \in DOMAIN call'[q].pc, call'[q].pc[j] \in Holding
        PROVE  /\ lock'[call'[q].packages[j]] = <<q, j>>
               /\ entry'[call'[q].packages[j]] = "absent"
    <3>1. q # p /\ call'[q] = call[q]
      BY <1>3, <1>5, <2>1
    <3>2. /\ call[q].packages[j] \in Entries /\ lock[call[q].packages[j]] = <<q, j>>
          /\ entry[call[q].packages[j]] = "absent"
      BY <2>1, <3>1 DEF HoldersInv, PlacesInv
    <3> QED BY <1>2, <3>1, <3>2
  <2> QED BY <2>1 DEF HoldersInv
<1>10. ClonesInv'
  BY <1>3, <1>5, <1>8 DEF ClonesInv
<1>11. DirsInv' /\ CountersInv'
  BY <1>2, <1>8, SourceCacheAssumption DEF DirsInv, CountersInv
<1> QED BY <1>6, <1>7, <1>9, <1>10, <1>11

\* An entry moved by hand was there, so nobody clones it, and every call
\* under way is excused.
LEMMA TamperStep ==
    ASSUME IndInv, NEW x \in Entries, Tamper(x)
    PROVE  IndInv'
<1> USE DEF IndInv
<1> DEFINE c(q) == [call[q] EXCEPT !.moved = call[q].moved \cup {x}]
<1>1. call' = [q \in Procs |-> c(q)]
  BY DEF Tamper
<1>2. \A q \in Procs :
          /\ c(q) \in Calls /\ c(q).moved = call[q].moved \cup {x}
          /\ c(q).on = call[q].on /\ c(q).packages = call[q].packages /\ c(q).pc = call[q].pc
          /\ c(q).ok = call[q].ok /\ c(q).answer = call[q].answer
  BY DEF CallsInv, Calls
<1> HIDE DEF c
<1>3. /\ call' \in [Procs -> Calls]
      /\ \A q \in Procs : /\ call'[q].moved = call[q].moved \cup {x}
                          /\ call'[q].on = call[q].on /\ call'[q].packages = call[q].packages
                          /\ call'[q].pc = call[q].pc /\ call'[q].ok = call[q].ok
                          /\ call'[q].answer = call[q].answer
  BY <1>1, <1>2
<1>4. /\ entry[x] = "rev" /\ entry' = [entry EXCEPT ![x] = "default"]
      /\ UNCHANGED <<tmp, lock, budget, kills>>
      /\ tampers < MaxTampers /\ tampers' = tampers + 1
  BY DEF Tamper
<1>5. /\ entry' \in [Entries -> Contents]
      /\ \A e \in Entries \ {x} : entry'[e] = entry[e]
  BY <1>4 DEF DirsInv, Contents
<1>6. CallsInv' /\ PlacesInv' /\ AnswersInv'
  BY <1>3 DEF CallsInv, PlacesInv, AnswersInv
<1>7. HoldersInv' /\ ClonesInv'
  BY <1>3, <1>4, <1>5 DEF HoldersInv, ClonesInv, PlacesInv
<1>8. OkInv'
  BY <1>3, <1>5 DEF OkInv
<1>9. DirsInv' /\ CountersInv'
  BY <1>4, <1>5, SourceCacheAssumption DEF DirsInv, CountersInv
<1> QED BY <1>6, <1>7, <1>8, <1>9

LEMMA IndInvStep == IndInv /\ [Next]_vars => IndInv'
<1>1. ASSUME IndInv, UNCHANGED vars PROVE IndInv'
  BY <1>1 DEF vars, IndInv, CallsInv, PlacesInv, HoldersInv, ClonesInv, OkInv, AnswersInv,
              DirsInv, CountersInv
<1> QED
  BY <1>1, ThreadStep, BeginStep, JoinStep, KillStep, TamperStep DEF Next, Over

-----------------------------------------------------------------------------
(* The theorems. *)

\* The source cache always satisfies the invariant the theorems below rest on.
THEOREM Inductive == Spec => []IndInv
<1> QED BY InitIndInv, IndInvStep, PTL DEF Spec

\* Every variable stays in its domain, and whoever works on a clone of an
\* entry holds its flock.
THEOREM TypeCorrect == Spec => []TypeOK
<1>1. IndInv => TypeOK
  <2> SUFFICES ASSUME IndInv, NEW p \in Procs
               PROVE  /\ call[p].on \in BOOLEAN /\ call[p].answer \in {"none", "ok", "error"}
                      /\ call[p].packages \in Manifests \cup {<< >>}
                      /\ call[p].moved \subseteq Entries
                      /\ DOMAIN call[p].pc = DOMAIN call[p].packages
                      /\ \A i \in DOMAIN call[p].pc :
                             /\ call[p].pc[i] \in Places
                             /\ call[p].pc[i] \in Holding =>
                                    lock[call[p].packages[i]] = <<p, i>>
    BY DEF IndInv, DirsInv, CountersInv, TypeOK
  <2>1. call[p] \in Calls /\ call[p].pc \in [DOMAIN call[p].packages -> Places]
    BY DEF IndInv, CallsInv
  <2> QED BY <2>1 DEF IndInv, HoldersInv, Calls, PackageLists
<1> QED BY <1>1, Inductive, PTL

\* The second look under the lock suffices: whoever reaches the rename in
\* ensure_git finds nothing at the entry's path, however many processes race
\* and whichever of them are killed.
THEOREM LosersFindTheEntry == Spec => []NobodyClonesTwice
<1>1. IndInv => NobodyClonesTwice
  BY DEF IndInv, HoldersInv, NobodyClonesTwice, Threads, At, Package, Holding
<1> QED BY <1>1, Inductive, PTL

\* When materialize returns Ok, every entry of the manifest is at its own
\* revision, or was moved by hand after the call began.
THEOREM OkIsReady == Spec => []OkMeansReady
<1>1. IndInv => OkMeansReady
  BY DEF IndInv, OkInv, AnswersInv, CallsInv, OkMeansReady
<1> QED BY <1>1, Inductive, PTL

\* An entry appears whole, at its revision, by one rename; nothing else
\* changes one but a hand: not a git that fails or is killed anywhere, not a
\* process killed at any point.
THEOREM EntriesStayWhole == Spec => EntriesAreWhole
<1>1. IndInv /\ [Next]_vars =>
          [\A e \in Entries : entry'[e] # entry[e] =>
               \/ entry[e] = "absent" /\ entry'[e] = "rev"
               \/ Tamper(e)]_vars
  <2> SUFFICES ASSUME IndInv, Next, NEW e \in Entries, entry'[e] # entry[e]
               PROVE  (entry[e] = "absent" /\ entry'[e] = "rev") \/ Tamper(e)
    OBVIOUS
  <2>1. ASSUME NEW t \in Threads, Rename(t), entry' # entry
        PROVE  entry[e] = "absent" /\ entry'[e] = "rev"
    <3>1. PICK p \in Procs, i \in Slots : t = <<p, i>>
      BY DEF Threads
    <3>2. /\ i \in DOMAIN call[p].pc /\ call[p].pc[i] = "rename"
          /\ entry[call[p].packages[i]] = "absent"
          /\ entry' = [entry EXCEPT ![call[p].packages[i]] = tmp[p][call[p].packages[i]]]
      BY <2>1, <3>1 DEF Rename, At, Package
    <3>3. tmp[p][call[p].packages[i]] = "rev"
      BY <3>2 DEF IndInv, ClonesInv
    <3> QED BY <3>2, <3>3 DEF IndInv, DirsInv
  <2>2. ASSUME NEW t \in Threads, Step(t) PROVE Rename(t) \/ UNCHANGED entry
    BY <2>2 DEF Step, LookForPath, Refuse, Look, Verify, Lock, Clean, Clone, Checkout, VerifyTmp
  <2>3. ASSUME NEW x \in Entries, Tamper(x) PROVE x = e
    BY <2>3 DEF Tamper, IndInv, DirsInv
  <2>4. \A p \in Procs : Begin(p) \/ Join(p) \/ Kill(p) => UNCHANGED entry
    BY DEF Begin, Join, Kill
  <2> QED BY <2>1, <2>2, <2>3, <2>4 DEF Next, Over, vars
<1> QED BY <1>1, Inductive, PTL DEF EntriesAreWhole, Spec

=============================================================================
