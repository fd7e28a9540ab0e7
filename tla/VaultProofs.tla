----------------------------- MODULE VaultProofs -----------------------------
(***************************************************************************)
(* What holds of Vault for every number of pods, requests and keys, every  *)
(* set of paths and every retry limit.                                     *)
(***************************************************************************)
EXTENDS Vault, TLAPS

-----------------------------------------------------------------------------
(***************************************************************************)
(* The inductive invariant.                                                *)
(***************************************************************************)
(* A call of Unlock that is under way has a key that parsed and a pod. *)
UnlockInv ==
  \A u \in UnlockProcs :
    unlock[u].pc \in {"verify", "commit"} =>
      unlock[u].key \in Keys /\ unlock[u].pod \in Pods

(* How far a request is, and what it may have at the API server. *)
CallInv ==
  \A w \in Writers :
    /\ pc[w] = "idle" => op[w] = NoOp
    /\ pc[w] \in {"idle", "get"} => call[w] = "none"
    /\ pc[w] \in Active \/ call[w] # "none" => op[w] \in Ops
    /\ pc[w] \in Definite => call[w] \notin {"sent", "ok"}
    /\ pc[w] = "done" => call[w] = "ok"

(* A write in flight was made from a Secret that the writer could decrypt  *)
(* and on which its modifier succeeded.                                    *)
SnapInv ==
  \A w \in Writers : call[w] = "sent" =>
    /\ Opens(snap[w], key[w])
    /\ ~ModifierFails(snap[w].tree, op[w])
    /\ snap[w].state = "absent" => snap[w] = Absent

(* A resource version names one content of the Secret. *)
VersionInv ==
  /\ secret.state = "absent" => secret = Absent
  /\ secret.rv <= rev
  /\ \A w \in Writers :
       /\ snap[w].rv <= rev
       /\ snap[w].state # "absent" /\ secret.state # "absent" /\ snap[w].rv = secret.rv
            => snap[w] = secret

(* Every attempt that failed was overtaken by a change of the Secret. *)
ProgressInv ==
  \A w \in Writers :
    /\ pc[w] = "idle" => attempt[w] = 0
    /\ pc[w] \in Active => attempt[w] < MaxRetries
    /\ pc[w] = "get" => start[w] + attempt[w] <= rev
    /\ pc[w] = "call" => start[w] + attempt[w] <= seen[w]
    /\ pc[w] = "conflict" => start[w] + MaxRetries <= rev
    /\ seen[w] <= rev
    /\ call[w] = "sent" /\ seen[w] = rev => snap[w] = secret
    /\ call[w] \in {"exists", "conflict"} => seen[w] < rev

(* A key that does not open the vault was verified before the vault's birth.*)
AgeInv ==
  /\ \A p \in Pods :
       /\ checked[p] <= rev
       /\ identity[p] # NoKey /\ ~Opens(secret, identity[p]) => checked[p] < born
  /\ \A u \in UnlockProcs :
       /\ unlock[u].since <= rev
       /\ unlock[u].pc = "commit" /\ ~Opens(secret, unlock[u].key)
            => unlock[u].since < born

IInv == /\ TypeOK
        /\ UnlockInv
        /\ CallInv
        /\ SnapInv
        /\ VersionInv
        /\ ProgressInv
        /\ AgeInv
        /\ WellFormedVault

-----------------------------------------------------------------------------
(***************************************************************************)
(* Facts about the constants and the operators.                            *)
(***************************************************************************)
(* What a request asks for lies in the tree's domain. *)
LEMMA OpsType == \A o \in Ops : o.path \in Paths /\ o.node \in Nodes \cup {NoNode}
BY RequestAssumption DEF Ops

(* The name that is free, as a value of the variable secret. *)
LEMMA AbsentType ==
  /\ EmptyTree \in Trees
  /\ Absent \in Secrets
  /\ Absent.state = "absent" /\ Absent.rv = 0 /\ Absent.tree = EmptyTree
BY DEF EmptyTree, Trees, Absent, Secrets

(* The modifiers keep a tree a tree. *)
LEMMA ModifiedType ==
  ASSUME NEW t \in Trees, NEW o \in Ops
  PROVE  Modified(t, o) \in Trees
BY OpsType DEF Modified, Trees

(* The empty tree has no secret for an entry to lie below. *)
LEMMA EmptyTreeWellFormed == WellFormed(EmptyTree)
BY DEF WellFormed, Leaf, Present, EmptyTree

(* What checkPathConflict is for: a store that it lets pass, and every     *)
(* deletion, keeps the tree free of entries below secrets.                 *)
LEMMA ModifiedWellFormed ==
  ASSUME NEW t \in Trees, NEW o \in Ops, WellFormed(t), ~ModifierFails(t, o)
  PROVE  WellFormed(Modified(t, o))
PROOF
<1> DEFINE m == Modified(t, o)
<1>1. /\ o.path \in Paths /\ DOMAIN t = Paths /\ DOMAIN m = Paths
      /\ m[o.path] = o.node
      /\ \A p \in Paths : p # o.path => m[p] = t[p]
  BY OpsType DEF Modified, Trees
<1>2. SUFFICES ASSUME NEW p \in Paths, NEW q \in Paths,
                      Leaf(m, p), Present(m, q), Under(q, p)
               PROVE  FALSE
  BY <1>1 DEF WellFormed
<1>3. p # q
  BY <1>2 DEF Under, IsStrictPrefix
<1>4. CASE p # o.path /\ q # o.path
  BY <1>1, <1>2, <1>4 DEF WellFormed, Leaf, Present
<1>5. CASE p = o.path
  <2>1. ~LeafOverChildren(t, o.path, FALSE) /\ Present(t, q)
    BY <1>1, <1>2, <1>3, <1>5 DEF ModifierFails, checkPathConflict, Leaf, Present, LeafOverChildren
  <2> QED BY <1>1, <1>2, <1>5, <2>1 DEF LeafOverChildren
<1>6. CASE q = o.path
  <2>1. ~BelowLeaf(t, o.path) /\ Leaf(t, p)
    BY <1>1, <1>2, <1>3, <1>6 DEF ModifierFails, checkPathConflict, Leaf, Present
  <2> QED BY <1>1, <1>2, <1>3, <1>6, <2>1 DEF BelowLeaf
<1> QED BY <1>4, <1>5, <1>6

-----------------------------------------------------------------------------
(***************************************************************************)
(* The actions, grouped by what they touch.                                *)
(***************************************************************************)
(* The steps of Unlock change only the state of the pods. *)
PodStep ==
  \/ \E p \in Pods, k \in Keys \cup {NoKey, Malformed} : NewVaultManager(p, k)
  \/ \E u \in Unlockers, p \in Pods, k \in Keys \cup {Malformed} : UnlockBegin(u, p, k)
  \/ \E u \in UnlockProcs : verifyIdentity(u) \/ UnlockCommit(u)

(* The steps with which a request ends, conflicts aside, change only pc. *)
Ends(w) ==
  \/ RejectWrite(w) \/ GetFails(w) \/ DecryptFails(w) \/ RefuseChange(w)
  \/ AssignToNilMap(w) \/ ReturnOk(w) \/ ReturnNotFound(w) \/ NetworkError(w)

(* Every step is of one of these kinds. *)
LEMMA NextCases ==
  ASSUME Next
  PROVE  \/ PodStep
         \/ \E p \in Pods : Crash(p)
         \/ \E w \in Writers :
              \/ \E p \in Pods, r \in Requests : BeginWrite(w, p, r)
              \/ Ends(w) \/ SendWrite(w) \/ ReturnConflict(w)
              \/ ApiCommit(w) \/ ApiRefuse(w)
         \/ DeleteSecret
         \/ TouchSecret
BY DEF Next, Unlocking, Writing, Read, Answer, Api, PodStep, Ends

(* What PodStep leaves alone. *)
LEMMA PodStepFrame ==
  ASSUME PodStep
  PROVE  UNCHANGED <<secret, rev, born, pc, op, at, key, start, attempt, snap, seen, call>>
BY DEF PodStep, NewVaultManager, UnlockBegin, verifyIdentity, UnlockCommit,
       cluster, job, cycle

(* What Ends leaves alone, and the values that it gives pc. *)
LEMMA EndsFrame ==
  ASSUME TypeOK, NEW w \in Writers, Ends(w)
  PROVE  /\ UNCHANGED <<secret, rev, born, proc, identity, unlock, checked,
                        op, at, key, start, attempt, snap, seen, call>>
         /\ \E e \in Returned :
              /\ pc' = [pc EXCEPT ![w] = e]
              /\ e \in Definite =>
                   \/ pc[w] \in {"idle", "get"}
                   \/ call[w] = "notfound"
              /\ e = "done" => call[w] = "ok"
              /\ e # "conflict"
BY DEF Ends, RejectWrite, GetFails, DecryptFails, RefuseChange, AssignToNilMap,
       ReturnOk, ReturnNotFound, NetworkError, cluster, pods, job, cycle, Returned, Definite

-----------------------------------------------------------------------------
(* The initial states satisfy the invariant. *)
LEMMA InitIInv == Init => IInv
PROOF
<1> SUFFICES ASSUME Init PROVE IInv
  OBVIOUS
<1> USE DEF Init
<1>1. /\ secret \in Secrets /\ secret.rv <= 1 /\ WellFormed(secret.tree)
      /\ secret.state = "absent" => secret = Absent
  BY InitAssumption
<1>2. TypeOK
  BY <1>1, AbsentType, RetryAssumption DEF TypeOK, Idle, Unlock, Unlocks, Active, Returned, Definite
<1>3. UnlockInv
  BY DEF UnlockInv, Idle, Unlock
<1>4. CallInv
  BY DEF CallInv, Active, Definite
<1>5. SnapInv
  BY DEF SnapInv
<1>6. VersionInv
  BY <1>1, AbsentType DEF VersionInv, Secrets
<1>7. ProgressInv
  BY DEF ProgressInv, Active
<1>8. AgeInv
  BY DEF AgeInv, Idle, Unlock
<1> QED BY <1>1, <1>2, <1>3, <1>4, <1>5, <1>6, <1>7, <1>8 DEF IInv, WellFormedVault

-----------------------------------------------------------------------------
(***************************************************************************)
(* Each part of the invariant is preserved by every step.                  *)
(***************************************************************************)
(* Steps keep every variable in its type. *)
LEMMA TypeStep == IInv /\ [Next]_vars => TypeOK'
PROOF
<1> SUFFICES ASSUME IInv, [Next]_vars PROVE TypeOK'
  OBVIOUS
<1> USE DEF IInv, TypeOK
<1>1. CASE PodStep
  <2> USE PodStepFrame
  <2>1. ASSUME NEW p \in Pods, NEW k \in Keys \cup {NoKey, Malformed}, NewVaultManager(p, k)
        PROVE  TypeOK'
    BY <1>1, <2>1 DEF NewVaultManager, Unlock, Unlocks, UnlockProcs
  <2>2. ASSUME NEW u \in Unlockers, NEW p \in Pods, NEW k \in Keys \cup {Malformed},
               UnlockBegin(u, p, k)
        PROVE  TypeOK'
    BY <1>1, <2>2 DEF UnlockBegin, Unlock, Unlocks, UnlockProcs
  <2>3. ASSUME NEW u \in UnlockProcs, UnlockReturns(u)
        PROVE  /\ proc' \in [Pods -> {"down", "boot", "up"}]
               /\ unlock' \in [UnlockProcs -> Unlocks]
    <3>1. Over(u) \in Unlocks /\ Idle \in Unlocks
      BY DEF Over, Unlock, Unlocks, Idle
    <3> QED BY <2>3, <3>1 DEF UnlockReturns, UnlockProcs
  <2>4. ASSUME NEW u \in UnlockProcs, verifyIdentity(u)
        PROVE  TypeOK'
    BY <1>1, <2>3, <2>4 DEF verifyIdentity, Unlock, Unlocks
  <2>5. ASSUME NEW u \in UnlockProcs, UnlockCommit(u)
        PROVE  TypeOK'
    BY <1>1, <2>3, <2>5 DEF UnlockCommit, UnlockInv, Unlocks
  <2> QED BY <1>1, <2>1, <2>2, <2>4, <2>5 DEF PodStep
<1>2. ASSUME NEW p \in Pods, Crash(p) PROVE TypeOK'
  BY <1>2 DEF Crash, Idle, Unlock, Unlocks, Over, cluster, job, cycle, Active, Returned
<1>3. ASSUME NEW w \in Writers, NEW p \in Pods, NEW r \in Requests, BeginWrite(w, p, r)
      PROVE  TypeOK'
  BY <1>3 DEF BeginWrite, Ops, cluster, pods, cycle, Active
<1>4. ASSUME NEW w \in Writers, Ends(w) PROVE TypeOK'
  BY <1>4, EndsFrame DEF Active, Returned
<1>5. ASSUME NEW w \in Writers, SendWrite(w) PROVE TypeOK'
  BY <1>5 DEF SendWrite, Send, cluster, pods, job, Active
<1>6. ASSUME NEW w \in Writers, ReturnConflict(w) PROVE TypeOK'
  <2>1. attempt[w] \in 0..MaxRetries /\ attempt[w] < MaxRetries
    BY <1>6 DEF ReturnConflict, ProgressInv, Active
  <2>2. attempt[w] + 1 \in 0..MaxRetries
    BY <2>1, RetryAssumption
  <2> QED BY <1>6, <2>2 DEF ReturnConflict, cluster, pods, job, Active, Returned, Definite
<1>7. ASSUME NEW w \in Writers, ApiCommit(w) PROVE TypeOK'
  <2>1. Modified(snap[w].tree, op[w]) \in Trees
    BY <1>7, ModifiedType DEF ApiCommit, CallInv, Secrets
  <2>2. secret' \in Secrets
    BY <1>7, <2>1 DEF ApiCommit, Sealed, Secrets
  <2> QED BY <1>7, <2>2 DEF ApiCommit, pods, job, cycle
<1>8. ASSUME NEW w \in Writers, ApiRefuse(w) PROVE TypeOK'
  BY <1>8 DEF ApiRefuse, Refusal, cluster, pods, job, cycle
<1>9. CASE DeleteSecret
  BY <1>9, AbsentType DEF DeleteSecret, pods, job, cycle
<1>10. CASE TouchSecret
  <2>1. rev + 1 \in Nat /\ secret \in Secrets
    OBVIOUS
  <2>2. [secret EXCEPT !.rv = rev + 1] \in Secrets
    BY <2>1 DEF Secrets
  <2> QED BY <1>10, <2>1, <2>2 DEF TouchSecret, pods, job, cycle
<1>11. CASE UNCHANGED vars
  BY <1>11 DEF vars, cluster, pods, job, cycle
<1> QED BY <1>1, <1>2, <1>3, <1>4, <1>5, <1>6, <1>7, <1>8, <1>9, <1>10, <1>11, NextCases

(* Steps leave every call of Unlock with a key and a pod while it needs them. *)
LEMMA UnlockStep == IInv /\ [Next]_vars => UnlockInv'
PROOF
<1> SUFFICES ASSUME IInv, [Next]_vars, NEW x \in UnlockProcs,
                    unlock'[x].pc \in {"verify", "commit"}
             PROVE  unlock'[x].key \in Keys /\ unlock'[x].pod \in Pods
  BY DEF UnlockInv
<1> DEFINE Goal == unlock'[x].key \in Keys /\ unlock'[x].pod \in Pods
<1>0. /\ unlock \in [UnlockProcs -> Unlocks]
      /\ unlock[x].pc \in {"verify", "commit"} =>
           unlock[x].key \in Keys /\ unlock[x].pod \in Pods
  BY DEF IInv, TypeOK, UnlockInv
<1>1. CASE UNCHANGED unlock
  BY <1>0, <1>1
<1>2. ASSUME NEW p \in Pods, NEW k \in Keys \cup {NoKey, Malformed}, NewVaultManager(p, k)
      PROVE  Goal
  BY <1>0, <1>1, <1>2 DEF NewVaultManager, Unlock
<1>3. ASSUME NEW u \in Unlockers, NEW p \in Pods, NEW k \in Keys \cup {Malformed},
             UnlockBegin(u, p, k)
      PROVE  Goal
  BY <1>0, <1>3 DEF UnlockBegin, Unlock
<1>4. ASSUME NEW u \in UnlockProcs, UnlockReturns(u) PROVE Goal
  BY <1>0, <1>4 DEF UnlockReturns, Over, Idle, Unlock
<1>5. ASSUME NEW u \in UnlockProcs, verifyIdentity(u) PROVE Goal
  BY <1>0, <1>4, <1>5 DEF verifyIdentity, Unlock
<1>6. ASSUME NEW u \in UnlockProcs, UnlockCommit(u) PROVE Goal
  BY <1>4, <1>6 DEF UnlockCommit
<1>7. ASSUME NEW p \in Pods, Crash(p) PROVE Goal
  BY <1>0, <1>7 DEF Crash, Over, Idle, Unlock
<1>8. ASSUME NEW w \in Writers, Ends(w) PROVE Goal
  BY <1>1, <1>8, EndsFrame DEF IInv
<1> QED
  BY <1>1, <1>2, <1>3, <1>5, <1>6, <1>7, <1>8, NextCases
  DEF PodStep, BeginWrite, SendWrite, Send, ReturnConflict, ApiCommit, ApiRefuse,
      DeleteSecret, TouchSecret, vars, pods

(* Steps keep what a request has at the API server in line with its pc. *)
LEMMA CallStep == IInv /\ [Next]_vars => CallInv'
PROOF
<1> SUFFICES ASSUME IInv, [Next]_vars PROVE CallInv'
  OBVIOUS
<1>0. /\ CallInv
      /\ pc \in [Writers -> {"idle"} \cup Active \cup Returned]
      /\ call \in [Writers -> {"none", "sent", "ok", "exists", "conflict", "notfound"}]
      /\ op \in [Writers -> Ops \cup {NoOp}]
  BY DEF IInv, TypeOK
<1> USE DEF CallInv, Active, Returned, Definite
<1>1. CASE UNCHANGED <<pc, call, op>>
  BY <1>0, <1>1
<1>2. ASSUME NEW p \in Pods, Crash(p) PROVE CallInv'
  BY <1>0, <1>2 DEF Crash, job
<1>3. ASSUME NEW w \in Writers, NEW p \in Pods, NEW r \in Requests, BeginWrite(w, p, r)
      PROVE  CallInv'
  BY <1>0, <1>3 DEF BeginWrite, Ops
<1>4. ASSUME NEW w \in Writers, Ends(w) PROVE CallInv'
  BY <1>0, <1>4, EndsFrame DEF IInv
<1>5. ASSUME NEW w \in Writers, SendWrite(w) PROVE CallInv'
  BY <1>0, <1>5 DEF SendWrite, Send, job
<1>6. ASSUME NEW w \in Writers, ReturnConflict(w) PROVE CallInv'
  BY <1>0, <1>6 DEF ReturnConflict, job
<1>7. ASSUME NEW w \in Writers, ApiCommit(w) PROVE CallInv'
  BY <1>0, <1>7 DEF ApiCommit, job
<1>8. ASSUME NEW w \in Writers, ApiRefuse(w) PROVE CallInv'
  BY <1>0, <1>8 DEF ApiRefuse, Refusal, job
<1> QED
  BY <1>1, <1>2, <1>3, <1>4, <1>5, <1>6, <1>7, <1>8, NextCases, PodStepFrame
  DEF DeleteSecret, TouchSecret, vars, job

(* Steps keep every write in flight consistent with the Secret it was made from. *)
LEMMA SnapStep == IInv /\ [Next]_vars => SnapInv'
PROOF
<1> SUFFICES ASSUME IInv, [Next]_vars PROVE SnapInv'
  OBVIOUS
<1>0. /\ SnapInv
      /\ call \in [Writers -> {"none", "sent", "ok", "exists", "conflict", "notfound"}]
      /\ snap \in [Writers -> Secrets]
      /\ key \in [Writers -> Keys \cup {NoKey}]
      /\ op \in [Writers -> Ops \cup {NoOp}]
      /\ \A w \in Writers : pc[w] = "idle" => call[w] = "none"
  BY DEF IInv, TypeOK, CallInv
<1> USE DEF SnapInv
<1>1. CASE UNCHANGED <<call, snap, key, op>>
  BY <1>0, <1>1
<1>2. ASSUME NEW p \in Pods, Crash(p) PROVE SnapInv'
  BY <1>1, <1>2 DEF Crash, job, cycle
<1>3. ASSUME NEW w \in Writers, NEW p \in Pods, NEW r \in Requests, BeginWrite(w, p, r)
      PROVE  SnapInv'
  BY <1>0, <1>3 DEF BeginWrite, cycle
<1>4. ASSUME NEW w \in Writers, Ends(w) PROVE SnapInv'
  BY <1>1, <1>4, EndsFrame DEF IInv
<1>5. ASSUME NEW w \in Writers, SendWrite(w) PROVE SnapInv'
  BY <1>0, <1>5 DEF SendWrite, Send, job, IInv, VersionInv
<1>6. ASSUME NEW w \in Writers, ReturnConflict(w) PROVE SnapInv'
  BY <1>0, <1>6 DEF ReturnConflict, job
<1>7. ASSUME NEW w \in Writers, ApiCommit(w) PROVE SnapInv'
  BY <1>0, <1>7 DEF ApiCommit, job, cycle
<1>8. ASSUME NEW w \in Writers, ApiRefuse(w) PROVE SnapInv'
  BY <1>0, <1>8 DEF ApiRefuse, Refusal, job, cycle
<1> QED
  BY <1>1, <1>2, <1>3, <1>4, <1>5, <1>6, <1>7, <1>8, NextCases, PodStepFrame
  DEF DeleteSecret, TouchSecret, vars, job, cycle

(* A resource version still names one content after every step. *)
LEMMA VersionStep == IInv /\ [Next]_vars => VersionInv'
PROOF
<1> SUFFICES ASSUME IInv, [Next]_vars PROVE VersionInv'
  OBVIOUS
<1>0. /\ VersionInv
      /\ rev \in Nat /\ secret \in Secrets /\ snap \in [Writers -> Secrets]
      /\ secret.rv \in Nat /\ \A w \in Writers : snap[w].rv \in Nat
  BY DEF IInv, TypeOK, Secrets
<1>1. CASE UNCHANGED <<secret, rev, snap>>
  BY <1>0, <1>1 DEF VersionInv
<1>2. ASSUME NEW w \in Writers, SendWrite(w) PROVE VersionInv'
  BY <1>0, <1>2 DEF SendWrite, Send, cluster, VersionInv
<1>3. ASSUME NEW w \in Writers, ApiCommit(w) PROVE VersionInv'
  BY <1>0, <1>3 DEF ApiCommit, Sealed, cycle, VersionInv
<1>4. CASE DeleteSecret
  BY <1>0, <1>4, AbsentType DEF DeleteSecret, cycle, VersionInv
<1>5. ASSUME NEW w \in Writers, Ends(w) PROVE VersionInv'
  BY <1>1, <1>5, EndsFrame DEF IInv
<1>6. CASE TouchSecret
  BY <1>0, <1>6 DEF TouchSecret, cycle, VersionInv, Secrets
<1> QED
  BY <1>1, <1>2, <1>3, <1>4, <1>5, <1>6, NextCases, PodStepFrame
  DEF Crash, BeginWrite, ReturnConflict, ApiRefuse, vars, cluster, cycle

(* An accepted write is made from the Secret that it replaces, or the name *)
(* is free and it is made from nothing: the compare-and-set at work.       *)
LEMMA AcceptedIsFresh ==
  ASSUME IInv, NEW w \in Writers, call[w] = "sent", Accepted(w)
  PROVE  snap[w] = secret
BY DEF IInv, VersionInv, SnapInv, Accepted

(* A refused write was overtaken by a change of the Secret. *)
LEMMA RefusedIsOvertaken ==
  ASSUME IInv, NEW w \in Writers, call[w] = "sent", ~Accepted(w)
  PROVE  seen[w] < rev
PROOF
<1>1. seen[w] \in Nat /\ rev \in Nat /\ seen[w] <= rev
  BY DEF IInv, TypeOK, ProgressInv
<1>2. seen[w] # rev
  BY DEF IInv, ProgressInv, Accepted
<1> QED BY <1>1, <1>2

(* Every failed attempt is still accounted for after every step. *)
LEMMA ProgressStep == IInv /\ [Next]_vars => ProgressInv'
PROOF
<1> SUFFICES ASSUME IInv, [Next]_vars PROVE ProgressInv'
  OBVIOUS
<1>0. /\ ProgressInv
      /\ rev \in Nat /\ MaxRetries \in Nat \ {0}
      /\ pc \in [Writers -> {"idle"} \cup Active \cup Returned]
      /\ call \in [Writers -> {"none", "sent", "ok", "exists", "conflict", "notfound"}]
      /\ start \in [Writers -> Nat] /\ attempt \in [Writers -> 0..MaxRetries]
      /\ seen \in [Writers -> Nat] /\ snap \in [Writers -> Secrets]
      /\ \A w \in Writers : pc[w] \in {"idle", "get"} => call[w] = "none"
  BY RetryAssumption DEF IInv, TypeOK, CallInv
<1> USE DEF ProgressInv
<1>1. CASE UNCHANGED <<secret, rev, pc, call, start, attempt, seen, snap>>
  BY <1>0, <1>1
<1>2. ASSUME NEW p \in Pods, Crash(p) PROVE ProgressInv'
  BY <1>0, <1>2 DEF Crash, cluster, job, cycle, Active
<1>3. ASSUME NEW w \in Writers, NEW p \in Pods, NEW r \in Requests, BeginWrite(w, p, r)
      PROVE  ProgressInv'
  BY <1>0, <1>3 DEF BeginWrite, cluster, cycle, Active
<1>4. ASSUME NEW w \in Writers, Ends(w) PROVE ProgressInv'
  BY <1>0, <1>4, EndsFrame DEF IInv, Active, Returned, Definite
<1>5. ASSUME NEW w \in Writers, SendWrite(w) PROVE ProgressInv'
  BY <1>0, <1>5 DEF SendWrite, Send, cluster, job, Active
<1>6. ASSUME NEW w \in Writers, ReturnConflict(w) PROVE ProgressInv'
  BY <1>0, <1>6 DEF ReturnConflict, cluster, job, Active
<1>7. ASSUME NEW w \in Writers, ApiCommit(w) PROVE ProgressInv'
  BY <1>0, <1>7 DEF ApiCommit, job, cycle, Active
<1>8. ASSUME NEW w \in Writers, ApiRefuse(w) PROVE ProgressInv'
  <2>1. seen[w] < rev
    BY <1>8, RefusedIsOvertaken DEF ApiRefuse
  <2> QED BY <1>0, <1>8, <2>1 DEF ApiRefuse, cluster, job, cycle, Active
<1>9. CASE DeleteSecret
  BY <1>0, <1>9 DEF DeleteSecret, job, cycle, Active
<1>10. CASE TouchSecret
  BY <1>0, <1>10 DEF TouchSecret, job, cycle, Active
<1> QED
  BY <1>1, <1>2, <1>3, <1>4, <1>5, <1>6, <1>7, <1>8, <1>9, <1>10, NextCases, PodStepFrame
  DEF vars, cluster, job, cycle

(* No entry comes to lie below a secret. *)
LEMMA WellFormedStep == IInv /\ [Next]_vars => WellFormedVault'
PROOF
<1> SUFFICES ASSUME IInv, [Next]_vars PROVE WellFormedVault'
  OBVIOUS
<1>1. CASE UNCHANGED secret
  BY <1>1 DEF IInv, WellFormedVault
<1>2. ASSUME NEW w \in Writers, ApiCommit(w) PROVE WellFormedVault'
  <2>1. /\ snap[w] = secret
        /\ op[w] \in Ops
        /\ ~ModifierFails(secret.tree, op[w])
    BY <1>2, AcceptedIsFresh DEF ApiCommit, IInv, CallInv, SnapInv
  <2>2. secret.tree \in Trees /\ WellFormed(secret.tree)
    BY DEF IInv, TypeOK, Secrets, WellFormedVault
  <2>3. WellFormed(Modified(secret.tree, op[w]))
    BY <2>1, <2>2, ModifiedWellFormed
  <2> QED BY <1>2, <2>1, <2>3 DEF ApiCommit, Sealed, WellFormedVault
<1>3. CASE DeleteSecret
  BY <1>3, AbsentType, EmptyTreeWellFormed DEF DeleteSecret, WellFormedVault
<1>4. ASSUME NEW w \in Writers, Ends(w) PROVE WellFormedVault'
  BY <1>1, <1>4, EndsFrame DEF IInv
<1>5. CASE TouchSecret
  <2>1. secret'.tree = secret.tree
    BY <1>5 DEF TouchSecret, IInv, TypeOK, Secrets
  <2> QED BY <2>1 DEF IInv, WellFormedVault
<1> QED
  BY <1>1, <1>2, <1>3, <1>4, <1>5, NextCases, PodStepFrame
  DEF Crash, BeginWrite, SendWrite, Send, ReturnConflict, ApiRefuse, vars, cluster

(* A step that leaves the vault sealed leaves its key alone, and sets born *)
(* when it creates a vault.                                                *)
LEMMA KeyStep ==
  ASSUME IInv, [Next]_vars
  PROVE  /\ secret.state = "sealed" /\ secret'.state = "sealed" =>
              secret'.key = secret.key /\ born' = born
         /\ secret.state # "sealed" /\ secret'.state = "sealed" => born' = rev + 1
PROOF
<1>1. CASE UNCHANGED <<secret, born>>
  BY <1>1
<1>2. ASSUME NEW w \in Writers, ApiCommit(w)
      PROVE  /\ secret.state = "sealed" => secret'.key = secret.key /\ born' = born
             /\ secret.state # "sealed" => born' = rev + 1
  <2>1. snap[w] = secret /\ Opens(secret, key[w])
    BY <1>2, AcceptedIsFresh DEF ApiCommit, IInv, SnapInv
  <2> QED BY <1>2, <2>1 DEF ApiCommit, Sealed, Opens
<1>3. CASE DeleteSecret
  BY <1>3, AbsentType DEF DeleteSecret
<1>4. ASSUME NEW w \in Writers, Ends(w) PROVE UNCHANGED <<secret, born>>
  BY <1>4, EndsFrame DEF IInv
<1>5. CASE TouchSecret
  BY <1>5 DEF TouchSecret, IInv, TypeOK, Secrets
<1> QED
  BY <1>1, <1>2, <1>3, <1>4, <1>5, NextCases, PodStepFrame
  DEF Crash, BeginWrite, SendWrite, Send, ReturnConflict, ApiRefuse, vars, cluster

(* Revisions only grow. *)
LEMMA RevStep == IInv /\ [Next]_vars => rev' \in Nat /\ rev <= rev'
PROOF
<1> SUFFICES ASSUME IInv, [Next]_vars PROVE rev' \in Nat /\ rev <= rev'
  OBVIOUS
<1>1. rev \in Nat
  BY DEF IInv, TypeOK
<1>2. ASSUME NEW w \in Writers, Ends(w) PROVE UNCHANGED rev
  BY <1>2, EndsFrame DEF IInv
<1> QED
  BY <1>1, <1>2, NextCases, PodStepFrame
  DEF Crash, BeginWrite, SendWrite, Send, ReturnConflict, ApiCommit, ApiRefuse, DeleteSecret,
      TouchSecret, vars, cluster

(* A key that was checked when the vault was there opens the vault. *)
LEMMA AgeStep == IInv /\ [Next]_vars => AgeInv'
PROOF
<1> SUFFICES ASSUME IInv, [Next]_vars PROVE AgeInv'
  OBVIOUS
<1>0. /\ rev \in Nat /\ born \in Nat /\ checked \in [Pods -> Nat]
      /\ identity \in [Pods -> Keys \cup {NoKey}]
      /\ unlock \in [UnlockProcs -> Unlocks]
      /\ \A u \in UnlockProcs : unlock[u].since \in Nat
      /\ AgeInv
  BY DEF IInv, TypeOK, Unlocks
<1>a. rev' \in Nat /\ rev <= rev'
  BY RevStep
<1>1. ASSUME UNCHANGED <<identity, checked, unlock>>
      PROVE  AgeInv'
  <2>1. ASSUME NEW k, NEW n \in Nat, n <= rev, ~Opens(secret, k) => n < born
        PROVE  ~Opens(secret', k) => n < born'
    BY <1>0, <1>a, <2>1, KeyStep DEF Opens
  <2>2. ASSUME NEW p \in Pods
        PROVE  /\ checked'[p] <= rev'
               /\ identity'[p] # NoKey /\ ~Opens(secret', identity'[p]) => checked'[p] < born'
    BY <1>0, <1>1, <1>a, <2>1 DEF AgeInv
  <2>3. ASSUME NEW u \in UnlockProcs
        PROVE  /\ unlock'[u].since <= rev'
               /\ unlock'[u].pc = "commit" /\ ~Opens(secret', unlock'[u].key)
                    => unlock'[u].since < born'
    BY <1>0, <1>1, <1>a, <2>1 DEF AgeInv
  <2> QED BY <2>2, <2>3 DEF AgeInv
<1>2. CASE PodStep
  <2>0. UNCHANGED <<secret, rev, born>>
    BY <1>2, PodStepFrame
  <2> USE <1>0, <2>0 DEF AgeInv
  <2>1. ASSUME NEW p \in Pods, NEW k \in Keys \cup {NoKey, Malformed}, NewVaultManager(p, k)
        PROVE  AgeInv'
    BY <2>1 DEF NewVaultManager, Unlock, UnlockProcs
  <2>2. ASSUME NEW u \in Unlockers, NEW p \in Pods, NEW k \in Keys \cup {Malformed},
               UnlockBegin(u, p, k)
        PROVE  AgeInv'
    BY <2>2 DEF UnlockBegin, Unlock, UnlockProcs
  <2>3. ASSUME NEW u \in UnlockProcs, UnlockReturns(u)
        PROVE  \A x \in UnlockProcs :
                 /\ unlock'[x].since <= rev
                 /\ unlock'[x].pc = "commit" /\ ~Opens(secret, unlock'[x].key)
                      => unlock'[x].since < born
    BY <2>3 DEF UnlockReturns, Over, Idle, Unlock
  <2>4. ASSUME NEW u \in UnlockProcs, verifyIdentity(u) PROVE AgeInv'
    BY <2>3, <2>4 DEF verifyIdentity, Unlock
  <2>5. ASSUME NEW u \in UnlockProcs, UnlockCommit(u) PROVE AgeInv'
    <3>1. unlock[u].pod \in Pods
      BY <2>5 DEF UnlockCommit, IInv, UnlockInv
    <3>2. \A p \in Pods :
            /\ checked'[p] <= rev
            /\ identity'[p] # NoKey /\ ~Opens(secret, identity'[p]) => checked'[p] < born
      BY <2>5, <3>1 DEF UnlockCommit
    <3> QED BY <2>3, <2>5, <3>2 DEF UnlockCommit
  <2> QED BY <1>2, <2>1, <2>2, <2>4, <2>5 DEF PodStep
<1>3. ASSUME NEW p \in Pods, Crash(p) PROVE AgeInv'
  BY <1>0, <1>3 DEF Crash, cluster, AgeInv, Over, Idle, Unlock
<1>4. ASSUME NEW w \in Writers, Ends(w) PROVE AgeInv'
  BY <1>1, <1>4, EndsFrame DEF IInv
<1> QED
  BY <1>1, <1>2, <1>3, <1>4, NextCases
  DEF BeginWrite, SendWrite, Send, ReturnConflict, ApiCommit, ApiRefuse, DeleteSecret,
      TouchSecret, vars, pods

-----------------------------------------------------------------------------
(***************************************************************************)
(* The theorems.                                                           *)
(***************************************************************************)
(* The invariant holds in every reachable state. *)
THEOREM Invariance == Spec => []IInv
PROOF
<1>1. IInv /\ [Next]_vars => IInv'
  BY TypeStep, UnlockStep, CallStep, SnapStep, VersionStep, ProgressStep, AgeStep,
     WellFormedStep DEF IInv
<1> QED BY <1>1, InitIInv, PTL DEF Spec

(* VaultManager, UpdateVault and the Secret only hold values of their types:*)
(* in particular the loop counter never passes maxRetries.                 *)
THEOREM TypeCorrect == Spec => []TypeOK
PROOF
<1>1. IInv => TypeOK
  BY DEF IInv
<1> QED BY <1>1, Invariance, PTL

(* checkPathConflict keeps entries from lying below secrets although every *)
(* request checks a copy of the tree that others may be changing.          *)
THEOREM WellFormedAlways == Spec => []WellFormedVault
PROOF
<1>1. IInv => WellFormedVault
  BY DEF IInv
<1> QED BY <1>1, Invariance, PTL

(* UpdateVault gives up on conflicts only after maxRetries changes by others.*)
THEOREM ConflictsAreProgress == Spec => []ConflictMeansProgress
PROOF
<1>1. IInv => ConflictMeansProgress
  BY RetryAssumption DEF IInv, TypeOK, ProgressInv, ConflictMeansProgress
<1> QED BY <1>1, Invariance, PTL

(* Every error of UpdateVault but a lost answer means that nothing changed. *)
THEOREM FailuresAreDefinite == Spec => []DefiniteFailure
PROOF
<1>1. IInv => DefiniteFailure
  BY DEF IInv, CallInv, DefiniteFailure
<1> QED BY <1>1, Invariance, PTL

(* A key that verifyIdentity accepted while the vault existed opens it for *)
(* as long as it exists.                                                   *)
THEOREM WrongKeysAreOlder == Spec => []WrongKeyIsOlder
PROOF
<1>1. IInv => WrongKeyIsOlder
  BY DEF IInv, AgeInv, WrongKeyIsOlder
<1> QED BY <1>1, Invariance, PTL

(* No write of any pod ever seals the existing vault for another key. *)
THEOREM KeyIsStable == Spec => KeyNeverChanges
PROOF
<1>1. IInv /\ [Next]_vars =>
        [secret.state = "sealed" /\ secret'.state = "sealed" => secret'.key = secret.key]_vars
  BY KeyStep
<1> QED BY <1>1, Invariance, PTL DEF Spec, KeyNeverChanges

(* Whatever concurrent calls of Unlock do, a loaded identity stays until   *)
(* its pod goes down.                                                      *)
THEOREM IdentityIsStable == Spec => IdentityWriteOnce
PROOF
<1> DEFINE Stable(p) == identity[p] # NoKey => identity'[p] = identity[p] \/ proc'[p] = "down"
<1>1. ASSUME IInv, [Next]_vars, NEW p \in Pods PROVE Stable(p)
  <2>0. proc \in [Pods -> {"down", "boot", "up"}] /\ identity \in [Pods -> Keys \cup {NoKey}]
    BY <1>1 DEF IInv, TypeOK
  <2>1. CASE UNCHANGED identity
    BY <2>1
  <2>2. ASSUME NEW u \in UnlockProcs, UnlockCommit(u) PROVE Stable(p)
    BY <2>0, <2>2 DEF UnlockCommit
  <2>3. ASSUME NEW q \in Pods, Crash(q) PROVE Stable(p)
    BY <2>0, <2>3 DEF Crash
  <2>4. ASSUME NEW w \in Writers, Ends(w) PROVE UNCHANGED identity
    BY <1>1, <2>4, EndsFrame DEF IInv
  <2> QED
    BY <1>1, <2>1, <2>2, <2>3, <2>4, NextCases
    DEF PodStep, NewVaultManager, UnlockBegin, verifyIdentity, BeginWrite, SendWrite, Send,
        ReturnConflict, ApiCommit, ApiRefuse, DeleteSecret, TouchSecret, vars, pods
<1>2. IInv /\ [Next]_vars =>
        [\A p \in Pods : identity[p] # NoKey =>
            identity'[p] = identity[p] \/ proc'[p] = "down"]_vars
  BY <1>1
<1> QED BY <1>2, Invariance, PTL DEF Spec, IdentityWriteOnce

-----------------------------------------------------------------------------
(* The modifiers of the UI refuse exactly what the abstract store refuses. *)
LEMMA SameRefusals ==
  ASSUME NEW t, NEW o
  PROVE  /\ Store!Accepts(t, o) <=> ~ModifierFails(t, o)
         /\ Store!Result(t, o) = Modified(t, o)
BY DEF Store!Accepts, Store!Result, ModifierFails, Modified, Store!checkPathConflict,
       checkPathConflict, Store!OtherType, OtherType, Store!LeafOverChildren, LeafOverChildren,
       Store!BelowLeaf, BelowLeaf, Store!Leaf, Leaf, Store!Present, Present, Store!Under, Under,
       Store!IsStrictPrefix, IsStrictPrefix, Store!IsPrefix, IsPrefix

(* The requests that took effect and those that were confirmed. *)
Applied == {w \in Writers : call[w] = "ok"}
Confirmed == {w \in Writers : pc[w] = "done"}

(* The pods together implement the abstract store: every step of Vault is  *)
(* one atomic operation on one tree, or invisible.                         *)
THEOREM Refinement == Spec => StoreSpec
PROOF
<1>1. Init => Store!Init
  <2> SUFFICES ASSUME Init PROVE Store!Init
    OBVIOUS
  <2>1. secret \in Secrets /\ WellFormed(secret.tree)
    BY InitAssumption DEF Init
  <2>2. DOMAIN secret.tree = Paths
    BY <2>1 DEF Secrets, Trees
  <2>3. Store!WellFormed(secret.tree)
    BY <2>1 DEF WellFormed, Store!WellFormed, Store!Leaf, Leaf, Store!Present, Present,
         Store!Under, Under, Store!IsStrictPrefix, IsStrictPrefix, Store!IsPrefix, IsPrefix
  <2> QED BY <2>2, <2>3 DEF Init, Store!Init
<1>2. IInv /\ [Next]_vars => [Store!Next]_Store!vars
  <2> SUFFICES ASSUME IInv, [Next]_vars PROVE [Store!Next]_Store!vars
    OBVIOUS
  <2>0. /\ pc \in [Writers -> {"idle"} \cup Active \cup Returned]
        /\ call \in [Writers -> {"none", "sent", "ok", "exists", "conflict", "notfound"}]
        /\ op \in [Writers -> Ops \cup {NoOp}]
        /\ CallInv
    BY DEF IInv, TypeOK
  <2>1. CASE UNCHANGED <<secret, op, Applied, Confirmed>>
    BY <2>1 DEF Store!vars, Applied, Confirmed
  <2>2. ASSUME NEW w \in Writers, NEW p \in Pods, NEW r \in Requests, BeginWrite(w, p, r)
        PROVE  Store!Submit(w)
    <3>1. op[w] = NoOp /\ [path |-> normalizePath(r.path), node |-> r.node] \in Ops
      BY <2>0, <2>2 DEF BeginWrite, CallInv, Ops
    <3>2. UNCHANGED <<secret, Applied, Confirmed>>
      BY <2>0, <2>2 DEF BeginWrite, cluster, Applied, Confirmed
    <3> QED BY <2>2, <3>1, <3>2 DEF BeginWrite, Store!Submit, Applied, Confirmed
  <2>3. ASSUME NEW w \in Writers, ApiCommit(w) PROVE Store!Apply(w)
    <3>1. /\ snap[w] = secret /\ ~ModifierFails(secret.tree, op[w])
          /\ op[w] # NoOp /\ call[w] = "sent"
      BY <2>0, <2>3, AcceptedIsFresh, NoOpAssumption DEF ApiCommit, IInv, SnapInv, CallInv
    <3>2. /\ secret'.tree = Store!Result(secret.tree, op[w])
          /\ Store!Accepts(secret.tree, op[w])
      BY <2>3, <3>1, SameRefusals DEF ApiCommit, Sealed
    <3>3. Applied' = Applied \cup {w} /\ w \notin Applied /\ UNCHANGED <<op, Confirmed>>
      BY <2>0, <2>3, <3>1 DEF ApiCommit, job, Applied, Confirmed
    <3> QED BY <3>1, <3>2, <3>3 DEF Store!Apply, Applied, Confirmed
  <2>4. ASSUME NEW w \in Writers, Ends(w)
        PROVE  Store!Confirm(w) \/ UNCHANGED <<secret, op, Applied, Confirmed>>
    <3>1. PICK e \in Returned : /\ pc' = [pc EXCEPT ![w] = e]
                                /\ e = "done" => call[w] = "ok"
      BY <2>4, EndsFrame DEF IInv
    <3>2. UNCHANGED <<secret, op, Applied>>
      BY <2>4, EndsFrame DEF IInv, Applied
    <3>3. CASE e = "done"
      <4>1. Confirmed' = Confirmed \cup {w} /\ w \in Applied
        BY <2>0, <3>1, <3>3 DEF Confirmed, Applied
      <4> QED BY <3>2, <4>1 DEF Store!Confirm, Applied, Confirmed
    <3>4. CASE e # "done"
      <4>1. pc[w] # "done"
        BY <2>4 DEF Ends, RejectWrite, GetFails, DecryptFails, RefuseChange, AssignToNilMap,
             ReturnOk, ReturnNotFound, NetworkError
      <4> QED BY <2>0, <3>1, <3>2, <3>4, <4>1 DEF Confirmed
    <3> QED BY <3>3, <3>4
  <2>5. CASE DeleteSecret
    BY <2>5, AbsentType DEF DeleteSecret, job, Store!Next, Store!Wipe, Store!EmptyTree, EmptyTree
  <2>6. ASSUME NEW p \in Pods, Crash(p) PROVE UNCHANGED <<secret, op, Applied, Confirmed>>
    BY <2>0, <2>6 DEF Crash, cluster, job, Applied, Confirmed, Active
  <2>7. ASSUME NEW w \in Writers, SendWrite(w)
        PROVE  UNCHANGED <<secret, op, Applied, Confirmed>>
    BY <2>0, <2>7 DEF SendWrite, Send, cluster, job, Applied, Confirmed, CallInv
  <2>8. ASSUME NEW w \in Writers, ReturnConflict(w)
        PROVE  UNCHANGED <<secret, op, Applied, Confirmed>>
    BY <2>0, <2>8 DEF ReturnConflict, cluster, job, Applied, Confirmed
  <2>9. ASSUME NEW w \in Writers, ApiRefuse(w)
        PROVE  UNCHANGED <<secret, op, Applied, Confirmed>>
    BY <2>0, <2>9 DEF ApiRefuse, Refusal, cluster, job, Applied, Confirmed
  <2>10. CASE PodStep
    BY <2>1, <2>10, PodStepFrame DEF Applied, Confirmed
  <2>11. CASE UNCHANGED vars
    BY <2>1, <2>11 DEF vars, cluster, job, Applied, Confirmed
  <2>12. CASE TouchSecret
    <3>1. secret'.tree = secret.tree /\ UNCHANGED <<op, call, pc>>
      BY <2>12 DEF TouchSecret, job, IInv, TypeOK, Secrets
    <3> QED BY <3>1 DEF Store!vars
  <2> QED
    BY <2>1, <2>2, <2>3, <2>4, <2>5, <2>6, <2>7, <2>8, <2>9, <2>10, <2>11, <2>12, NextCases
    DEF Store!Next
<1> QED BY <1>1, <1>2, Invariance, PTL DEF Spec, StoreSpec, Store!Spec
=============================================================================
