-------------------------------- MODULE Vault --------------------------------
(***************************************************************************)
(* The encrypted vault shared by the provider pods: VaultManager (vault.go)*)
(* of every pod, the write handlers of the admin UI that drive it (/unlock,*)
(* /update and /delete of ui.go), and the one Kubernetes Secret that all   *)
(* pods read and write through the API server.                             *)
(*                                                                         *)
(* A pod holds nothing but its master key; the tree is decrypted, changed  *)
(* and encrypted again by every request.  A request is several API calls,  *)
(* and between any two of them other requests of the same or of other pods *)
(* run, pods crash and boot, answers get lost, and an operator may delete  *)
(* the Secret.  A write that was sent stays in flight when its sender gives*)
(* up or dies: the API server may still apply it.                          *)
(***************************************************************************)
EXTENDS Naturals, VaultPath

CONSTANTS
  Pods,          \* the pods of the DaemonSet
  Writers,       \* POST /update and POST /delete requests
  Unlockers,     \* POST /unlock requests
  Keys,          \* age identities
  NoKey,         \* the identity of a locked vault; no key from the provider
  Malformed,     \* a master key that does not parse
  Paths,         \* the keys a stored tree may hold
  Values,        \* the values of secrets; "" is what an empty form field holds
  Requests,      \* what users ask for: [path, node], node = NoNode to delete
  NoOp, NoPod,   \* what a request that has not begun asks for, and where
  MaxRetries,    \* maxRetries of UpdateVault
  MaxTouched,    \* bound on the revision up to which others touch the Secret
  InitSecrets    \* what may be stored under the Secret's name at the start

Nodes == [value : Values, isFolder : BOOLEAN]
Trees == [Paths -> Nodes \cup {NoNode}]
EmptyTree == [p \in Paths |-> NoNode]

(***************************************************************************)
(* The Secret as the code tells it apart.  "absent": the name is free;     *)
(* "nodata": its Data map is nil; "novault": Data has no or an empty       *)
(* vault.enc; "sealed": vault.enc holds tree, encrypted for key.  rv is its*)
(* resourceVersion.                                                        *)
(***************************************************************************)
Secrets == [state : {"absent", "nodata", "novault", "sealed"},
            rv : Nat, key : Keys \cup {NoKey}, tree : Trees]

Absent == [state |-> "absent", rv |-> 0, key |-> NoKey, tree |-> EmptyTree]
Sealed(v, k, t) == [state |-> "sealed", rv |-> v, key |-> k, tree |-> t]

Ops == {[path |-> normalizePath(r.path), node |-> r.node] : r \in Requests}
UnlockProcs == Unlockers \cup Pods   \* pod p unlocks itself when it boots

ASSUME NodeAssumption == NoNode \notin Nodes
ASSUME KeyAssumption == NoKey \notin Keys /\ Malformed \notin Keys /\ Malformed # NoKey
ASSUME PodAssumption == NoPod \notin Pods
ASSUME RetryAssumption == MaxRetries \in Nat \ {0}
ASSUME RequestAssumption ==
  \A r \in Requests : /\ normalizePath(r.path) \in Paths
                      /\ r.node \in Nodes \cup {NoNode}
ASSUME NoOpAssumption == NoOp \notin Ops
ASSUME InitAssumption ==
  \A s \in InitSecrets :
    /\ s \in Secrets
    /\ s.rv <= 1
    /\ s.state = "absent" => s = Absent
    /\ s.state # "sealed" => s.tree = EmptyTree
    /\ s.state = "sealed" => s.key \in Keys
    /\ WellFormed(s.tree)

VARIABLES
  secret,     \* the stored Secret
  rev,        \* the revision counter of the API server
  proc,       \* proc[p]: "down", "boot" (in NewVaultManager) or "up"
  identity,   \* identity[p]: VaultManager.identity, NoKey while isLocked
  unlock,     \* unlock[u]: the call of Unlock by u, [pc, pod, key, since]
  pc,         \* pc[w]: where the call of UpdateVault by w stands
  op, at,     \* op[w], at[w]: what w asks for and the pod that serves it
  key,        \* key[w]: the identity that w took when it entered UpdateVault
  attempt,    \* attempt[w]: the loop counter
  snap,       \* snap[w]: the Secret that w read and bases its write on
  call,       \* call[w]: the fate of w's last write at the API server
  start, seen, \* history: rev when w began and when it last read
  checked,    \* history: checked[p] is rev when p's key was verified
  born        \* history: rev when the stored vault was created

cluster == <<secret, rev, born>>
pods == <<proc, identity, unlock, checked>>
job == <<op, at, key, start>>
cycle == <<attempt, snap, seen>>
vars == <<cluster, pods, pc, job, cycle, call>>

Active == {"get", "call"}
Definite == {"rejected", "unreadable", "clash", "panicked", "conflict", "notfound"}
Returned == Definite \cup {"done", "neterr", "killed"}

Unlocks == [pc : {"idle", "verify", "commit", "over"}, pod : Pods \cup {NoPod},
            key : Keys \cup {NoKey, Malformed}, since : Nat]
Unlock(step, p, k, v) == [pc |-> step, pod |-> p, key |-> k, since |-> v]
Idle == Unlock("idle", NoPod, NoKey, 0)

Init ==
  /\ secret \in InitSecrets
  /\ rev = 1
  /\ born = 1
  /\ proc = [p \in Pods |-> "down"]
  /\ identity = [p \in Pods |-> NoKey]
  /\ checked = [p \in Pods |-> 0]
  /\ unlock = [u \in UnlockProcs |-> Idle]
  /\ pc = [w \in Writers |-> "idle"]
  /\ op = [w \in Writers |-> NoOp]
  /\ at = [w \in Writers |-> NoPod]
  /\ key = [w \in Writers |-> NoKey]
  /\ start = [w \in Writers |-> 0]
  /\ attempt = [w \in Writers |-> 0]
  /\ snap = [w \in Writers |-> Absent]
  /\ seen = [w \in Writers |-> 0]
  /\ call = [w \in Writers |-> "none"]

-----------------------------------------------------------------------------
(***************************************************************************)
(* Booting, unlocking and crashing.                                        *)
(*                                                                         *)
(* NewVaultManager asks the key provider for the master key and, when it   *)
(* gets one, calls Unlock; the servers start only after it returns.  A     *)
(* provider that fails or has no key leaves the vault locked.              *)
(***************************************************************************)
NewVaultManager(p, k) ==
  /\ proc[p] = "down"
  /\ IF k \in Keys
       THEN /\ proc' = [proc EXCEPT ![p] = "boot"]
            /\ unlock' = [unlock EXCEPT ![p] = Unlock("verify", p, k, 0)]
       ELSE /\ proc' = [proc EXCEPT ![p] = "up"]
            /\ UNCHANGED unlock
  /\ UNCHANGED <<cluster, identity, checked, pc, job, cycle, call>>

(* POST /unlock: refused at once when a key is loaded or k does not parse. *)
UnlockBegin(u, p, k) ==
  /\ unlock[u].pc = "idle"
  /\ proc[p] = "up"
  /\ LET goesOn == identity[p] = NoKey /\ k \in Keys
     IN  unlock' = [unlock EXCEPT ![u] =
                      Unlock(IF goesOn THEN "verify" ELSE "over", p, k, 0)]
  /\ UNCHANGED <<cluster, proc, identity, checked, pc, job, cycle, call>>

(* A Secret without a vault is open to every key, so that the first one can*)
(* bootstrap the vault.                                                    *)
Opens(s, k) == s.state = "sealed" => s.key = k

(* Mutant of verifyIdentity: the key is not tried on the vault. *)
verifyNothing(u) ==
  /\ unlock[u].pc = "verify"
  /\ unlock' = [unlock EXCEPT ![u] =
                        Unlock("commit", unlock[u].pod, unlock[u].key, rev)]
  /\ UNCHANGED <<cluster, proc, identity, checked, pc, job, cycle, call>>

Over(u) == Unlock("over", unlock[u].pod, unlock[u].key, unlock[u].since)

(* The end of Unlock: NewVaultManager returns, or /unlock answers. *)
UnlockReturns(u) ==
  IF u \in Pods
    THEN /\ unlock' = [unlock EXCEPT ![u] = Idle]
         /\ proc' = [proc EXCEPT ![u] = "up"]
    ELSE /\ unlock' = [unlock EXCEPT ![u] = Over(u)]
         /\ UNCHANGED proc

verifyIdentity(u) ==
  /\ unlock[u].pc = "verify"
  /\ \/ /\ Opens(secret, unlock[u].key)
        /\ unlock' = [unlock EXCEPT ![u] =
                        Unlock("commit", unlock[u].pod, unlock[u].key, rev)]
        /\ UNCHANGED proc
     \/ UnlockReturns(u)    \* the key does not open the vault, or Get failed
  /\ UNCHANGED <<cluster, identity, checked, pc, job, cycle, call>>

(* Mutant of UnlockCommit: isLocked is not checked again under the lock. *)
UnlockOverwrites(u) ==
  /\ unlock[u].pc = "commit"
  /\ identity' = [identity EXCEPT ![unlock[u].pod] = unlock[u].key]
  /\ checked' = [checked EXCEPT ![unlock[u].pod] = unlock[u].since]
  /\ UnlockReturns(u)
  /\ UNCHANGED <<cluster, pc, job, cycle, call>>

(* The locked part of Unlock: a concurrent Unlock may have won. *)
UnlockCommit(u) ==
  /\ unlock[u].pc = "commit"
  /\ LET p == unlock[u].pod
     IN  IF identity[p] = NoKey
           THEN /\ identity' = [identity EXCEPT ![p] = unlock[u].key]
                /\ checked' = [checked EXCEPT ![p] = unlock[u].since]
           ELSE UNCHANGED <<identity, checked>>
  /\ UnlockReturns(u)
  /\ UNCHANGED <<cluster, pc, job, cycle, call>>

(* A pod dies with its key and everything it was doing, except for the     *)
(* writes that it already sent.                                            *)
Crash(p) ==
  /\ proc[p] # "down"
  /\ proc' = [proc EXCEPT ![p] = "down"]
  /\ identity' = [identity EXCEPT ![p] = NoKey]
  /\ unlock' = [u \in UnlockProcs |->
                  IF unlock[u].pod # p THEN unlock[u]
                  ELSE IF u \in Pods THEN Idle
                  ELSE Over(u)]
  /\ pc' = [w \in Writers |->
              IF at[w] = p /\ pc[w] \in Active THEN "killed" ELSE pc[w]]
  /\ checked' = [checked EXCEPT ![p] = 0]
  /\ UNCHANGED <<cluster, job, cycle, call>>

-----------------------------------------------------------------------------
(***************************************************************************)
(* The write handlers.  /update takes a canonical path and a value unless  *)
(* it stores a folder; /delete takes any path.                             *)
(***************************************************************************)
Valid(r) ==
  r.node # NoNode =>
    /\ validateVaultPath(normalizePath(r.path))
    /\ r.node.isFolder \/ r.node.value # ""

(* Mutant of BeginWrite: the handler does not normalize the form's path. *)
BeginRawWrite(w, p, r) ==
  /\ pc[w] = "idle"
  /\ proc[p] = "up"
  /\ identity[p] # NoKey
  /\ Valid(r)
  /\ pc' = [pc EXCEPT ![w] = "get"]
  /\ op' = [op EXCEPT ![w] = r]
  /\ at' = [at EXCEPT ![w] = p]
  /\ key' = [key EXCEPT ![w] = identity[p]]
  /\ start' = [start EXCEPT ![w] = rev]
  /\ UNCHANGED <<cluster, pods, cycle, call>>

(* The handler accepts the request and UpdateVault takes the identity. *)
BeginWrite(w, p, r) ==
  /\ pc[w] = "idle"
  /\ proc[p] = "up"
  /\ identity[p] # NoKey
  /\ Valid(r)
  /\ pc' = [pc EXCEPT ![w] = "get"]
  /\ op' = [op EXCEPT ![w] = [path |-> normalizePath(r.path), node |-> r.node]]
  /\ at' = [at EXCEPT ![w] = p]
  /\ key' = [key EXCEPT ![w] = identity[p]]
  /\ start' = [start EXCEPT ![w] = rev]
  /\ UNCHANGED <<cluster, pods, cycle, call>>

(* The vault is locked, the form is not valid or the user may not write. *)
RejectWrite(w) ==
  /\ pc[w] = "idle"
  /\ \E p \in Pods : proc[p] = "up"
  /\ pc' = [pc EXCEPT ![w] = "rejected"]
  /\ UNCHANGED <<cluster, pods, job, cycle, call>>

(***************************************************************************)
(* The modifiers that /update and /delete hand to UpdateVault: whether one *)
(* returns an error, and what it makes of the tree.  They see the stored   *)
(* keys: UpdateVault does not call normalizeKeys.                          *)
(***************************************************************************)
ModifierFails(t, o) ==
  o.node # NoNode /\ checkPathConflict(t, o.path, o.node.isFolder)

Modified(t, o) == [t EXCEPT ![o.path] = o.node]

(* Get failed, and not because the Secret is absent. *)
GetFails(w) ==
  /\ pc[w] = "get"
  /\ pc' = [pc EXCEPT ![w] = "neterr"]
  /\ UNCHANGED <<cluster, pods, job, cycle, call>>

DecryptFails(w) ==
  /\ pc[w] = "get"
  /\ ~Opens(secret, key[w])
  /\ pc' = [pc EXCEPT ![w] = "unreadable"]
  /\ UNCHANGED <<cluster, pods, job, cycle, call>>

RefuseChange(w) ==
  /\ pc[w] = "get"
  /\ Opens(secret, key[w])
  /\ ModifierFails(secret.tree, op[w])
  /\ pc' = [pc EXCEPT ![w] = "clash"]
  /\ UNCHANGED <<cluster, pods, job, cycle, call>>

(* sec.Data["vault.enc"] = ciphertext, where Data is nil. *)
AssignToNilMap(w) ==
  /\ pc[w] = "get"
  /\ secret.state = "nodata"
  /\ ~ModifierFails(secret.tree, op[w])
  /\ pc' = [pc EXCEPT ![w] = "panicked"]
  /\ UNCHANGED <<cluster, pods, job, cycle, call>>

(* What every form of SendWrite does with the Secret s that w works on. *)
Send(w, s) ==
  /\ secret.state # "nodata"
  /\ pc' = [pc EXCEPT ![w] = "call"]
  /\ snap' = [snap EXCEPT ![w] = s]
  /\ seen' = [seen EXCEPT ![w] = rev]
  /\ call' = [call EXCEPT ![w] = "sent"]
  /\ UNCHANGED <<cluster, pods, job, attempt>>

(* Mutant of SendWrite: a retry takes the new version, not the new tree. *)
SendStaleTree(w) ==
  /\ pc[w] = "get"
  /\ Opens(secret, key[w])
  /\ ~ModifierFails(secret.tree, op[w])
  /\ Send(w, IF attempt[w] = 0 THEN secret ELSE [secret EXCEPT !.tree = snap[w].tree])

(* Mutant of SendWrite: the path is checked in the first attempt only. *)
SendUncheckedRetry(w) ==
  /\ pc[w] = "get"
  /\ Opens(secret, key[w])
  /\ attempt[w] = 0 => ~ModifierFails(secret.tree, op[w])
  /\ Send(w, secret)

(* Mutant of SendWrite: the vault is written although it was not readable. *)
SendUnread(w) ==
  /\ pc[w] = "get"
  /\ ~ModifierFails(secret.tree, op[w])
  /\ Send(w, secret)

(* Create when the Secret is absent, else Update with the version read. *)
SendWrite(w) ==
  /\ pc[w] = "get"
  /\ Opens(secret, key[w])
  /\ ~ModifierFails(secret.tree, op[w])
  /\ Send(w, secret)

ReturnOk(w) ==
  /\ pc[w] = "call"
  /\ call[w] = "ok"
  /\ pc' = [pc EXCEPT ![w] = "done"]
  /\ UNCHANGED <<cluster, pods, job, cycle, call>>

(* Mutant of ReturnConflict: the loop ends one attempt early. *)
ReturnConflictEarly(w) ==
  /\ pc[w] = "call"
  /\ call[w] \in {"exists", "conflict"}
  /\ attempt' = [attempt EXCEPT ![w] = @ + 1]
  /\ IF attempt[w] + 2 < MaxRetries
       THEN pc' = [pc EXCEPT ![w] = "get"]
       ELSE pc' = [pc EXCEPT ![w] = "conflict"]
  /\ call' = [call EXCEPT ![w] = "none"]
  /\ UNCHANGED <<cluster, pods, job, snap, seen>>

(* Mutant of ReturnConflict: the same write is sent again, uncounted. *)
ReturnConflictResends(w) ==
  /\ pc[w] = "call"
  /\ call[w] \in {"exists", "conflict"}
  /\ call' = [call EXCEPT ![w] = "sent"]
  /\ UNCHANGED <<cluster, pods, pc, job, cycle>>

(* AlreadyExists from Create and Conflict from Update: read again, unless  *)
(* this was the last attempt.                                              *)
ReturnConflict(w) ==
  /\ pc[w] = "call"
  /\ call[w] \in {"exists", "conflict"}
  /\ attempt' = [attempt EXCEPT ![w] = @ + 1]
  /\ IF attempt[w] + 1 < MaxRetries
       THEN pc' = [pc EXCEPT ![w] = "get"]
       ELSE pc' = [pc EXCEPT ![w] = "conflict"]
  /\ call' = [call EXCEPT ![w] = "none"]
  /\ UNCHANGED <<cluster, pods, job, snap, seen>>

ReturnNotFound(w) ==
  /\ pc[w] = "call"
  /\ call[w] = "notfound"
  /\ pc' = [pc EXCEPT ![w] = "notfound"]
  /\ UNCHANGED <<cluster, pods, job, cycle, call>>

(* Mutant of NetworkError: any error of the call is taken for a conflict. *)
NetworkErrorIsConflict(w) ==
  /\ pc[w] = "call"
  /\ pc' = [pc EXCEPT ![w] = "conflict"]
  /\ UNCHANGED <<cluster, pods, job, cycle, call>>

(* The connection breaks, or the server's context is cancelled: whatever   *)
(* happened or will happen to the write, the caller sees an error.         *)
NetworkError(w) ==
  /\ pc[w] = "call"
  /\ pc' = [pc EXCEPT ![w] = "neterr"]
  /\ UNCHANGED <<cluster, pods, job, cycle, call>>

-----------------------------------------------------------------------------
(***************************************************************************)
(* The API server (external), as vault.go relies on it: Create fails when  *)
(* the name is taken, Update when the Secret is gone or is not at the      *)
(* version that was read, and every change takes a new revision.           *)
(***************************************************************************)
Accepted(w) ==
  IF snap[w].state = "absent"
    THEN secret.state = "absent"
    ELSE secret.state # "absent" /\ secret.rv = snap[w].rv

ApiCommit(w) ==
  /\ call[w] = "sent"
  /\ Accepted(w)
  /\ secret' = Sealed(rev + 1, key[w], Modified(snap[w].tree, op[w]))
  /\ rev' = rev + 1
  /\ born' = IF secret.state = "sealed" THEN born ELSE rev + 1
  /\ call' = [call EXCEPT ![w] = "ok"]
  /\ UNCHANGED <<pods, pc, job, cycle>>

Refusal(w) ==
  IF snap[w].state = "absent" THEN "exists"
  ELSE IF secret.state = "absent" THEN "notfound" ELSE "conflict"

ApiRefuse(w) ==
  /\ call[w] = "sent"
  /\ ~Accepted(w)
  /\ call' = [call EXCEPT ![w] = Refusal(w)]
  /\ UNCHANGED <<cluster, pods, pc, job, cycle>>

(* An operator deletes the Secret; the provider itself has no such right. *)
DeleteSecret ==
  /\ secret.state # "absent"
  /\ secret' = Absent
  /\ rev' = rev + 1
  /\ UNCHANGED <<born, pods, pc, job, cycle, call>>

(* Somebody sets a label or an annotation of the Secret: a new version of  *)
(* the same vault, on which an Update that is under way fails.             *)
TouchSecret ==
  /\ secret.state # "absent"
  /\ rev < MaxTouched
  /\ secret' = [secret EXCEPT !.rv = rev + 1]
  /\ rev' = rev + 1
  /\ UNCHANGED <<born, pods, pc, job, cycle, call>>

-----------------------------------------------------------------------------
Unlocking ==
  \/ \E p \in Pods, k \in Keys \cup {NoKey, Malformed} : NewVaultManager(p, k)
  \/ \E u \in Unlockers, p \in Pods, k \in Keys \cup {Malformed} : UnlockBegin(u, p, k)
  \/ \E u \in UnlockProcs : verifyIdentity(u) \/ UnlockCommit(u)
  \/ \E p \in Pods : Crash(p)

(* One pass of the loop of UpdateVault. *)
Read(w) ==
  GetFails(w) \/ DecryptFails(w) \/ RefuseChange(w) \/ AssignToNilMap(w) \/ SendWrite(w)

Answer(w) ==
  ReturnOk(w) \/ ReturnConflict(w) \/ ReturnNotFound(w) \/ NetworkError(w)

Writing(w) ==
  \/ \E p \in Pods, r \in Requests : BeginWrite(w, p, r)
  \/ RejectWrite(w)
  \/ Read(w)
  \/ Answer(w)

Api(w) == ApiCommit(w) \/ ApiRefuse(w)

Next ==
  \/ Unlocking
  \/ \E w \in Writers : Writing(w) \/ Api(w)
  \/ DeleteSecret
  \/ TouchSecret

Spec == Init /\ [][Next]_vars

(***************************************************************************)
(* The goroutine of a request runs until it returns, and the API server    *)
(* answers.  Nothing makes users send requests, pods crash or boot, or     *)
(* operators act.                                                          *)
(***************************************************************************)
Fairness ==
  \A w \in Writers : WF_vars(Read(w)) /\ WF_vars(Answer(w)) /\ WF_vars(Api(w))

FairSpec == Spec /\ Fairness
-----------------------------------------------------------------------------
(***************************************************************************)
(* Properties.                                                             *)
(***************************************************************************)
(* Every variable has its type: what VaultManager, UpdateVault's locals    *)
(* and the API object can hold.                                            *)
TypeOK ==
  /\ secret \in Secrets
  /\ rev \in Nat /\ born \in Nat
  /\ proc \in [Pods -> {"down", "boot", "up"}]
  /\ identity \in [Pods -> Keys \cup {NoKey}]
  /\ checked \in [Pods -> Nat]
  /\ unlock \in [UnlockProcs -> Unlocks]
  /\ pc \in [Writers -> {"idle"} \cup Active \cup Returned]
  /\ op \in [Writers -> Ops \cup {NoOp}]
  /\ at \in [Writers -> Pods \cup {NoPod}]
  /\ key \in [Writers -> Keys \cup {NoKey}]
  /\ start \in [Writers -> Nat]
  /\ attempt \in [Writers -> 0..MaxRetries]
  /\ snap \in [Writers -> Secrets]
  /\ seen \in [Writers -> Nat]
  /\ call \in [Writers -> {"none", "sent", "ok", "exists", "conflict", "notfound"}]

(* The vault is never encrypted again for another key, even though several *)
(* pods may have been unlocked with different keys before the vault        *)
(* existed: UpdateVault decrypts before it writes, and Create and Update   *)
(* fail when the Secret changed in between.                                *)
KeyNeverChanges ==
  [][secret.state = "sealed" /\ secret'.state = "sealed" => secret'.key = secret.key]_vars

(* A pod whose key does not open the stored vault was unlocked by a check  *)
(* (verifyIdentity) made before that vault was created.  A pod whose check *)
(* came later can serve mounts and writes for as long as the vault lives.  *)
WrongKeyIsOlder ==
  \A p \in Pods :
    identity[p] # NoKey /\ ~Opens(secret, identity[p]) => checked[p] < born

(* The key of a running pod is never replaced: of concurrent unlocks one   *)
(* wins, and only a restart forgets the key.                               *)
IdentityWriteOnce ==
  [][\A p \in Pods : identity[p] # NoKey =>
       identity'[p] = identity[p] \/ proc'[p] = "down"]_vars

(* Concurrent writers never store an entry below a secret, although each   *)
(* of them ran checkPathConflict on a tree that may have changed since.    *)
WellFormedVault == WellFormed(secret.tree)

(* A request that gives up because of conflicts was overtaken by at least  *)
(* MaxRetries changes of the Secret since it began: conflicts are never    *)
(* reported while nobody makes progress, and no attempt is skipped.        *)
ConflictMeansProgress ==
  \A w \in Writers : pc[w] = "conflict" => rev >= start[w] + MaxRetries

(* A request that ended with an error other than a lost answer changed     *)
(* nothing and will not change anything later: no write of it is in flight.*)
DefiniteFailure ==
  \A w \in Writers : pc[w] \in Definite => call[w] \notin {"sent", "ok"}

(* The pods together behave as one store on which the requests take effect *)
(* one after the other, each at most once and each confirmed only if it    *)
(* took effect: no lost update, no duplicate, no false success.            *)
Store == INSTANCE VaultStore WITH
           tree <- secret.tree,
           request <- op,
           applied <- {w \in Writers : call[w] = "ok"},
           confirmed <- {w \in Writers : pc[w] = "done"}
StoreSpec == Store!Spec

(* Unlock's comment: "when a vault already exists in Kubernetes the key    *)
(* must be able to decrypt it".  The check and the assignment of the       *)
(* identity are two steps, and a vault may come into being between them.   *)
UnlockedKeyOpensVault ==
  [][\A p \in Pods : identity[p] = NoKey /\ identity'[p] # NoKey =>
       Opens(secret, identity'[p])]_vars

(* verifyIdentity's comment: "A missing or empty vault Secret is accepted  *)
(* so a fresh installation can bootstrap".  UpdateVault must then be able  *)
(* to write the first vault; it must not stop halfway on any such Secret.  *)
EmptySecretBootstraps == \A w \in Writers : pc[w] # "panicked"

(* UpdateVault returns: the retry loop ends, whatever the others do. *)
EveryWriteReturns == \A w \in Writers : pc[w] \in Active ~> pc[w] \in Returned
=============================================================================
