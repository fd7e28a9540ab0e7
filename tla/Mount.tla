-------------------------------- MODULE Mount ---------------------------------
(***************************************************************************)
(* ProviderServer.Mount of one pod: a workload asks for files, the vault is*)
(* read once, and every requested path is looked up and checked in turn,   *)
(* while users change the vault and Watch replaces the policy.             *)
(***************************************************************************)
EXTENDS Naturals, FiniteSets, Policy

CONSTANTS
  Mounts,      \* the calls of Mount
  Requested,   \* what the "secrets" attribute can list: sequences of items
  Accounts,    \* what callers give: [ns, sa], each split at its slashes
  VaultTrees,  \* what the stored vault can be
  Policies,    \* what PermissionManager can hold
  NoPermMgr,   \* there is no PermissionManager
  NoTree,      \* no tree was loaded
  MaxChanges   \* bound on the changes of the vault and of the policy

(***************************************************************************)
(* An item of the list is [file, path], or Junk: empty or without a "=".   *)
(* The file name is "bad" when it has a slash or begins with a dot.        *)
(***************************************************************************)
CONSTANT Junk

ASSUME RequestAssumption == Requested \subseteq Seq({Junk} \cup [file : STRING, path : Seq(STRING)])
ASSUME AccountAssumption == \A a \in Accounts : a.ns \in Seq(STRING) /\ a.sa \in Seq(STRING)
ASSUME GrantAssumption ==
  \A q \in Policies, k \in Subjects : q.namespaces[k] # NoEntry =>
    \A pattern \in q.namespaces[k] : pattern \in Seq(STRING)

VARIABLES
  stored,      \* the tree in the Secret
  allowUnauthenticated,  \* development mode
  policy,      \* the policy of PermissionManager, or NoPermMgr
  unlocked,    \* ~VaultManager.isLocked
  changes,     \* how often stored or policy changed
  pc,          \* pc[m]: "idle", "load", "loop", "ok" or "error"
  who, items,  \* who[m], items[m]: the caller and what is left of its list
  tree,        \* tree[m]: the tree that m decrypted
  files,       \* files[m]: what m collected, and answers with at the end
  asked,       \* history: the list that m was called with
  trees,       \* history: what the vault was since m was called
  rights       \* history: the policies in force since m was called

env == <<stored, allowUnauthenticated, policy, unlocked, changes>>
vars == <<env, pc, who, items, tree, files, asked, trees, rights>>

Init ==
  /\ stored \in VaultTrees
  /\ allowUnauthenticated \in BOOLEAN
  /\ policy \in Policies \cup {NoPermMgr}
  /\ unlocked = FALSE
  /\ changes = 0
  /\ pc = [m \in Mounts |-> "idle"]
  /\ who = [m \in Mounts |-> [ns |-> <<>>, sa |-> <<>>]]
  /\ items = [m \in Mounts |-> <<>>]
  /\ tree = [m \in Mounts |-> NoTree]
  /\ files = [m \in Mounts |-> <<>>]
  /\ asked = [m \in Mounts |-> <<>>]
  /\ trees = [m \in Mounts |-> {}]
  /\ rights = [m \in Mounts |-> {}]

Running == {"load", "loop"}
Since(h, x) == [m \in Mounts |-> IF pc[m] \in Running THEN h[m] \cup {x} ELSE h[m]]

(* The rest of the system. *)
UnlockVault ==
  /\ ~unlocked
  /\ unlocked' = TRUE
  /\ UNCHANGED <<stored, allowUnauthenticated, policy, changes, pc, who, items, tree, files, asked,
                 trees, rights>>

ChangeVault(t) ==
  /\ changes < MaxChanges
  /\ changes' = changes + 1
  /\ stored' = t
  /\ trees' = Since(trees, t)
  /\ UNCHANGED <<allowUnauthenticated, policy, unlocked, pc, who, items, tree, files, asked,
                 rights>>

ChangePolicy(q) ==
  /\ policy # NoPermMgr
  /\ changes < MaxChanges
  /\ changes' = changes + 1
  /\ policy' = q
  /\ rights' = Since(rights, q)
  /\ UNCHANGED <<stored, allowUnauthenticated, unlocked, pc, who, items, tree, files, asked, trees>>

-----------------------------------------------------------------------------
(* Namespace and service account are there, and neither holds a slash. *)
ValidIdentity(a) == Len(a.ns) = 1 /\ Len(a.sa) = 1

MountBegin(m, a, list) ==
  /\ pc[m] = "idle"
  /\ who' = [who EXCEPT ![m] = a]
  /\ asked' = [asked EXCEPT ![m] = list]
  /\ items' = [items EXCEPT ![m] = list]
  /\ trees' = [trees EXCEPT ![m] = {stored}]
  /\ rights' = [rights EXCEPT ![m] = {policy}]
  /\ pc' = [pc EXCEPT ![m] = IF unlocked /\ ValidIdentity(a) THEN "load" ELSE "error"]
  /\ UNCHANGED <<env, tree, files>>

(* LoadAndDecrypt: one read of the Secret, keys normalized. *)
LoadAndDecrypt(m) ==
  /\ pc[m] = "load"
  /\ \E t \in LoadedTrees(stored) : tree' = [tree EXCEPT ![m] = t]
  /\ pc' = [pc EXCEPT ![m] = "loop"]
  /\ UNCHANGED <<env, who, items, files, asked, trees, rights>>

Fail(m) ==
  /\ pc' = [pc EXCEPT ![m] = "error"]
  /\ files' = [files EXCEPT ![m] = <<>>]
  /\ UNCHANGED <<env, who, items, tree, asked, trees, rights>>

LoadFails(m) == pc[m] = "load" /\ Fail(m)

Item(m) == Head(items[m])
Found(m, p) == p \in DOMAIN tree[m] /\ Present(tree[m], p)

(* An item without a name and a path is passed over. *)
SkipItem(m) ==
  /\ pc[m] = "loop"
  /\ items[m] # <<>>
  /\ Item(m) = Junk
  /\ items' = [items EXCEPT ![m] = Tail(@)]
  /\ UNCHANGED <<env, pc, who, tree, files, asked, trees, rights>>

canAccess(a, p) ==
  IF policy = NoPermMgr THEN allowUnauthenticated ELSE CanAccess(policy, a.ns, a.sa, p)

(* The item's turn: a bad name, a path that is not there or one that the   *)
(* caller may not read fails the whole request.                            *)
Served(m) ==
  LET p == normalizePath(Item(m).path)
  IN  /\ Item(m).file # "bad"
      /\ Found(m, p)
      /\ canAccess(who[m], p)

(* Mutant of ServeItem: the vault is read again for the item. *)
ServeFreshItem(m) ==
  /\ pc[m] = "loop"
  /\ items[m] # <<>>
  /\ Item(m) # Junk
  /\ Served(m)
  /\ LET p == normalizePath(Item(m).path)
     IN  /\ Present(stored, p)
         /\ files' = [files EXCEPT ![m] =
                        Append(@, [file |-> Item(m).file, path |-> p, value |-> stored[p].value])]
  /\ items' = [items EXCEPT ![m] = Tail(@)]
  /\ UNCHANGED <<env, pc, who, tree, asked, trees, rights>>

ServeItem(m) ==
  /\ pc[m] = "loop"
  /\ items[m] # <<>>
  /\ Item(m) # Junk
  /\ Served(m)
  /\ LET p == normalizePath(Item(m).path)
     IN  files' = [files EXCEPT ![m] =
                     Append(@, [file |-> Item(m).file, path |-> p, value |-> tree[m][p].value])]
  /\ items' = [items EXCEPT ![m] = Tail(@)]
  /\ UNCHANGED <<env, pc, who, tree, asked, trees, rights>>

(* Mutant of RefuseItem: the other items are served all the same. *)
SkipRefused(m) ==
  /\ pc[m] = "loop"
  /\ items[m] # <<>>
  /\ Item(m) # Junk
  /\ ~Served(m)
  /\ items' = [items EXCEPT ![m] = Tail(@)]
  /\ UNCHANGED <<env, pc, who, tree, files, asked, trees, rights>>

RefuseItem(m) ==
  /\ pc[m] = "loop"
  /\ items[m] # <<>>
  /\ Item(m) # Junk
  /\ ~Served(m)
  /\ Fail(m)

MountReturns(m) ==
  /\ pc[m] = "loop"
  /\ items[m] = <<>>
  /\ pc' = [pc EXCEPT ![m] = "ok"]
  /\ UNCHANGED <<env, who, items, tree, files, asked, trees, rights>>

-----------------------------------------------------------------------------
Step(m) ==
  \/ LoadAndDecrypt(m) \/ LoadFails(m)
  \/ SkipItem(m) \/ ServeItem(m) \/ RefuseItem(m) \/ MountReturns(m)

Next ==
  \/ UnlockVault
  \/ \E t \in VaultTrees : ChangeVault(t)
  \/ \E q \in Policies : ChangePolicy(q)
  \/ \E m \in Mounts, a \in Accounts, list \in Requested : MountBegin(m, a, list)
  \/ \E m \in Mounts : Step(m)

Spec == Init /\ [][Next]_vars

-----------------------------------------------------------------------------
(***************************************************************************)
(* What the README promises to a workload: the entry of its service        *)
(* account, else that of its namespace, covers the path that the key names.*)
(***************************************************************************)
Grants(q, a, p) ==
  LET entries == {k \in Subjects : q.namespaces[k] # NoEntry}
      mine    == {k \in entries : k = <<a.ns[1], a.sa[1]>>}
      common  == {k \in entries : k = <<a.ns[1]>>}
  IN  /\ Len(a.ns) = 1 /\ Len(a.sa) = 1
      /\ \E k \in IF mine # {} THEN mine ELSE common :
           \E pattern \in q.namespaces[k] : Covers(pattern, p)

Allowed(q, a, p) == IF q = NoPermMgr THEN allowUnauthenticated ELSE Grants(q, a, p)

(* Every file of an answer was granted to the caller, under its true       *)
(* namespace and account, by a policy that was in force during the call: a *)
(* path revoked before the call began is never mounted.  Without a         *)
(* permission manager files are mounted in development mode only.          *)
MountAuthorized ==
  \A m \in Mounts : pc[m] = "ok" =>
    \A f \in ToSet(files[m]) : \E q \in rights[m] : Allowed(q, who[m], f.path)

(* The converse: a call whose tree is loaded fails only for an item that is*)
(* not in it, has a bad name, or is not granted by the policy in force.    *)
(* Nothing that the README promises to a workload is refused to it, in     *)
(* whatever way the path and the pattern are spelled.                      *)
GrantedIsServed ==
  [][\A m \in Mounts : pc[m] = "loop" /\ pc'[m] = "error" =>
       LET p == normalizePath(Item(m).path)
       IN  \/ Item(m).file = "bad"
           \/ ~Found(m, p)
           \/ ~Allowed(policy, who[m], p)]_vars

(* All files of an answer come from one state of the vault, which it was in*)
(* during the call: an update in the middle is seen as a whole or not.     *)
MountSnapshot ==
  \A m \in Mounts : pc[m] = "ok" =>
    \E t \in trees[m] : \A f \in ToSet(files[m]) :
      f.value \in {n.value : n \in normalizeKeys(t, f.path) \ {NoNode}}

(* How many of the first n items name a file: the place of the last one. *)
Place(list, n) == Cardinality({i \in 1..n : list[i] # Junk})

(* An answer holds every file that was asked for, in order, and an error   *)
(* holds none.                                                             *)
MountComplete ==
  \A m \in Mounts :
    /\ pc[m] = "error" => files[m] = <<>>
    /\ pc[m] = "ok" =>
         /\ Len(files[m]) = Place(asked[m], Len(asked[m]))
         /\ \A n \in DOMAIN asked[m] : asked[m][n] # Junk =>
              LET f == files[m][Place(asked[m], n)]
              IN  f.file = asked[m][n].file /\ f.path = normalizePath(asked[m][n].path)
=============================================================================
