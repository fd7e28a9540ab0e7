-------------------------------- MODULE Admin ---------------------------------
(***************************************************************************)
(* The admin UI behind its authentication: the pages of the tree, /unlock, *)
(* /update, /delete and /export.  Every request works with the rights that *)
(* it was given when it was let in, while the policy and the vault change. *)
(*                                                                         *)
(* The vault is the store that VaultStore promises, which Vault is shown to*)
(* implement: a write takes effect at once, some time after it was begun.  *)
(***************************************************************************)
EXTENDS Auth

CONSTANTS
  Paths,       \* the keys that a tree may hold
  NoOp, NoPage

ASSUME PathAssumption ==
  \A d \in Deployments : \A a \in d.asks : a.op.path \in Seq(STRING)
ASSUME TreeAssumption ==
  /\ Paths \subseteq Seq(STRING)
  /\ \A d \in Deployments : \A t \in d.trees : DOMAIN t = Paths

VARIABLES
  stored,      \* the tree in the Secret
  unlocked,    \* ~VaultManager.isLocked
  applied,     \* the requests whose write took effect
  page         \* page[r]: what r shows, and history: the tree it was made from

adminVars == <<stored, unlocked, applied, page>>
vars == <<authVars, adminVars>>

(***************************************************************************)
(* ask[r].op is [kind, path, node]; kind is "view", "entry", "update",     *)
(* "delete", "unlock" or "export".                                         *)
(***************************************************************************)
op(r) == ask[r].op
Target(r) == normalizePath(op(r).path)

Store == INSTANCE VaultStore WITH
           Writers <- Requests,
           Ops <- {[path |-> normalizePath(a.op.path), node |-> a.op.node] :
                     a \in UNION {d.asks : d \in Deployments}},
           tree <- stored,
           request <- [r \in Requests |-> IF ask[r] = NoAsk THEN NoOp
                                          ELSE [path |-> Target(r), node |-> op(r).node]],
           confirmed <- {r \in Requests : pc[r] = "done"}

Init ==
  /\ AuthInit
  /\ stored \in deployment.trees
  /\ unlocked \in BOOLEAN
  /\ applied = {}
  /\ page = [r \in Requests |-> NoPage]

(* Requests to other pods change the vault. *)
ChangeVault(t) ==
  /\ changes < MaxChanges
  /\ t # stored
  /\ changes' = changes + 1
  /\ stored' = t
  /\ UNCHANGED <<deployment, clock, revokedAt, policy, cache, pc, ask, lookup, rights, login,
                 granted, unlocked, applied, page>>

-----------------------------------------------------------------------------
(* What a handler asks of its rights; nil allows everything. *)
mayRead(up, p) == up # NoRights => CanRead(up, p)
mayWrite(up, p) == up # NoRights => CanWrite(up, p)
isAdmin(up) == up # NoRights => up.isAdmin
mayExport(up) == up # NoRights => CanExport(up)

(***************************************************************************)
(* What a page shows of tree: the secret of the entry view, or the folder  *)
(* that current is, and what lies directly below it: secrets, and the next *)
(* step towards everything that lies deeper.  Breadcrumbs and names repeat *)
(* the paths.                                                              *)
(***************************************************************************)
Page(entry, folder, folders, entries, tree) ==
  [entry |-> entry, folder |-> folder, folders |-> folders, entries |-> entries, from |-> tree]

(* Mutant of buildTreeState: a folder counts before its content is checked.*)
buildOpenTreeState(tree, current, entry, up) ==
  LET cur == normalizePath(current)
      below == {p \in DOMAIN tree : Present(tree, p) /\ Under(p, cur)}
      leaves == {p \in below : Leaf(tree, p) /\ Len(p) = Len(cur) + 1}
  IN  Page({}, {}, {SubSeq(p, 1, Len(cur) + 1) : p \in below \ leaves},
           {p \in leaves : mayRead(up, p)}, tree)

(* Mutant of buildTreeState: a folder that is not granted itself is hidden.*)
buildNarrowTreeState(tree, current, entry, up) ==
  LET cur == normalizePath(current)
      below == {p \in DOMAIN tree : Present(tree, p) /\ Under(p, cur) /\ mayRead(up, p)}
      leaves == {p \in below : Leaf(tree, p) /\ Len(p) = Len(cur) + 1}
      folders == {SubSeq(p, 1, Len(cur) + 1) : p \in below \ leaves}
  IN  Page({}, {}, {f \in folders : mayRead(up, f)}, leaves, tree)

buildTreeState(tree, current, entry, up) ==
  LET cur == normalizePath(current)
      ent == normalizePath(entry)
      present == {p \in DOMAIN tree : Present(tree, p) /\ mayRead(up, p)}
      Next1(p) == p[Len(cur) + 1]
      IsLast(p) == Len(p) = Len(cur) + 1
      below == {p \in present : Under(p, cur) /\ ~(IsLast(p) /\ Next1(p) = "")}
      leaves == {p \in below : IsLast(p) /\ Leaf(tree, p)}
      Folder(p) == IF cur # Root THEN Clean(Append(cur, Next1(p)))
                   ELSE IF Next1(p) = "" THEN Root ELSE Append(Root, Next1(p))
  IN  IF ent # Root
        THEN Page({p \in present : p = ent /\ Leaf(tree, p)}, {}, {}, {}, tree)
        ELSE Page({}, {p \in present : p = cur /\ tree[p].isFolder},
                  {Folder(p) : p \in below \ leaves}, leaves, tree)

-----------------------------------------------------------------------------
(* The handler is done with r, or refuses it, without a change of the vault.*)
Finish(r, how) ==
  /\ pc' = [pc EXCEPT ![r] = how]
  /\ UNCHANGED <<world, cache, ask, lookup, rights, login, granted, stored, applied>>

(* A page of the locked vault, or when it cannot be loaded, shows nothing. *)
ShowNothing(r) ==
  /\ pc[r] = "ready"
  /\ op(r).kind \in {"view", "entry"}
  /\ Finish(r, "failed")
  /\ UNCHANGED <<unlocked, page>>

View(r) ==
  /\ pc[r] = "ready"
  /\ op(r).kind = "view"
  /\ unlocked
  /\ \E t \in LoadedTrees(stored) :
       page' = [page EXCEPT ![r] = buildTreeState(t, op(r).path, <<>>, rights[r])]
  /\ Finish(r, "done")
  /\ UNCHANGED unlocked

Entry(r) ==
  /\ pc[r] = "ready"
  /\ op(r).kind = "entry"
  /\ unlocked
  /\ mayRead(rights[r], op(r).path)
  /\ \E t \in LoadedTrees(stored) :
       page' = [page EXCEPT ![r] = buildTreeState(t, <<>>, op(r).path, rights[r])]
  /\ Finish(r, "done")
  /\ UNCHANGED unlocked

-----------------------------------------------------------------------------
(* /unlock is for admins; Unlock itself is the subject of Vault. *)
Unlock(r) ==
  /\ pc[r] = "ready"
  /\ op(r).kind = "unlock"
  /\ isAdmin(rights[r])
  /\ \/ ~unlocked /\ unlocked' = TRUE /\ Finish(r, "done")
     \/ UNCHANGED unlocked /\ Finish(r, "failed")    \* already unlocked, or a wrong key
  /\ UNCHANGED page

(* The Secret is read and sent as it is. *)
Export(r) ==
  /\ pc[r] = "ready"
  /\ op(r).kind = "export"
  /\ unlocked
  /\ mayExport(rights[r])
  /\ \E how \in {"done", "failed"} : Finish(r, how)
  /\ UNCHANGED <<unlocked, page>>

(* /update accepts canonical paths and does not store an empty secret. *)
Acceptable(r) ==
  op(r).kind = "update" =>
    /\ validateVaultPath(Target(r))
    /\ op(r).node.isFolder \/ op(r).node.value # ""

(* Mutant of Write: only an update asks for the right to write. *)
WriteUnasked(r) ==
  /\ pc[r] = "ready"
  /\ op(r).kind \in {"update", "delete"}
  /\ unlocked
  /\ Acceptable(r)
  /\ op(r).kind = "update" => mayWrite(rights[r], Target(r))
  /\ Finish(r, "writing")
  /\ UNCHANGED <<unlocked, page>>

(* /update and /delete go into UpdateVault. *)
Write(r) ==
  /\ pc[r] = "ready"
  /\ op(r).kind \in {"update", "delete"}
  /\ unlocked
  /\ Acceptable(r)
  /\ mayWrite(rights[r], Target(r))
  /\ Finish(r, "writing")
  /\ UNCHANGED <<unlocked, page>>

(* The write takes effect; this can be after the handler has lost track. *)
ApplyWrite(r) ==
  /\ pc[r] \in {"writing", "lost"}
  /\ UNCHANGED <<authVars, unlocked, page>>
  /\ Store!Apply(r)

ConfirmWrite(r) ==
  /\ pc[r] = "writing"
  /\ r \in applied
  /\ Finish(r, "done")
  /\ UNCHANGED <<unlocked, page>>

(* The path clashes, the retries are used up, or the call failed for sure. *)
FailWrite(r) ==
  /\ pc[r] = "writing"
  /\ r \notin applied
  /\ Finish(r, "failed")
  /\ UNCHANGED <<unlocked, page>>

LoseAnswer(r) ==
  /\ pc[r] = "writing"
  /\ Finish(r, "lost")
  /\ UNCHANGED <<unlocked, page>>

(* Locked, not valid, or forbidden. *)
Refuse(r) ==
  /\ pc[r] = "ready"
  /\ LET kind == op(r).kind
     IN  \/ kind = "entry" /\ unlocked /\ ~mayRead(rights[r], op(r).path)
         \/ kind = "unlock" /\ ~isAdmin(rights[r])
         \/ kind = "export" /\ (~unlocked \/ ~mayExport(rights[r]))
         \/ /\ kind \in {"update", "delete"}
            /\ ~unlocked \/ ~Acceptable(r) \/ ~mayWrite(rights[r], Target(r))
  /\ Finish(r, "denied")
  /\ UNCHANGED <<unlocked, page>>

Handle(r) ==
  \/ ShowNothing(r) \/ View(r) \/ Entry(r) \/ Unlock(r) \/ Export(r)
  \/ Write(r) \/ ApplyWrite(r) \/ ConfirmWrite(r) \/ FailWrite(r) \/ LoseAnswer(r)
  \/ Refuse(r)

Next ==
  \/ AuthNext /\ UNCHANGED adminVars
  \/ \E t \in deployment.trees : ChangeVault(t)
  \/ \E r \in Requests : Handle(r)

Spec == Init /\ [][Next]_vars

-----------------------------------------------------------------------------
(***************************************************************************)
(* Properties.  The rights of r under a policy, as the README states them. *)
(***************************************************************************)
Grants(q, u, p) ==
  \/ u \in q.admins
  \/ /\ u \in Users /\ q.users[u] # NoEntry
     /\ \E pattern \in q.users[u] : Covers(pattern, p)

(* The proxy made r an admin; this counts only where it named the user. *)
ProxyAdmin(r) ==
  /\ login[r].via = "header"
  /\ cfg.adminHeader
  /\ ask[r].admin # "" /\ ask[r].admin = cfg.adminValue

Entitled(r, Allowed(_)) ==
  IF cfg.permFile THEN ProxyAdmin(r) \/ \E q \in granted[r] : Allowed(q) ELSE cfg.dev

(* Whatever the moment at which r was let in, the policy allowed it. *)
Promised(r, Allowed(_)) ==
  cfg.permFile => ProxyAdmin(r) \/ \A q \in granted[r] : Allowed(q)

(* Every change of the vault was granted to its user by a policy that was  *)
(* in force after the request had arrived: what was revoked before is never*)
(* written, however long logging in and UpdateVault take, and no spelling  *)
(* of a path reaches outside of what its user was given.                   *)
WriteAuthorized ==
  \A r \in applied :
    LET Allowed(q) == Grants(q, rights[r].user, Target(r)) IN Entitled(r, Allowed)

(* The key p is below f: f is how p begins, as it is spelled or cleaned. *)
LiesIn(p, f) == \E i \in 1..Len(p) : f \in {SubSeq(p, 1, i), Clean(SubSeq(p, 1, i))}

(* One policy that was in force during the request grants everything that a*)
(* page shows: secrets, the folder itself, and for every folder something  *)
(* below it.  No page mixes two policies or tells of branches that hold    *)
(* nothing for its user.                                                   *)
ViewAuthorized ==
  \A r \in Requests : page[r] # NoPage =>
    LET g == page[r]
        Allowed(q) ==
          /\ \A p \in g.entry \cup g.folder \cup g.entries : Grants(q, rights[r].user, p)
          /\ \A f \in g.folders : \E p \in DOMAIN g.from :
               /\ Present(g.from, p)
               /\ Grants(q, rights[r].user, p)
               /\ LiesIn(p, f)
    IN  Entitled(r, Allowed)

(* Whoever may read a secret finds it: from the root, the pages lead folder*)
(* by folder to every secret with a canonical path that all policies since *)
(* the request arrived grant to the user, also below folders that they do  *)
(* not grant.                                                              *)
ViewNavigable ==
  \A r \in Requests : pc[r] = "ready" =>
    LET At(t, c) == buildTreeState(t, c, <<>>, rights[r])
    IN  \A t \in LoadedTrees(stored) : \A p \in DOMAIN t :
          LET Allowed(q) == Grants(q, rights[r].user, p)
          IN  Leaf(t, p) /\ validateVaultPath(p) /\ Promised(r, Allowed) =>
                /\ p \in At(t, Front(p)).entries
                /\ \A i \in 2..(Len(p) - 1) :
                     SubSeq(p, 1, i) \in At(t, SubSeq(p, 1, i - 1)).folders

(* Nobody is refused what he was granted all the time: a request that was  *)
(* let in is denied only because the vault is locked, the path or the value*)
(* is not valid, or some policy since its arrival does not grant it.       *)
GrantedIsNotRefused ==
  [][\A r \in Requests : pc[r] = "ready" /\ pc'[r] = "denied" =>
       LET Reaches(q) == Grants(q, rights[r].user, Target(r))
           Rules(q) == rights[r].user \in q.admins
       IN  \/ ~unlocked /\ op(r).kind # "unlock"
           \/ ~Acceptable(r)
           \/ IF op(r).kind \in {"unlock", "export"} THEN ~Promised(r, Rules)
              ELSE ~Promised(r, Reaches)]_vars

(* The vault is unlocked and exported for admins only: those of a policy in*)
(* force since the request arrived, and those that the trusted proxy marks.*)
(* A mark that comes along with a bearer token does not count.             *)
AdminOnly ==
  \A r \in Requests :
    pc[r] = "done" /\ op(r).kind \in {"unlock", "export"} =>
      LET Allowed(q) == rights[r].user \in q.admins IN Entitled(r, Allowed)
=============================================================================
