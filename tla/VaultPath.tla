------------------------------ MODULE VaultPath ------------------------------
(***************************************************************************)
(* The path algebra of the vault: the keys of VaultTree.Nodes, how the UI  *)
(* brings a key to its normal form, which keys it accepts, and which keys  *)
(* may live side by side.                                                  *)
(*                                                                         *)
(* A key is the sequence of what its slashes separate.  A key that begins  *)
(* with a slash begins with the marker "/": "/db/pass" is                  *)
(* <<"/", "db", "pass">>, "/" is Root, "db/pass" is <<"db", "pass">>, "" is*)
(* <<>> and "/db/" is <<"/", "db", "">>.  With this reading                *)
(* strings.HasPrefix(q, p + "/"), and HasPrefix(q, "/") when p is "/", says*)
(* that p is a strict prefix of q.                                         *)
(***************************************************************************)
EXTENDS Sequences, SequencesExt

CONSTANT NoNode    \* what a tree holds at a key that has no entry

Root == <<"/">>

IsAbsolute(p) == p # <<>> /\ Head(p) = "/"

normalizePath(p) == IF IsAbsolute(p) THEN p ELSE Root \o p    \* Root of <<>>, too

(***************************************************************************)
(* path.Clean of an absolute path: empty and "." segments go away, ".."    *)
(* takes the segment before it, and nothing climbs above the root.         *)
(***************************************************************************)
CleanStep(done, seg) ==
  CASE seg \in {"", "."} -> done
    [] seg = ".." -> IF done = Root THEN Root ELSE Front(done)
    [] OTHER -> Append(done, seg)

Clean(p) == FoldLeft(CleanStep, Root, Tail(p))

(***************************************************************************)
(* p is already normalized.  Control characters are data the model does    *)
(* not tell apart.                                                         *)
(***************************************************************************)
validateVaultPath(p) == p # Root /\ Clean(p) = p

(* q lies below p: strings.HasPrefix(q, p + "/"). *)
Under(q, p) == IsStrictPrefix(p, q)

Present(tree, p) == tree[p] # NoNode
Leaf(tree, p) == Present(tree, p) /\ ~tree[p].isFolder

(***************************************************************************)
(* The three reasons for which a node may not be stored at newPath.        *)
(***************************************************************************)
OtherType(tree, newPath, isFolder) ==
  /\ newPath \in DOMAIN tree
  /\ Present(tree, newPath)
  /\ tree[newPath].isFolder # isFolder

LeafOverChildren(tree, newPath, isFolder) ==
  /\ ~isFolder
  /\ \E q \in DOMAIN tree : Present(tree, q) /\ Under(q, newPath)

BelowLeaf(tree, newPath) ==
  \E q \in DOMAIN tree : q # newPath /\ Leaf(tree, q) /\ Under(newPath, q)

checkPathConflict(tree, newPath, isFolder) ==
  \/ OtherType(tree, newPath, isFolder)
  \/ LeafOverChildren(tree, newPath, isFolder)
  \/ BelowLeaf(tree, newPath)

(***************************************************************************)
(* No secret has anything stored below it.                                 *)
(***************************************************************************)
WellFormed(tree) ==
  \A p, q \in DOMAIN tree :
    Leaf(tree, p) /\ Present(tree, q) => ~Under(q, p)

(***************************************************************************)
(* normalizeKeys walks the stored keys in Go's random map order.  Under    *)
(* each normalized key the first folder it meets stays; without a folder   *)
(* the last entry stays.  Hence the nodes that a reader may find at p.     *)
(***************************************************************************)
normalizeKeys(tree, p) ==
  LET nodes   == {tree[k] : k \in {k \in DOMAIN tree :
                                     Present(tree, k) /\ normalizePath(k) = p}}
      folders == {n \in nodes : n.isFolder}
  IN  IF folders # {} THEN folders ELSE IF nodes # {} THEN nodes ELSE {NoNode}

(* The trees that LoadAndDecrypt may return of a stored one. *)
LoadedTrees(tree) ==
  {t \in [DOMAIN tree -> UNION {normalizeKeys(tree, p) : p \in DOMAIN tree}] :
     \A p \in DOMAIN tree : t[p] \in normalizeKeys(tree, p)}
=============================================================================
