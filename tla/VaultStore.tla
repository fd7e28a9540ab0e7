----------------------------- MODULE VaultStore ------------------------------
(***************************************************************************)
(* What the vault promises to the users of the admin UI, whatever the      *)
(* number of provider pods: one tree, to which every accepted request is   *)
(* applied atomically and at most once, a request being confirmed only     *)
(* after it was applied.  An operator may delete the whole vault Secret.   *)
(***************************************************************************)
EXTENDS VaultPath

CONSTANTS
  Paths,      \* the keys that a tree can hold
  Writers,    \* the write requests
  Ops,        \* what a request can ask for: [path, node]
  NoOp        \* what a request that was not submitted asks for

VARIABLES
  tree,       \* [Paths -> nodes], NoNode where there is no entry
  request,    \* request[w]: what w asks for
  applied,    \* the requests that took effect
  confirmed   \* the requests whose user was told that they took effect

vars == <<tree, request, applied, confirmed>>

EmptyTree == [p \in Paths |-> NoNode]

(***************************************************************************)
(* A request stores node at path, or deletes the entry when node is        *)
(* NoNode.  A store that would put an entry below a secret, a secret above *)
(* an entry, or change a folder into a secret or back is refused.          *)
(***************************************************************************)
Accepts(t, o) ==
  o.node # NoNode => ~checkPathConflict(t, o.path, o.node.isFolder)

Result(t, o) == [t EXCEPT ![o.path] = o.node]

Init ==
  /\ DOMAIN tree = Paths
  /\ WellFormed(tree)
  /\ request = [w \in Writers |-> NoOp]
  /\ applied = {}
  /\ confirmed = {}

Submit(w) ==
  /\ request[w] = NoOp
  /\ \E o \in Ops : request' = [request EXCEPT ![w] = o]
  /\ UNCHANGED <<tree, applied, confirmed>>

Apply(w) ==
  /\ request[w] # NoOp
  /\ w \notin applied
  /\ Accepts(tree, request[w])
  /\ tree' = Result(tree, request[w])
  /\ applied' = applied \cup {w}
  /\ UNCHANGED <<request, confirmed>>

Confirm(w) ==
  /\ w \in applied
  /\ confirmed' = confirmed \cup {w}
  /\ UNCHANGED <<tree, request, applied>>

Wipe ==
  /\ tree' = EmptyTree
  /\ UNCHANGED <<request, applied, confirmed>>

Next ==
  \/ \E w \in Writers : Submit(w) \/ Apply(w) \/ Confirm(w)
  \/ Wipe

Spec == Init /\ [][Next]_vars
=============================================================================
