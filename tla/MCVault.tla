------------------------------- MODULE MCVault -------------------------------
(***************************************************************************)
(* Small instances of Vault for TLC.                                       *)
(***************************************************************************)
EXTENDS Vault, TLC

CONSTANTS k1   \* a key, for the instances that start with a sealed vault

A == <<"/", "a">>
AB == <<"/", "a", "b">>

Leaf1 == [value |-> "1", isFolder |-> FALSE]
Leaf2 == [value |-> "2", isFolder |-> FALSE]
Dir == [value |-> "", isFolder |-> TRUE]
Blank == [value |-> "", isFolder |-> FALSE]

MCPaths == {A, AB, <<"/", "a", "">>}
MCValues == {"", "1", "2"}

Put(p, n) == [path |-> p, node |-> n]
Del(p) == [path |-> p, node |-> NoNode]

(* A secret from a relative path, an entry below it, a folder in its place,*)
(* its deletion, and two forms that /update does not accept.               *)
RaceRequests == {Put(<<"a">>, Leaf1), Put(AB, Leaf2), Put(A, Dir), Del(A),
                 Put(<<"/", "a", "">>, Leaf1), Put(AB, Blank)}
OneRequest == {Put(AB, Leaf2)}

PodSymmetry == Permutations(Pods) \cup Permutations(Writers) \cup Permutations(Unlockers)
KeySymmetry == PodSymmetry \cup Permutations(Keys)

Stored(k, t) == Sealed(1, k, t @@ EmptyTree)
NoVault == [Absent EXCEPT !.state = "novault", !.rv = 1]
NoData == [Absent EXCEPT !.state = "nodata", !.rv = 1]

EmptySecrets == {Absent, NoVault}
FreshSecrets == {Absent, NoVault, NoData}
SealedSecrets == {Stored(k1, A :> Dir @@ AB :> Leaf1)}
AbsentSecret == {Absent}
NilSecrets == {NoData}
=============================================================================
