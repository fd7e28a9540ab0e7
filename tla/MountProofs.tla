----------------------------- MODULE MountProofs ------------------------------
(***************************************************************************)
(* Every mount, of any number and for any list, answers with what its      *)
(* caller was granted, from one state of the vault, and with every file.   *)
(***************************************************************************)
EXTENDS Mount, PolicyProofs, FiniteSetTheorems

Items == {Junk} \cup [file : STRING, path : Seq(STRING)]
Loaded == UNION {LoadedTrees(s) : s \in VaultTrees}
Values == UNION {{t[p].value : p \in {p \in DOMAIN t : Present(t, p)}} : t \in Loaded}
Answers == [file : STRING, path : Keys, value : Values]

Types ==
  /\ stored \in VaultTrees
  /\ policy \in Policies \cup {NoPermMgr}
  /\ pc \in [Mounts -> {"idle", "load", "loop", "ok", "error"}]
  /\ who \in [Mounts -> Accounts \cup {[ns |-> <<>>, sa |-> <<>>]}]
  /\ items \in [Mounts -> Seq(Items)]
  /\ asked \in [Mounts -> Seq(Items)]
  /\ tree \in [Mounts -> Loaded \cup {NoTree}]
  /\ files \in [Mounts -> Seq(Answers)]
  /\ trees \in [Mounts -> SUBSET VaultTrees]
  /\ rights \in [Mounts -> SUBSET (Policies \cup {NoPermMgr})]

(* What a call that runs knows of its world. *)
Current(m) ==
  /\ pc[m] \notin {"loop", "ok"} => files[m] = <<>>
  /\ pc[m] \in Running =>
       /\ stored \in trees[m] /\ policy \in rights[m]
       /\ who[m] \in Accounts /\ ValidIdentity(who[m])

(* The tree that was loaded is of a state that the vault was in, and the   *)
(* files are from it.                                                      *)
FromTree(m) ==
  pc[m] \in {"loop", "ok"} =>
    /\ tree[m] \in Loaded
    /\ \E t \in trees[m] : tree[m] \in LoadedTrees(t)
    /\ \A n \in DOMAIN files[m] : /\ Found(m, files[m][n].path)
                                  /\ files[m][n].value = tree[m][files[m][n].path].value

Granted(m) ==
  \A n \in DOMAIN files[m] : \E q \in rights[m] : Allowed(q, who[m], files[m][n].path)

(* items is what is left of asked, and the files are those of the rest. *)
Passed(m) == Len(asked[m]) - Len(items[m])

Collected(m) ==
  pc[m] \in Running \cup {"ok"} =>
    /\ Passed(m) \in Nat
    /\ \A k \in DOMAIN items[m] : items[m][k] = asked[m][Passed(m) + k]
    /\ Len(files[m]) = Place(asked[m], Passed(m))
    /\ \A n \in 1..Passed(m) : asked[m][n] # Junk =>
         LET f == files[m][Place(asked[m], n)]
         IN  f.file = asked[m][n].file /\ f.path = normalizePath(asked[m][n].path)
    /\ pc[m] = "load" => items[m] = asked[m]
    /\ pc[m] = "ok" => items[m] = <<>>

CallInv(m) == Current(m) /\ FromTree(m) /\ Granted(m) /\ Collected(m)

Inv == Types /\ \A m \in Mounts : CallInv(m)

-----------------------------------------------------------------------------
(* The invariant holds before the first call. *)
LEMMA InitInv == Init => Inv
  BY EmptySeq DEF Init, Inv, Types, CallInv, Current, FromTree, Granted, Collected, Running

-----------------------------------------------------------------------------
(* A name without slashes is one segment. *)
LEMMA OneSegment ==
  ASSUME NEW s \in Seq(STRING), NEW x, x = s[1], Len(s) = 1
  PROVE  s = <<x>>
  <1>1. x \in STRING
    BY ElementOfSeq
  <1>2. <<x>> \in Seq(STRING) /\ Len(<<x>>) = 1 /\ <<x>>[1] = x
    BY <1>1
  <1> QED
    BY <1>2, SeqEqual

(* The key of a service account is its namespace and its name. *)
LEMMA TwoSegments ==
  ASSUME NEW s \in Seq(STRING), NEW t \in Seq(STRING), NEW x, NEW y,
         x = s[1], y = t[1], Len(s) = 1, Len(t) = 1
  PROVE  s \o t = <<x, y>>
  <1>1. x \in STRING /\ y \in STRING
    BY ElementOfSeq
  <1>2. <<x, y>> \in Seq(STRING) /\ Len(<<x, y>>) = 2 /\ <<x, y>>[1] = x /\ <<x, y>>[2] = y
    BY <1>1
  <1>3. s \o t \in Seq(STRING) /\ Len(s \o t) = 2 /\ (s \o t)[1] = x /\ (s \o t)[2] = y
    BY ConcatProperties
  <1>4. \A i \in 1..2 : (s \o t)[i] = <<x, y>>[i]
    BY <1>2, <1>3
  <1> QED
    BY <1>2, <1>3, <1>4, SeqEqual

(* CanAccess takes the entry that the README names, and no other. *)
LEMMA AccessIsGranted ==
  ASSUME NEW q \in Policies, NEW a \in Accounts, NEW p \in Keys, normalizePath(p) = p,
         ValidIdentity(a)
  PROVE  CanAccess(q, a.ns, a.sa, p) <=> Grants(q, a, p)
  <1> DEFINE x == a.ns[1]
             y == a.sa[1]
  <1>1. a.ns = <<x>> /\ a.ns \o a.sa = <<x, y>>
    <2>1. /\ a.ns \in Seq(STRING) /\ a.sa \in Seq(STRING)
          /\ Len(a.ns) = 1 /\ Len(a.sa) = 1
      BY AccountAssumption DEF ValidIdentity
    <2>2. a.ns = <<x>>
      BY <2>1, OneSegment
    <2>3. \A s, t \in Seq(STRING) : Len(s) = 1 /\ Len(t) = 1 => s \o t = <<s[1], t[1]>>
      BY TwoSegments
    <2>4. a.ns \o a.sa = <<x, y>>
      BY <2>1, <2>3, Zenon
    <2> QED
      BY <2>2, <2>4
  <1> DEFINE Covered(k) == \E pattern \in q.namespaces[k] : Covers(pattern, p)
  <1>2. ASSUME NEW k, Has(q, k) PROVE Allows(q, k, p) <=> Covered(k)
    <2>1. \A pattern \in q.namespaces[k] : pattern \in Keys
      BY <1>2, GrantAssumption, StringsAreKeys DEF Has
    <2> QED
      BY <2>1, MatchIsCovers DEF Allows
  <1>3. CanAccess(q, a.ns, a.sa, p) <=>
          IF Has(q, <<x, y>>) THEN Covered(<<x, y>>) ELSE Has(q, <<x>>) /\ Covered(<<x>>)
    BY <1>1, <1>2 DEF CanAccess
  <1> HIDE DEF Covered
  <1>4. Grants(q, a, p) <=>
          IF Has(q, <<x, y>>) THEN Covered(<<x, y>>) ELSE Has(q, <<x>>) /\ Covered(<<x>>)
    BY DEF Grants, Has, ValidIdentity, Covered
  <1> QED
    BY <1>3, <1>4

(* Counting: an item more is a file more, unless it is junk. *)
LEMMA PlaceStep ==
  ASSUME NEW list, NEW n \in Nat
  PROVE  /\ Place(list, n) \in Nat
         /\ Place(list, n + 1) = IF list[n + 1] = Junk THEN Place(list, n) ELSE Place(list, n) + 1
         /\ Place(list, 0) = 0
  <1> DEFINE S(k) == {i \in 1..k : list[i] # Junk}
  <1>1. IsFiniteSet(S(n)) /\ Cardinality(S(n)) \in Nat
    <2>1. IsFiniteSet(1..n) /\ S(n) \in SUBSET (1..n)
      BY FS_Interval
    <2>2. IsFiniteSet(S(n))
      BY <2>1, FS_Subset
    <2> QED
      BY <2>2, FS_CardinalityType
  <1>2. n + 1 \notin S(n) /\ S(0) = {}
    OBVIOUS
  <1>3. S(n + 1) = IF list[n + 1] = Junk THEN S(n) ELSE S(n) \cup {n + 1}
    OBVIOUS
  <1>4. Cardinality(S(n + 1)) =
          IF list[n + 1] = Junk THEN Cardinality(S(n)) ELSE Cardinality(S(n)) + 1
    BY <1>1, <1>2, <1>3, FS_AddElement
  <1> QED
    BY <1>1, <1>2, <1>4, FS_EmptySet DEF Place

(* A file's place is among those of the items up to it. *)
LEMMA PlaceBetween ==
  ASSUME NEW list, NEW k \in Nat, NEW n \in 1..k, list[n] # Junk
  PROVE  Place(list, n) \in 1..Place(list, k)
  <1> DEFINE S(j) == {i \in 1..j : list[i] # Junk}
  <1>1. IsFiniteSet(S(k))
    <2>1. IsFiniteSet(1..k) /\ S(k) \in SUBSET (1..k)
      BY FS_Interval
    <2> QED
      BY <2>1, FS_Subset
  <1>2. S(n) \in SUBSET S(k) /\ n \in S(n)
    OBVIOUS
  <1>3. IsFiniteSet(S(n)) /\ Cardinality(S(n)) <= Cardinality(S(k))
    BY <1>1, <1>2, FS_Subset
  <1>4. Cardinality(S(n)) \in Nat /\ Cardinality(S(k)) \in Nat /\ Cardinality(S(n)) # 0
    BY <1>1, <1>2, <1>3, FS_CardinalityType, FS_EmptySet
  <1> QED
    BY <1>3, <1>4 DEF Place

-----------------------------------------------------------------------------
(* What other calls and the rest of the system do, a call only notices in  *)
(* its histories.                                                          *)
Untouched(x) ==
  /\ UNCHANGED allowUnauthenticated
  /\ pc'[x] = pc[x] /\ who'[x] = who[x] /\ items'[x] = items[x] /\ tree'[x] = tree[x]
  /\ files'[x] = files[x] /\ asked'[x] = asked[x]
  /\ trees[x] \subseteq trees'[x] /\ rights[x] \subseteq rights'[x]
  /\ pc[x] \in Running => (stored \in trees[x] => stored' \in trees'[x])
                       /\ (policy \in rights[x] => policy' \in rights'[x])

(* What holds of such a call goes on to hold. *)
LEMMA UntouchedInv ==
  ASSUME NEW x \in Mounts, CallInv(x), Untouched(x)
  PROVE  CallInv(x)'
  <1>1. Current(x)'
    BY DEF CallInv, Untouched, Current, ValidIdentity
  <1>2. FromTree(x)'
    BY DEF CallInv, Untouched, FromTree, Found, Present
  <1>3. Granted(x)'
    BY DEF CallInv, Untouched, Granted, Allowed, Grants
  <1>4. Collected(x)'
    BY DEF CallInv, Untouched, Collected, Passed, Place
  <1> QED
    BY <1>1, <1>2, <1>3, <1>4 DEF CallInv

(* The rest of the system. *)
LEMMA WorldInv ==
  ASSUME Inv,
         \/ UnlockVault \/ \E t \in VaultTrees : ChangeVault(t)
         \/ \E q \in Policies : ChangePolicy(q)
  PROVE  Inv'
  <1>1. Types
    BY DEF Inv
  <1>2. Types'
    <2>1. CASE UnlockVault
      BY <1>1, <2>1 DEF Types, UnlockVault
    <2>2. ASSUME NEW t \in VaultTrees, ChangeVault(t) PROVE Types'
      <3>1. trees' \in [Mounts -> SUBSET VaultTrees]
        BY <1>1, <2>2 DEF Types, ChangeVault, Since
      <3> QED
        BY <1>1, <2>2, <3>1 DEF Types, ChangeVault
    <2>3. ASSUME NEW q \in Policies, ChangePolicy(q) PROVE Types'
      <3>1. rights' \in [Mounts -> SUBSET (Policies \cup {NoPermMgr})]
        BY <1>1, <2>3 DEF Types, ChangePolicy, Since
      <3> QED
        BY <1>1, <2>3, <3>1 DEF Types, ChangePolicy
    <2> QED
      BY <2>1, <2>2, <2>3
  <1>3. ASSUME NEW x \in Mounts PROVE Untouched(x)
    BY <1>1 DEF Untouched, Types, UnlockVault, ChangeVault, ChangePolicy, Since
  <1>4. \A x \in Mounts : CallInv(x)'
    BY <1>3, UntouchedInv DEF Inv
  <1> QED
    BY <1>2, <1>4 DEF Inv

(* A call begins: nothing is collected yet. *)
LEMMA BeginInv ==
  ASSUME Inv, NEW m \in Mounts, NEW a \in Accounts, NEW list \in Requested, MountBegin(m, a, list)
  PROVE  Inv'
  <1>1. Types /\ CallInv(m) /\ list \in Seq(Items)
    BY RequestAssumption DEF Inv, Items
  <1>2. Types'
    <2>1. /\ trees' \in [Mounts -> SUBSET VaultTrees]
          /\ rights' \in [Mounts -> SUBSET (Policies \cup {NoPermMgr})]
          /\ who' \in [Mounts -> Accounts \cup {[ns |-> <<>>, sa |-> <<>>]}]
      BY <1>1 DEF Types, MountBegin
    <2>2. /\ items' \in [Mounts -> Seq(Items)]
          /\ asked' \in [Mounts -> Seq(Items)]
          /\ pc' \in [Mounts -> {"idle", "load", "loop", "ok", "error"}]
      BY <1>1 DEF Types, MountBegin
    <2> QED
      BY <1>1, <2>1, <2>2 DEF Types, MountBegin, env
  <1>3. ASSUME NEW x \in Mounts \ {m} PROVE Untouched(x)
    BY <1>1 DEF Untouched, Types, MountBegin, env
  <1>4. /\ asked'[m] = list /\ items'[m] = list /\ who'[m] = a /\ files'[m] = <<>>
        /\ trees'[m] = {stored'} /\ rights'[m] = {policy'}
        /\ pc'[m] = "load" => ValidIdentity(a)
        /\ pc'[m] \in {"load", "error"}
    BY <1>1 DEF Types, MountBegin, env, CallInv, Current
  <1>5. Current(m)' /\ FromTree(m)' /\ Granted(m)'
    BY <1>4 DEF Current, FromTree, Granted, ValidIdentity, Running
  <1>6. Collected(m)'
    <2>1. Passed(m)' = 0
      BY <1>1, <1>4 DEF Passed
    <2> QED
      BY <1>1, <1>4, <2>1, PlaceStep DEF Collected
  <1>7. \A x \in Mounts \ {m} : CallInv(x)'
    BY <1>3, UntouchedInv DEF Inv
  <1>8. CallInv(m)'
    BY <1>5, <1>6 DEF CallInv
  <1> QED
    BY <1>2, <1>7, <1>8 DEF Inv

-----------------------------------------------------------------------------
(* The item whose turn it is, and what is left after it. *)
LEMMA ItemType ==
  ASSUME Types, NEW m \in Mounts, Collected(m), pc[m] \in Running, items[m] # <<>>
  PROVE  /\ Item(m) \in Items
         /\ Item(m) = asked[m][Passed(m) + 1]
         /\ Tail(items[m]) \in Seq(Items)
         /\ Len(Tail(items[m])) = Len(items[m]) - 1
         /\ \A k \in DOMAIN Tail(items[m]) : Tail(items[m])[k] = asked[m][Passed(m) + 1 + k]
  <1> DEFINE s == items[m]
  <1>1. s \in Seq(Items) /\ asked[m] \in Seq(Items)
    BY DEF Types
  <1>2. Len(s) \in Nat \ {0} /\ Len(asked[m]) \in Nat /\ Passed(m) \in Nat
    BY <1>1, EmptySeq DEF Collected
  <1>3. /\ Head(s) \in Items /\ Tail(s) \in Seq(Items) /\ Len(Tail(s)) = Len(s) - 1
        /\ \A k \in 1..Len(Tail(s)) : Tail(s)[k] = s[k + 1]
    BY <1>1, HeadTailProperties
  <1>4. Head(s) = s[1] /\ DOMAIN s = 1..Len(s) /\ DOMAIN Tail(s) = 1..Len(Tail(s))
    BY <1>1, <1>3
  <1>5. \A k \in 1..Len(s) : s[k] = asked[m][Passed(m) + k]
    BY <1>4 DEF Collected
  <1>6. ASSUME NEW k \in 1..Len(Tail(s)) PROVE Tail(s)[k] = asked[m][Passed(m) + 1 + k]
    <2>1. k + 1 \in 1..Len(s) /\ Passed(m) + (k + 1) = Passed(m) + 1 + k
      BY <1>2, <1>3
    <2> QED
      BY <1>3, <1>5, <2>1
  <1>7. s[1] = asked[m][Passed(m) + 1]
    BY <1>2, <1>5
  <1> QED
    BY <1>3, <1>4, <1>6, <1>7 DEF Item

(* The step of one call is nothing to the others. *)
LEMMA StepOthers ==
  ASSUME Types, NEW m \in Mounts, Step(m), NEW x \in Mounts \ {m}
  PROVE  Untouched(x)
  <1>1. UNCHANGED <<env, who, asked, trees, rights>>
    BY DEF Step, LoadAndDecrypt, LoadFails, SkipItem, ServeItem, RefuseItem,
       MountReturns, Fail
  <1>2. pc'[x] = pc[x]
    BY DEF Types, Step, LoadAndDecrypt, LoadFails, SkipItem, ServeItem, RefuseItem,
       MountReturns, Fail
  <1>3. items'[x] = items[x]
    BY DEF Types, Step, LoadAndDecrypt, LoadFails, SkipItem, ServeItem, RefuseItem,
       MountReturns, Fail
  <1>4. files'[x] = files[x]
    BY DEF Types, Step, LoadAndDecrypt, LoadFails, SkipItem, ServeItem, RefuseItem,
       MountReturns, Fail
  <1>5. tree'[x] = tree[x]
    BY DEF Types, Step, LoadAndDecrypt, LoadFails, SkipItem, ServeItem, RefuseItem,
       MountReturns, Fail
  <1> QED
    BY <1>1, <1>2, <1>3, <1>4, <1>5 DEF Untouched, env

(* A call that fails has nothing to answer with. *)
LEMMA FailInv ==
  ASSUME Types, NEW m \in Mounts, Fail(m)
  PROVE  Types' /\ CallInv(m)'
  <1>1. files'[m] = <<>> /\ pc'[m] = "error"
    BY DEF Types, Fail
  <1>2. files' \in [Mounts -> Seq(Answers)]
    BY EmptySeq DEF Types, Fail
  <1>3. Types'
    BY <1>2 DEF Types, Fail, env
  <1> QED
    BY <1>1, <1>3 DEF CallInv, Current, FromTree, Granted, Collected, Running

(* The tree that is loaded is of the vault as it is at this moment. *)
LEMMA LoadInv ==
  ASSUME Types, NEW m \in Mounts, CallInv(m), LoadAndDecrypt(m)
  PROVE  Types' /\ CallInv(m)'
  <1>1. PICK t \in LoadedTrees(stored) : tree' = [tree EXCEPT ![m] = t]
    BY DEF LoadAndDecrypt
  <1>2. /\ UNCHANGED <<env, who, items, files, asked, trees, rights>>
        /\ pc[m] = "load" /\ pc'[m] = "loop" /\ tree'[m] = t /\ t \in Loaded
        /\ files[m] = <<>>
    BY <1>1 DEF LoadAndDecrypt, Types, Loaded, CallInv, Current
  <1>3. Types'
    BY <1>1, <1>2 DEF Types, LoadAndDecrypt, env
  <1>4. Current(m)'
    BY <1>2 DEF CallInv, Current, Running, env, ValidIdentity
  <1>5. FromTree(m)' /\ Granted(m)'
    BY <1>1, <1>2 DEF CallInv, Current, Running, FromTree, Granted
  <1>6. Collected(m)'
    BY <1>2 DEF CallInv, Collected, Running, Passed, Place
  <1> QED
    BY <1>3, <1>4, <1>5, <1>6 DEF CallInv

(* A call returns when nothing is left of its list. *)
LEMMA ReturnInv ==
  ASSUME Types, NEW m \in Mounts, CallInv(m), MountReturns(m)
  PROVE  Types' /\ CallInv(m)'
  <1>1. /\ UNCHANGED <<env, who, items, tree, files, asked, trees, rights>>
        /\ pc[m] = "loop" /\ pc'[m] = "ok" /\ items[m] = <<>>
    BY DEF MountReturns, Types
  <1>2. Types'
    BY <1>1 DEF Types, MountReturns, env
  <1>3. Current(m)' /\ FromTree(m)'
    BY <1>1 DEF CallInv, Current, FromTree, Running, Found, Present
  <1>4. Granted(m)'
    BY <1>1 DEF CallInv, Granted, Allowed, Grants, env
  <1>5. Collected(m)'
    BY <1>1 DEF CallInv, Collected, Running, Passed, Place
  <1> QED
    BY <1>2, <1>3, <1>4, <1>5 DEF CallInv

(* An item that names no file is passed over: as many files, an item less. *)
LEMMA SkipInv ==
  ASSUME Types, NEW m \in Mounts, CallInv(m), SkipItem(m)
  PROVE  Types' /\ CallInv(m)'
  <1>1. /\ UNCHANGED <<env, pc, who, tree, files, asked, trees, rights>>
        /\ pc[m] = "loop" /\ items[m] # <<>> /\ Item(m) = Junk
        /\ items' = [items EXCEPT ![m] = Tail(items[m])] /\ items'[m] = Tail(items[m])
    BY DEF SkipItem, Types
  <1>2. /\ Item(m) = asked[m][Passed(m) + 1]
        /\ Tail(items[m]) \in Seq(Items)
        /\ Len(Tail(items[m])) = Len(items[m]) - 1
        /\ \A k \in DOMAIN Tail(items[m]) : Tail(items[m])[k] = asked[m][Passed(m) + 1 + k]
    BY <1>1, ItemType DEF CallInv, Running
  <1>3. Types'
    BY <1>1, <1>2 DEF Types, env
  <1>4. Current(m)' /\ FromTree(m)'
    BY <1>1 DEF CallInv, Current, FromTree, Running, Found, Present, env, ValidIdentity
  <1>5. Granted(m)'
    BY <1>1 DEF CallInv, Granted, Allowed, Grants, env
  <1>6. Collected(m)'
    <2>1. Passed(m) \in Nat /\ Passed(m)' = Passed(m) + 1
      <3>1. /\ Len(asked[m]) \in Nat /\ Len(items[m]) \in Nat
            /\ Passed(m) \in Nat /\ Len(items'[m]) = Len(items[m]) - 1 /\ asked' = asked
        BY <1>1, <1>2 DEF Types, CallInv, Collected, Running
      <3>2. Passed(m)' = Len(asked'[m]) - Len(items'[m])
        BY DEF Passed
      <3> QED
        BY <3>1, <3>2 DEF Passed
    <2>2. Place(asked[m], Passed(m) + 1) = Place(asked[m], Passed(m))
      BY <1>1, <1>2, <2>1, PlaceStep
    <2>3. \A n \in 1..(Passed(m) + 1) : asked[m][n] # Junk => n \in 1..Passed(m)
      BY <1>1, <1>2, <2>1
    <2>4. \A n : Place(asked[m], n)' = Place(asked[m], n)
      BY <1>1 DEF Place
    <2>5. Place(asked[m], Passed(m))' = Place(asked[m], Passed(m) + 1)
      BY <1>1, <2>1 DEF Place
    <2>6. \A k \in DOMAIN items'[m] : items'[m][k] = asked'[m][Passed(m)' + k]
      BY <1>1, <1>2, <2>1
    <2>7. \A n \in 1..Passed(m)' : asked'[m][n] # Junk =>
            /\ files'[m][Place(asked[m], n)'].file = asked'[m][n].file
            /\ files'[m][Place(asked[m], n)'].path = normalizePath(asked'[m][n].path)
      BY <1>1, <2>1, <2>3, <2>4 DEF CallInv, Collected, Running
    <2>8. Len(files'[m]) = Place(asked[m], Passed(m))'
      BY <1>1, <2>2, <2>5 DEF CallInv, Collected, Running
    <2>9. pc'[m] = "loop" /\ Passed(m)' \in Nat
      BY <1>1, <2>1
    <2> QED
      BY <2>6, <2>7, <2>8, <2>9 DEF Collected
  <1> QED
    BY <1>3, <1>4, <1>5, <1>6 DEF CallInv

(* A file is granted by the policy in force, and read from the tree that   *)
(* was loaded; it takes the next place.                                    *)
LEMMA ServeInv ==
  ASSUME Types, NEW m \in Mounts, CallInv(m), ServeItem(m)
  PROVE  Types' /\ CallInv(m)'
  <1> DEFINE p == normalizePath(Item(m).path)
             f == [file |-> Item(m).file, path |-> p, value |-> tree[m][p].value]
  <1>1. /\ UNCHANGED <<env, pc, who, tree, asked, trees, rights>>
        /\ pc[m] = "loop" /\ items[m] # <<>> /\ Item(m) # Junk
        /\ items' = [items EXCEPT ![m] = Tail(items[m])] /\ items'[m] = Tail(items[m])
        /\ files' = [files EXCEPT ![m] = Append(files[m], f)]
        /\ files'[m] = Append(files[m], f)
        /\ Found(m, p) /\ canAccess(who[m], p)
    BY DEF ServeItem, Served, Types
  <1>2. /\ Item(m) \in Items
        /\ Item(m) = asked[m][Passed(m) + 1]
        /\ Tail(items[m]) \in Seq(Items)
        /\ Len(Tail(items[m])) = Len(items[m]) - 1
        /\ \A k \in DOMAIN Tail(items[m]) : Tail(items[m])[k] = asked[m][Passed(m) + 1 + k]
    BY <1>1, ItemType DEF CallInv, Running
  <1>3. Item(m).file \in STRING /\ Item(m).path \in Seq(STRING)
    BY <1>1, <1>2 DEF Items
  <1>4. p \in Keys /\ normalizePath(p) = p
    BY <1>3, StringsAreKeys, NormalizedType, NormalizeIdempotent
  <1>5. f \in Answers
    <2>1. tree[m] \in Loaded /\ p \in DOMAIN tree[m] /\ Present(tree[m], p)
      BY <1>1 DEF CallInv, FromTree, Found
    <2>2. tree[m][p].value \in Values
      BY <2>1 DEF Values
    <2> QED
      BY <1>3, <1>4, <2>2 DEF Answers
  <1> HIDE DEF f, p
  <1>6. /\ files[m] \in Seq(Answers) /\ files'[m] \in Seq(Answers)
        /\ Len(files[m]) \in Nat /\ Len(files'[m]) = Len(files[m]) + 1
        /\ DOMAIN files[m] = 1..Len(files[m]) /\ DOMAIN files'[m] = 1..(Len(files[m]) + 1)
        /\ files'[m][Len(files[m]) + 1] = f
        /\ \A n \in 1..Len(files[m]) : files'[m][n] = files[m][n]
    BY <1>1, <1>5 DEF Types
  <1>7. Types'
    BY <1>1, <1>2, <1>6 DEF Types, env
  <1>8. Current(m)'
    BY <1>1 DEF CallInv, Current, Running, env, ValidIdentity
  <1>9. f.path = p /\ f.value = tree[m][p].value /\ f.file = Item(m).file
    BY DEF f
  <1>10. FromTree(m)'
    BY <1>1, <1>6, <1>9 DEF CallInv, FromTree, Found, Present
  <1>11. \E q \in rights[m] : Allowed(q, who[m], p)
    <2>1. /\ policy \in rights[m] /\ who[m] \in Accounts /\ ValidIdentity(who[m])
          /\ policy \in Policies \cup {NoPermMgr}
      BY <1>1 DEF CallInv, Current, Running, Types
    <2>2. CASE policy = NoPermMgr
      BY <1>1, <2>1, <2>2 DEF canAccess, Allowed
    <2>3. CASE policy # NoPermMgr
      <3>1. CanAccess(policy, who[m].ns, who[m].sa, p)
        BY <1>1, <2>3 DEF canAccess
      <3>2. Grants(policy, who[m], p)
        BY <1>4, <2>1, <2>3, <3>1, AccessIsGranted
      <3> QED
        BY <2>1, <2>3, <3>2 DEF Allowed
    <2> QED
      BY <2>2, <2>3
  <1>12. Granted(m)'
    <2>1. \A q, a, x : Allowed(q, a, x)' <=> Allowed(q, a, x)
      BY <1>1 DEF Allowed, Grants, env
    <2> QED
      BY <1>1, <1>6, <1>9, <1>11, <2>1 DEF CallInv, Granted
  <1>13. Collected(m)'
    <2>1. Passed(m) \in Nat /\ Passed(m)' = Passed(m) + 1
      <3>1. /\ Len(asked[m]) \in Nat /\ Len(items[m]) \in Nat
            /\ Passed(m) \in Nat /\ Len(items'[m]) = Len(items[m]) - 1 /\ asked' = asked
        BY <1>1, <1>2 DEF Types, CallInv, Collected, Running
      <3>2. Passed(m)' = Len(asked'[m]) - Len(items'[m])
        BY DEF Passed
      <3> QED
        BY <3>1, <3>2 DEF Passed
    <2>2. Place(asked[m], Passed(m) + 1) = Place(asked[m], Passed(m)) + 1
      BY <1>1, <1>2, <2>1, PlaceStep
    <2>3. Len(files[m]) = Place(asked[m], Passed(m))
      BY <1>1 DEF CallInv, Collected, Running
    <2>4. ASSUME NEW n \in 1..Passed(m), asked[m][n] # Junk
          PROVE  /\ Place(asked[m], n) \in 1..Len(files[m])
                 /\ files[m][Place(asked[m], n)].file = asked[m][n].file
                 /\ files[m][Place(asked[m], n)].path = normalizePath(asked[m][n].path)
      BY <1>1, <2>1, <2>3, <2>4, PlaceBetween DEF CallInv, Collected, Running
    <2>5. ASSUME NEW n \in 1..(Passed(m) + 1), asked[m][n] # Junk
          PROVE  /\ files'[m][Place(asked[m], n)].file = asked[m][n].file
                 /\ files'[m][Place(asked[m], n)].path = normalizePath(asked[m][n].path)
      <3>1. CASE n = Passed(m) + 1
        <4>1. asked[m][n] = Item(m) /\ Place(asked[m], n) = Len(files[m]) + 1
          BY <1>2, <2>2, <2>3, <3>1
        <4>2. files'[m][Place(asked[m], n)] = f
          BY <1>6, <4>1
        <4>3. f.file = asked[m][n].file /\ f.path = normalizePath(asked[m][n].path)
          BY <1>9, <4>1 DEF p
        <4> QED
          BY <4>2, <4>3
      <3>2. CASE n # Passed(m) + 1
        BY <1>6, <2>1, <2>4, <2>5, <3>2
      <3> QED
        BY <3>1, <3>2
    <2>6. Place(asked[m], Passed(m))' = Place(asked[m], Passed(m) + 1)
      BY <1>1, <2>1 DEF Place
    <2>7. \A n : Place(asked[m], n)' = Place(asked[m], n)
      BY <1>1 DEF Place
    <2>8. \A k \in DOMAIN items'[m] : items'[m][k] = asked'[m][Passed(m)' + k]
      BY <1>1, <1>2, <2>1
    <2>9. \A n \in 1..Passed(m)' : asked'[m][n] # Junk =>
            /\ files'[m][Place(asked[m], n)'].file = asked'[m][n].file
            /\ files'[m][Place(asked[m], n)'].path = normalizePath(asked'[m][n].path)
      BY <1>1, <2>1, <2>5, <2>7
    <2>10. Len(files'[m]) = Place(asked[m], Passed(m))'
      BY <1>6, <2>2, <2>3, <2>6
    <2>11. pc'[m] = "loop" /\ Passed(m)' \in Nat
      BY <1>1, <2>1
    <2> QED
      BY <2>8, <2>9, <2>10, <2>11 DEF Collected
  <1> QED
    BY <1>7, <1>8, <1>10, <1>12, <1>13 DEF CallInv

-----------------------------------------------------------------------------
(* Every step preserves the invariant. *)
LEMMA NextInv == Inv /\ [Next]_vars => Inv'
  <1> SUFFICES ASSUME Inv, [Next]_vars PROVE Inv'
    OBVIOUS
  <1>1. ASSUME NEW m \in Mounts, Step(m) PROVE Inv'
    <2>1. Types /\ CallInv(m)
      BY DEF Inv
    <2>2. Types' /\ CallInv(m)'
      BY <1>1, <2>1, LoadInv, FailInv, SkipInv, ServeInv, ReturnInv
      DEF Step, LoadFails, RefuseItem
    <2>3. \A x \in Mounts \ {m} : CallInv(x)'
      BY <1>1, <2>1, StepOthers, UntouchedInv DEF Inv
    <2> QED
      BY <2>2, <2>3 DEF Inv
  <1>2. CASE UNCHANGED vars
    <2>1. Types'
      BY <1>2 DEF Inv, Types, vars, env
    <2>2. \A x \in Mounts : Untouched(x)
      BY <1>2 DEF Untouched, vars, env
    <2>3. \A x \in Mounts : CallInv(x)'
      BY <2>2, UntouchedInv DEF Inv
    <2> QED
      BY <2>1, <2>3 DEF Inv
  <1>3. CASE \/ UnlockVault \/ \E t \in VaultTrees : ChangeVault(t)
             \/ \E q \in Policies : ChangePolicy(q)
    BY <1>3, WorldInv
  <1>4. ASSUME NEW m \in Mounts, NEW a \in Accounts, NEW list \in Requested,
               MountBegin(m, a, list)
        PROVE  Inv'
    BY <1>4, BeginInv
  <1> QED
    BY <1>1, <1>2, <1>3, <1>4 DEF Next

(* The invariant of the mounts: what each has collected, from which tree   *)
(* and under which policy.                                                 *)
THEOREM MountInvariant == Spec => []Inv
  BY InitInv, NextInv, PTL DEF Spec

(* Every file of an answer was granted to its caller by a policy in force  *)
(* during the call, whatever users and the watcher do meanwhile:           *)
(* MountAuthorized.                                                        *)
THEOREM MountsAreAuthorized == Spec => []MountAuthorized
  <1>1. Inv => MountAuthorized
    <2> SUFFICES ASSUME Inv, NEW m \in Mounts, NEW f \in ToSet(files[m])
                 PROVE  \E q \in rights[m] : Allowed(q, who[m], f.path)
      BY DEF MountAuthorized, Allowed
    <2>1. \E n \in DOMAIN files[m] : f = files[m][n]
      BY DEF ToSet
    <2> QED
      BY <2>1 DEF Inv, CallInv, Granted
  <1> QED
    BY <1>1, MountInvariant, PTL

(* The files of an answer are of one state of the vault, which it was in   *)
(* during the call: MountSnapshot.                                         *)
THEOREM MountsAreSnapshots == Spec => []MountSnapshot
  <1>1. Inv => MountSnapshot
    <2> SUFFICES ASSUME Inv, NEW m \in Mounts, pc[m] = "ok"
                 PROVE  \E t \in trees[m] : \A f \in ToSet(files[m]) :
                          f.value \in {n.value : n \in normalizeKeys(t, f.path) \ {NoNode}}
      BY DEF MountSnapshot
    <2>1. PICK t \in trees[m] : tree[m] \in LoadedTrees(t)
      BY DEF Inv, CallInv, FromTree
    <2>2. ASSUME NEW f \in ToSet(files[m])
          PROVE  f.value \in {n.value : n \in normalizeKeys(t, f.path) \ {NoNode}}
      <3>1. Found(m, f.path) /\ f.value = tree[m][f.path].value
        BY DEF Inv, CallInv, FromTree, ToSet
      <3>2. tree[m][f.path] \in normalizeKeys(t, f.path) \ {NoNode}
        BY <2>1, <3>1 DEF Found, Present, LoadedTrees
      <3> QED
        BY <3>1, <3>2
    <2> QED
      BY <2>2
  <1> QED
    BY <1>1, MountInvariant, PTL

(* An answer holds every file that was asked for, in its place, and an     *)
(* error none: MountComplete.                                              *)
THEOREM MountsAreComplete == Spec => []MountComplete
  <1>1. Inv => MountComplete
    <2> SUFFICES ASSUME Inv, NEW m \in Mounts
                 PROVE  /\ pc[m] = "error" => files[m] = <<>>
                        /\ pc[m] = "ok" =>
                             /\ Len(files[m]) = Place(asked[m], Len(asked[m]))
                             /\ \A n \in DOMAIN asked[m] : asked[m][n] # Junk =>
                                  LET f == files[m][Place(asked[m], n)]
                                  IN  /\ f.file = asked[m][n].file
                                      /\ f.path = normalizePath(asked[m][n].path)
      BY DEF MountComplete
    <2>1. pc[m] = "ok" => Passed(m) = Len(asked[m]) /\ DOMAIN asked[m] = 1..Len(asked[m])
      BY EmptySeq DEF Inv, Types, CallInv, Collected, Passed
    <2> QED
      BY <2>1 DEF Inv, CallInv, Current, Collected
  <1> QED
    BY <1>1, MountInvariant, PTL

(* A call that is refused something had no right to it, or asked for what  *)
(* is not there: nothing that the policy in force grants is refused.       *)
THEOREM GrantsAreServed == Spec => GrantedIsServed
  <1>1. Inv /\ [Next]_vars => [\A m \in Mounts : pc[m] = "loop" /\ pc'[m] = "error" =>
          \/ Item(m).file = "bad"
          \/ ~Found(m, normalizePath(Item(m).path))
          \/ ~Allowed(policy, who[m], normalizePath(Item(m).path))]_vars
    <2> SUFFICES ASSUME Inv, [Next]_vars, NEW m \in Mounts, pc[m] = "loop", pc'[m] = "error"
                 PROVE  \/ Item(m).file = "bad"
                        \/ ~Found(m, normalizePath(Item(m).path))
                        \/ ~Allowed(policy, who[m], normalizePath(Item(m).path))
      OBVIOUS
    <2> DEFINE p == normalizePath(Item(m).path)
    <2>1. Types /\ CallInv(m)
      BY DEF Inv
    <2>2. RefuseItem(m)
      <3>1. pc' # pc
        OBVIOUS
      <3>2. ASSUME NEW x \in Mounts, x # m, \E v : pc' = [pc EXCEPT ![x] = v] PROVE FALSE
        BY <2>1, <3>2 DEF Types
      <3> QED
        BY <2>1, <3>1, <3>2 DEF Next, vars, env, Step, UnlockVault, ChangeVault, ChangePolicy,
           MountBegin, LoadAndDecrypt, LoadFails, Fail, SkipItem, ServeItem, RefuseItem,
           MountReturns, Types
    <2>3. ~Served(m) /\ items[m] # <<>> /\ Item(m) # Junk
      BY <2>2 DEF RefuseItem
    <2>4. Item(m) \in Items
      BY <2>1, <2>3, ItemType DEF CallInv, Running
    <2>5. p \in Keys /\ normalizePath(p) = p
      BY <2>3, <2>4, StringsAreKeys, NormalizedType, NormalizeIdempotent DEF Items
    <2>6. /\ who[m] \in Accounts /\ ValidIdentity(who[m])
          /\ policy \in Policies \cup {NoPermMgr}
      BY <2>1 DEF CallInv, Current, Running, Types
    <2>7. canAccess(who[m], p) <=> Allowed(policy, who[m], p)
      BY <2>5, <2>6, AccessIsGranted DEF canAccess, Allowed
    <2> QED
      BY <2>3, <2>7 DEF Served
  <1> QED
    BY <1>1, MountInvariant, PTL DEF Spec, GrantedIsServed
=============================================================================
