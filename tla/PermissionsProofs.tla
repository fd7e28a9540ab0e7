-------------------------- MODULE PermissionsProofs ---------------------------
(***************************************************************************)
(* The safety of PermissionManager's reloads for any set of users, any set *)
(* of workloads and any contents of the permissions file.                  *)
(***************************************************************************)
EXTENDS Permissions, TLAPS

-----------------------------------------------------------------------------
(* What Load leaves behind.                                                *)

(* The users of q have whole lists of the file c only. *)
WholeLists(q, c) == \A u \in Users : q.users[u] # NoEntry => ~Fails(c.users[u])

(* Decoding any of the sections of a file, and any of the users whose list *)
(* is whole, gives entries of that file only.                              *)
LEMMA DecodedWithin ==
  ASSUME NEW c, NEW seen, NEW old, NEW kept,
         \A u \in Users : u \in kept => ~Fails(c.users[u])
  PROVE  LET q == Decoded(c, seen, kept, old) IN Within(q, c) /\ WholeLists(q, c)
  <1> DEFINE q == Decoded(c, seen, kept, old)
  <1>1. \A u \in Users : q.users[u] = IF u \in kept THEN Given(c.users[u]) ELSE NoEntry
    BY DEF Decoded
  <1>2. \A k \in Subjects : q.namespaces[k] \in {NoEntry, Given(c.namespaces[k])}
    BY DEF Decoded
  <1> HIDE DEF q
  <1>3. \A u \in Users : q.users[u] \in {NoEntry, Given(c.users[u])}
    BY <1>1
  <1>4. \A u \in Users : q.users[u] # NoEntry => ~Fails(c.users[u])
    BY <1>1
  <1> QED
    BY <1>2, <1>3, <1>4 DEF Within, WholeLists, q

(* Decoding all of a file without an error gives what the file says. *)
LEMMA DecodedFollows ==
  ASSUME NEW c, NEW old, Broken(c) = {}
  PROVE  Follows(Decoded(c, Sections, Users, old), c)
  <1> DEFINE q == Decoded(c, Sections, Users, old)
  <1>1. "admin_users" \in Sections /\ "namespace_permissions" \in Sections
    BY DEF Sections
  <1>2. ~Fails(c.admins)
    BY <1>1 DEF Broken
  <1>3. \A u \in Users : q.users[u] = Given(c.users[u])
    BY DEF Decoded
  <1>4. \A k \in Subjects : q.namespaces[k] = Given(c.namespaces[k])
    BY <1>1 DEF Decoded
  <1>5. q.admins = IF IsList(c.admins) THEN c.admins.items ELSE old
    BY <1>1 DEF Decoded
  <1>6. c.admins # NoEntry => q.admins = Given(c.admins)
    BY <1>2, <1>5 DEF Fails, IsList, Given
  <1> QED
    BY <1>3, <1>4, <1>6 DEF Follows

(* The users that Load decodes before it fails have whole lists. *)
LEMMA KeptAreWhole ==
  ASSUME NEW c, NEW bad \in Broken(c), NEW seen \in SUBSET (Sections \ Broken(c)),
         NEW kept \in KeptUsers(c, bad, seen), NEW u \in Users, u \in kept
  PROVE  ~Fails(c.users[u])
  <1>1. CASE bad = "user_permissions"
    BY <1>1 DEF KeptUsers
  <1>2. CASE bad # "user_permissions" /\ "user_permissions" \in seen
    BY <1>2 DEF Broken, Sections
  <1>3. CASE bad # "user_permissions" /\ "user_permissions" \notin seen
    BY <1>3 DEF KeptUsers
  <1> QED
    BY <1>1, <1>2, <1>3

(* Whatever Load leaves behind, complete or cut short by an error, is in   *)
(* the file; complete, it is the file.                                     *)
LEMMA OutcomeWithin ==
  ASSUME NEW c, NEW old, NEW q \in LoadOutcomes(c, old)
  PROVE  /\ Within(q, c)
         /\ WholeLists(q, c)
         /\ Broken(c) = {} => Follows(q, c)
  <1>1. CASE Broken(c) = {}
    <2>1. q = Decoded(c, Sections, Users, old)
      BY <1>1 DEF LoadOutcomes
    <2>2. \A u \in Users : ~Fails(c.users[u])
      BY <1>1 DEF Broken, Sections
    <2> QED
      BY <1>1, <2>1, <2>2, DecodedWithin, DecodedFollows
  <1>2. CASE Broken(c) # {}
    <2>1. PICK bad \in Broken(c), seen \in SUBSET (Sections \ Broken(c)) :
            q \in {Decoded(c, seen \cup {bad}, kept, old) : kept \in KeptUsers(c, bad, seen)}
      BY <1>2, SMT DEF LoadOutcomes
    <2>2. PICK kept \in KeptUsers(c, bad, seen) : q = Decoded(c, seen \cup {bad}, kept, old)
      BY <2>1, Zenon
    <2>3. \A u \in Users : u \in kept => ~Fails(c.users[u])
      BY KeptAreWhole
    <2> QED
      BY <1>2, <2>2, <2>3, DecodedWithin
  <1> QED
    BY <1>1, <1>2

(* A step that leaves what is in memory alone. *)
LEMMA MemoryAlone ==
  ASSUME RevokedIsGone, UNCHANGED <<policy, applied>>
  PROVE  RevokedIsGone'
  BY DEF RevokedIsGone, Within, Follows

(* Load fills the maps with what it read. *)
LEMMA LoadRevokes == RevokedIsGone /\ LoadApply => RevokedIsGone'
  <1> SUFFICES ASSUME RevokedIsGone, LoadApply PROVE RevokedIsGone'
    OBVIOUS
  <1>1. CASE read.content = Garbage
    <2>1. policy' = policy /\ applied'.content = applied.content /\ ~applied'.ok
      BY <1>1 DEF LoadApply
    <2> QED
      BY <2>1 DEF RevokedIsGone, Within
  <1>2. CASE read.content # Garbage
    <2>1. /\ policy' \in LoadOutcomes(read.content, policy.admins)
          /\ applied'.content = read.content
          /\ applied'.ok => Broken(read.content) = {}
      BY <1>2 DEF LoadApply
    <2>2. /\ Within(policy', read.content)
          /\ WholeLists(policy', read.content)
          /\ applied'.ok => Follows(policy', read.content)
      BY <2>1, OutcomeWithin
    <2> QED
      BY <2>1, <2>2 DEF RevokedIsGone, Within, WholeLists, Follows
  <1> QED
    BY <1>1, <1>2

(* A reload that fails halfway, or that finds garbage, leaves no user and  *)
(* no workload with an entry that the last file that was parsed does not   *)
(* give it; one that succeeds leaves the file's entries and list of admins.*)
THEOREM RevocationIsEffective == Spec => []RevokedIsGone
  <1>1. Init => RevokedIsGone
    BY DEF Init, RevokedIsGone
  <1>2. RevokedIsGone /\ [Next]_vars => RevokedIsGone'
    <2> SUFFICES ASSUME RevokedIsGone, [Next]_vars PROVE RevokedIsGone'
      OBVIOUS
    <2>1. CASE LoadApply
      BY <2>1, LoadRevokes
    <2>2. ASSUME NEW c, EditInPlace(c) \/ Swap(c) \/ WriteAnew(c)
          PROVE  UNCHANGED <<policy, applied>>
      BY <2>2, Zenon DEF EditInPlace, Swap, WriteAnew
    <2>3. CASE DeleteOld \/ MoveAway \/ LoadAtStart \/ Reload \/ WatchStart \/ HandleWrite \/ HandleRemove
      <3>1. UNCHANGED <<policy, applied>>
        BY <2>3, Zenon
        DEF DeleteOld, MoveAway, LoadAtStart, Reload, WatchStart, HandleWrite, HandleRemove
      <3> QED
        BY <3>1, MemoryAlone
    <2>4. CASE UNCHANGED vars
      BY <2>4, MemoryAlone DEF vars
    <2> QED
      BY <2>1, <2>2, <2>3, <2>4, MemoryAlone DEF Next, Goroutine
  <1> QED
    BY <1>1, <1>2, PTL DEF Spec

-----------------------------------------------------------------------------
(***************************************************************************)
(* Why no change is forgotten.  NothingForgotten is not inductive: it has  *)
(* to be known that while Watch runs without a watch its removal waits to  *)
(* be handled, that no watch is on a file that is gone, and that a Load    *)
(* under way read the version it will claim.                               *)
(***************************************************************************)
Watching == pc \in {"loop", "apply"}

(* A change since the last read is on its way. *)
OnItsWay == missed \/ events # {} \/ timer \/ watch = "old"

WatchInv ==
  /\ timer \in BOOLEAN /\ missed \in BOOLEAN
  /\ watch \in {"none", "current", "old"}
  /\ ~Watching => watch = "none" /\ events = {} /\ ~timer
  /\ ~exists => watch # "current"
  /\ pc = "start" => applied.version = read.version
  /\ Watching /\ watch = "none" => missed \/ "remove" \in events
  /\ pc = "apply" /\ read.version # version => OnItsWay
  /\ pc = "loop" /\ applied.version # version => OnItsWay

(* The program starts before the watch. *)
LEMMA InitWatch == Init => WatchInv
  BY Zenon DEF Init, WatchInv, Watching, OnItsWay

(* The file changes, and the watch reports it or not. *)
LEMMA FileWatch ==
  ASSUME WatchInv, NEW c, EditInPlace(c) \/ Swap(c) \/ WriteAnew(c) \/ DeleteOld \/ MoveAway
  PROVE  WatchInv'
  <1> USE DEF WatchInv, Watching, OnItsWay, disk
  <1>1. CASE EditInPlace(c)
    BY <1>1 DEF EditInPlace
  <1>2. CASE Swap(c)
    BY <1>2 DEF Swap
  <1>3. CASE WriteAnew(c)
    BY <1>3 DEF WriteAnew
  <1>4. CASE DeleteOld
    BY <1>4 DEF DeleteOld
  <1>5. CASE MoveAway
    BY <1>5 DEF MoveAway
  <1> QED
    BY <1>1, <1>2, <1>3, <1>4, <1>5

(* Load reads the file or applies what it read, and Watch starts or handles *)
(* an event.                                                                *)
LEMMA GoroutineWatch == WatchInv /\ Goroutine => WatchInv'
  <1> SUFFICES ASSUME WatchInv, Goroutine PROVE WatchInv'
    OBVIOUS
  <1> USE DEF WatchInv, Watching, OnItsWay, disk
  <1>1. CASE LoadAtStart
    BY <1>1 DEF LoadAtStart, ReadFile
  <1>2. CASE LoadApply
    <2>1. applied'.version = read.version
      BY <1>2 DEF LoadApply
    <2> QED
      BY <1>2, <2>1 DEF LoadApply
  <1>3. CASE WatchStart
    BY <1>3 DEF WatchStart
  <1>4. CASE HandleWrite
    BY <1>4 DEF HandleWrite
  <1>5. CASE HandleRemove
    BY <1>5 DEF HandleRemove
  <1>6. CASE Reload
    <2>1. /\ missed' \in BOOLEAN
          /\ missed' = IF watch = "none" THEN missed ELSE FALSE
      BY <1>6, Zenon DEF Reload
    <2>2. pc = "loop" /\ timer' = FALSE /\ UNCHANGED <<disk, watch, events, applied>>
      BY <1>6 DEF Reload
    <2>3. CASE exists
      <3>1. read'.version = version /\ pc' = "apply"
        BY <1>6, <2>3 DEF Reload, ReadFile
      <3> QED
        BY <2>1, <2>2, <2>3, <3>1
    <2>4. CASE ~exists
      <3>1. read' = read /\ pc' = "loop"
        BY <1>6, <2>2, <2>4 DEF Reload, ReadFile
      <3>2. CASE watch = "none"
        BY <2>1, <2>2, <2>4, <3>1, <3>2
      <3>3. CASE watch = "old"
        BY <2>1, <2>2, <2>4, <3>1, <3>3
      <3> QED
        BY <2>4, <3>2, <3>3
    <2> QED
      BY <2>3, <2>4
  <1> QED
    BY <1>1, <1>2, <1>3, <1>4, <1>5, <1>6 DEF Goroutine

(* Every change of the file that memory does not have is still on its way, *)
(* but for the ones that were missed at the start or with the path empty.  *)
THEOREM NoChangeIsForgotten == Spec => []NothingForgotten
  <1>1. WatchInv /\ [Next]_vars => WatchInv'
    <2>1. WatchInv /\ UNCHANGED vars => WatchInv'
      BY DEF WatchInv, Watching, OnItsWay, vars, disk
    <2> QED
      BY <2>1, FileWatch, GoroutineWatch DEF Next
  <1>2. WatchInv => NothingForgotten
    BY Zenon DEF WatchInv, Watching, OnItsWay, NothingForgotten
  <1> QED
    BY <1>1, <1>2, InitWatch, PTL DEF Spec
=============================================================================
