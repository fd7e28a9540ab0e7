---------------------------- MODULE VaultPathProofs ---------------------------
(***************************************************************************)
(* What path.Clean returns, for keys of any length.                        *)
(***************************************************************************)
EXTENDS VaultPath, SequenceTheorems, WellFoundedInduction, TLAPS

(* Induction over the naturals, for a set of them.  That < is well founded *)
(* gives a number outside of S that is the least such.                     *)
LEMMA SetInduction ==
  ASSUME NEW S, 0 \in S, \A n \in Nat : n \in S => n + 1 \in S
  PROVE  Nat \subseteq S
  <1>1. SUFFICES ASSUME Nat \ S # {} PROVE FALSE
    BY <1>1
  <1> DEFINE less == OpToRel(<, Nat)
  <1>2. \A m, n \in Nat : m < n => <<m, n>> \in less
    BY DEF OpToRel
  <1>3. IsWellFoundedOn(less, Nat)
    BY NatLessThanWellFounded
  <1> HIDE DEF less
  <1>4. PICK x \in Nat \ S : \A y \in Nat \ S : <<y, x>> \notin less
    BY <1>1, <1>3, WFMin
  <1>5. x # 0 /\ x - 1 \in Nat /\ x - 1 < x
    BY <1>4
  <1>6. x - 1 \in S
    BY <1>2, <1>4, <1>5
  <1> QED
    BY <1>4, <1>5, <1>6

-----------------------------------------------------------------------------
(* The provers do not know that a string literal is in STRING. *)
Segments == STRING \cup {"/"}
Keys == Seq(Segments)

(* A sequence of strings is a key. *)
LEMMA StringsAreKeys == ASSUME NEW p \in Seq(STRING) PROVE p \in Keys
  BY SeqMonotonic DEF Keys, Segments

(* The segments of a key are at the numbers up to its length. *)
LEMMA KeyLength ==
  ASSUME NEW p \in Keys
  PROVE  /\ Len(p) \in Nat /\ DOMAIN p = 1..Len(p)
         /\ p = <<>> <=> Len(p) = 0
         /\ \A i \in 1..Len(p) : p[i] \in Segments
  <1>1. ASSUME NEW S, NEW q \in Seq(S)
        PROVE  /\ Len(q) \in Nat /\ DOMAIN q = 1..Len(q)
               /\ q = <<>> <=> Len(q) = 0
               /\ \A i \in 1..Len(q) : q[i] \in S
    BY LenProperties, ElementOfSeq, EmptySeq
  <1> QED
    BY <1>1 DEF Keys

(* A normalized key is a nonempty key that begins with the slash.          *)
LEMMA NormalizedType ==
  ASSUME NEW p \in Keys
  PROVE  /\ normalizePath(p) \in Keys
         /\ normalizePath(p) # <<>>
         /\ Head(normalizePath(p)) = "/"
  <1>1. CASE IsAbsolute(p)
    BY <1>1 DEF normalizePath, IsAbsolute
  <1>2. CASE ~IsAbsolute(p)
    <2>1. Root \in Keys /\ Len(Root) = 1 /\ Root[1] = "/"
      BY DEF Root, Keys, Segments
    <2>2. ASSUME NEW s \in Keys, Len(s) = 1
          PROVE  s \o p \in Keys /\ s \o p # <<>> /\ (s \o p)[1] = s[1]
      <3>1. s \o p \in Keys /\ Len(s \o p) = Len(s) + Len(p) /\ Len(p) \in Nat
        BY DEF Keys
      <3>2. (s \o p)[1] = s[1]
        BY <2>2, ConcatProperties DEF Keys
      <3> QED
        BY <2>2, <3>1, <3>2 DEF Keys
    <2> QED
      BY <1>2, <2>1, <2>2, LenProperties DEF normalizePath, Keys
  <1> QED
    BY <1>1, <1>2

(* Normalizing twice changes nothing. *)
LEMMA NormalizeIdempotent ==
  ASSUME NEW p \in Keys
  PROVE  normalizePath(normalizePath(p)) = normalizePath(p)
  <1>1. IsAbsolute(normalizePath(p)) /\ normalizePath(p) # <<>>
    BY NormalizedType DEF IsAbsolute
  <1> QED
    BY <1>1 DEF normalizePath

(* All but the last segment of a key. *)
LEMMA FrontType ==
  ASSUME NEW s \in Keys, s # <<>>
  PROVE  /\ Front(s) \in Keys
         /\ Len(Front(s)) = Len(s) - 1
         /\ IsPrefix(Front(s), s)
  <1> DEFINE n == Len(s) - 1
  <1>1. n \in Nat /\ n <= Len(s)
    BY DEF Keys
  <1> HIDE DEF n
  <1>2. /\ SubSeq(s, 1, n) \in Keys
        /\ Len(SubSeq(s, 1, n)) = n
    BY <1>1 DEF Keys
  <1>3. SubSeq(SubSeq(s, 1, n), 1, n) = SubSeq(s, 1, n)
    BY <1>2, SubSeqFull DEF Keys
  <1> QED
    BY <1>1, <1>2, <1>3 DEF Front, IsPrefix, n

(* A key is all but its last segment, and that one. *)
LEMMA FrontAndLast ==
  ASSUME NEW s \in Keys, s # <<>>
  PROVE  Append(Front(s), Last(s)) = s
  <1>1. Len(s) \in Nat /\ Last(s) \in Segments
    BY DEF Keys, Last
  <1>2. Front(s) \in Keys /\ Len(Front(s)) = Len(s) - 1
    BY FrontType
  <1>3. \A i \in 1..(Len(s) - 1) : Front(s)[i] = s[i]
    BY <1>1 DEF Front, Keys
  <1>4. /\ Append(Front(s), Last(s)) \in Keys /\ Len(Append(Front(s), Last(s))) = Len(s)
        /\ \A i \in 1..(Len(s) - 1) : Append(Front(s), Last(s))[i] = Front(s)[i]
        /\ Append(Front(s), Last(s))[Len(s)] = Last(s)
    BY <1>1, <1>2 DEF Keys
  <1>5. \A i \in 1..Len(s) : Append(Front(s), Last(s))[i] = s[i]
    BY <1>1, <1>3, <1>4 DEF Last
  <1> QED
    BY <1>4, <1>5, SeqEqual DEF Keys

-----------------------------------------------------------------------------
(***************************************************************************)
(* The function in the fold of Clean, for the first n segments of t.       *)
(***************************************************************************)
IsFold(g, t, n) ==
  g = [s \in SUBSET (1..n) |->
         IF s = {} THEN Root ELSE CleanStep(g[s \ {Max(s)}], t[Max(s)])]

(* The greatest number of a set that n bounds and belongs to. *)
LEMMA MaxIsBound ==
  ASSUME NEW n \in Nat, NEW s \in SUBSET (1..n), n \in s
  PROVE  Max(s) = n
  <1>1. \A x \in s : x \in Nat /\ x <= n
    OBVIOUS
  <1>2. \A x \in s : (\A y \in s : x >= y) => x = n
    BY <1>1
  <1>3. \A y \in s : n >= y
    BY <1>1
  <1> QED
    BY <1>2, <1>3 DEF Max

(* The function exists: it is continued from n to n + 1. *)
LEMMA FoldExists ==
  ASSUME NEW t, NEW n \in Nat
  PROVE  \E g : IsFold(g, t, n)
  <1> DEFINE S == {k \in Nat : \E g : IsFold(g, t, k)}
  <1>1. 0 \in S
    <2> DEFINE g == [s \in SUBSET (1..0) |-> Root]
    <2>1. \A s \in SUBSET (1..0) : s = {}
      OBVIOUS
    <2>2. IsFold(g, t, 0)
      BY <2>1 DEF IsFold
    <2> QED
      BY <2>2
  <1>2. ASSUME NEW k \in Nat, k \in S PROVE k + 1 \in S
    <2>1. PICK g : IsFold(g, t, k)
      BY <1>2
    <2> DEFINE h == [s \in SUBSET (1..(k + 1)) |->
                       IF k + 1 \in s THEN CleanStep(g[s \ {k + 1}], t[k + 1]) ELSE g[s]]
    <2>2. ASSUME NEW s \in SUBSET (1..(k + 1))
          PROVE  h[s] = IF s = {} THEN Root ELSE CleanStep(h[s \ {Max(s)}], t[Max(s)])
      <3>1. CASE k + 1 \in s
        <4>1. Max(s) = k + 1
          BY <3>1, MaxIsBound
        <4>2. s \ {k + 1} \in SUBSET (1..(k + 1)) /\ s # {}
          BY <3>1
        <4> QED
          BY <3>1, <4>1, <4>2
      <3>2. CASE k + 1 \notin s
        <4>1. s \in SUBSET (1..k)
          BY <3>2
        <4>2. /\ s \ {Max(s)} \in SUBSET (1..k)
              /\ s \ {Max(s)} \in SUBSET (1..(k + 1))
              /\ k + 1 \notin s \ {Max(s)}
          BY <4>1, <3>2
        <4>3. g[s] = IF s = {} THEN Root ELSE CleanStep(g[s \ {Max(s)}], t[Max(s)])
          BY <2>1, <4>1 DEF IsFold
        <4> QED
          BY <3>2, <4>2, <4>3
      <3> QED
        BY <3>1, <3>2
    <2>3. IsFold(h, t, k + 1)
      <3>1. h = [s \in SUBSET (1..(k + 1)) |-> h[s]]
        OBVIOUS
      <3> HIDE DEF h
      <3> QED
        BY <2>2, <3>1 DEF IsFold
    <2> QED
      BY <2>3
  <1> HIDE DEF S
  <1>3. Nat \subseteq S
    BY <1>1, <1>2, SetInduction
  <1> QED
    BY <1>3 DEF S

Alike(t, u, n) == \A i \in 1..n : t[i] = u[i]

(* Two keys that begin alike are folded alike, as far as they are alike. *)
LEMMA FoldAgree ==
  ASSUME NEW t, NEW u, NEW m \in Nat, NEW n \in Nat, m <= n, NEW g, NEW h,
         IsFold(g, t, m), IsFold(h, u, n), Alike(t, u, m)
  PROVE  g[1..m] = h[1..m]
  <1> DEFINE S == {k \in Nat : k <= m => g[1..k] = h[1..k]}
  <1>1. ASSUME NEW k \in Nat, k + 1 <= m
        PROVE  /\ g[1..(k + 1)] = CleanStep(g[1..k], t[k + 1])
               /\ h[1..(k + 1)] = CleanStep(h[1..k], u[k + 1])
    <2>1. /\ 1..(k + 1) \in SUBSET (1..m) /\ 1..(k + 1) \in SUBSET (1..n)
          /\ 1..(k + 1) # {} /\ (1..(k + 1)) \ {k + 1} = 1..k
      BY <1>1
    <2>2. Max(1..(k + 1)) = k + 1
      BY MaxIsBound
    <2>3. \A s \in SUBSET (1..m) :
            g[s] = IF s = {} THEN Root ELSE CleanStep(g[s \ {Max(s)}], t[Max(s)])
      BY DEF IsFold
    <2>4. \A s \in SUBSET (1..n) :
            h[s] = IF s = {} THEN Root ELSE CleanStep(h[s \ {Max(s)}], u[Max(s)])
      BY DEF IsFold
    <2> QED
      BY <2>1, <2>2, <2>3, <2>4
  <1>2. 0 \in S
    BY DEF IsFold
  <1>3. ASSUME NEW k \in Nat, k \in S PROVE k + 1 \in S
    BY <1>1, <1>3 DEF Alike
  <1> HIDE DEF S
  <1>4. Nat \subseteq S
    BY <1>2, <1>3, SetInduction
  <1> QED
    BY <1>4 DEF S

-----------------------------------------------------------------------------
(* Clean is such a function at the end of the key. *)
LEMMA CleanIsFold ==
  ASSUME NEW p \in Keys, p # <<>>
  PROVE  \E g : IsFold(g, Tail(p), Len(p) - 1) /\ Clean(p) = g[1..(Len(p) - 1)]
  <1> DEFINE n == Len(p) - 1
             g == CHOOSE g : IsFold(g, Tail(p), n)
  <1>1. n \in Nat /\ DOMAIN Tail(p) = 1..n
    BY DEF Keys
  <1>2. IsFold(g, Tail(p), n)
    BY <1>1, FoldExists
  <1>3. Clean(p) = g[1..n]
    BY <1>1 DEF Clean, FoldLeft, MapThenFoldSet, IsFold
  <1> QED
    BY <1>2, <1>3

(* Of the slash alone the root is left. *)
LEMMA CleanOfOne ==
  ASSUME NEW p \in Keys, Len(p) = 1
  PROVE  Clean(p) = Root
  <1>1. p # <<>> /\ Len(p) - 1 = 0
    OBVIOUS
  <1>2. PICK g : IsFold(g, Tail(p), 0) /\ Clean(p) = g[1..0]
    BY <1>1, CleanIsFold
  <1> QED
    BY <1>2 DEF IsFold

(* The last segment is cleaned after everything before it. *)
LEMMA CleanOfLonger ==
  ASSUME NEW p \in Keys, NEW q \in Keys, NEW n \in Nat, Len(p) = n + 2, Len(q) = n + 1,
         \A i \in 1..(n + 1) : q[i] = p[i]
  PROVE  Clean(p) = CleanStep(Clean(q), p[n + 2])
  <1>1. n <= n + 1 /\ n + 1 \in Nat /\ Len(p) - 1 = n + 1 /\ Len(q) - 1 = n
    OBVIOUS
  <1>2. p # <<>> /\ q # <<>>
    BY KeyLength
  <1>3. /\ \A i \in 1..n : Tail(q)[i] = q[i + 1]
        /\ \A i \in 1..(n + 1) : Tail(p)[i] = p[i + 1]
    BY <1>2, HeadTailProperties DEF Keys
  <1>4. Alike(Tail(q), Tail(p), n)
    BY <1>3 DEF Alike
  <1>5. PICK g : IsFold(g, Tail(p), n + 1) /\ Clean(p) = g[1..(n + 1)]
    BY <1>1, <1>2, CleanIsFold
  <1>6. PICK h : IsFold(h, Tail(q), n) /\ Clean(q) = h[1..n]
    BY <1>1, <1>2, CleanIsFold
  <1>7. h[1..n] = g[1..n]
    <2>1. IsFold(g, Tail(p), n + 1) /\ IsFold(h, Tail(q), n)
      BY <1>5, <1>6
    <2> QED
      BY <1>1, <1>4, <2>1, FoldAgree
  <1>8. g[1..(n + 1)] = CleanStep(g[1..n], Tail(p)[n + 1])
    <2>1. /\ 1..(n + 1) \in SUBSET (1..(n + 1)) /\ 1..(n + 1) # {}
          /\ (1..(n + 1)) \ {n + 1} = 1..n
      OBVIOUS
    <2>2. Max(1..(n + 1)) = n + 1
      BY <1>1, MaxIsBound
    <2>3. \A s \in SUBSET (1..(n + 1)) :
            g[s] = IF s = {} THEN Root ELSE CleanStep(g[s \ {Max(s)}], Tail(p)[Max(s)])
      BY <1>5 DEF IsFold
    <2> QED
      BY <2>1, <2>2, <2>3
  <1>9. Tail(p)[n + 1] = p[n + 2]
    BY <1>3
  <1> QED
    BY <1>5, <1>6, <1>7, <1>8, <1>9

-----------------------------------------------------------------------------
(***************************************************************************)
(* A key in canonical form: a slash, and then names.                       *)
(***************************************************************************)
Name(seg) == seg \notin {"", ".", ".."}

Canonical(p) ==
  /\ p \in Keys /\ Len(p) \in Nat \ {0}
  /\ p[1] = "/"
  /\ \A i \in 2..Len(p) : Name(p[i])

(* The root is canonical. *)
LEMMA RootIsCanonical == Canonical(Root) /\ Len(Root) = 1
  BY DEF Canonical, Root, Keys, Segments

(* It is the only canonical key of this length. *)
LEMMA OnlyRoot ==
  ASSUME NEW p, Canonical(p), Len(p) = 1
  PROVE  p = Root
  <1>1. p \in Keys /\ p[1] = "/"
    BY DEF Canonical
  <1>2. Root \in Keys /\ Root[1] = "/"
    BY RootIsCanonical DEF Canonical
  <1>3. \A i \in 1..1 : p[i] = Root[i]
    BY <1>1, <1>2
  <1> QED
    BY <1>1, <1>2, <1>3, RootIsCanonical, SeqEqual DEF Keys

(* So is every beginning of a canonical key. *)
LEMMA PrefixIsCanonical ==
  ASSUME NEW p, Canonical(p), NEW n \in 1..Len(p)
  PROVE  /\ Canonical(SubSeq(p, 1, n)) /\ Len(SubSeq(p, 1, n)) = n
         /\ \A i \in 1..n : SubSeq(p, 1, n)[i] = p[i]
  <1>1. p \in Keys /\ Len(p) \in Nat
    BY DEF Canonical
  <1> DEFINE q == SubSeq(p, 1, n)
  <1>2. q \in Keys /\ Len(q) = n /\ \A i \in 1..n : q[i] = p[i]
    BY <1>1 DEF Keys
  <1> HIDE DEF q
  <1>3. n \in Nat \ {0} /\ 1 \in 1..n /\ \A i \in 2..n : i \in 1..n /\ i \in 2..Len(p)
    BY <1>1
  <1>4. q[1] = "/" /\ \A i \in 2..n : Name(q[i])
    BY <1>2, <1>3 DEF Canonical
  <1>5. Canonical(q)
    BY <1>2, <1>3, <1>4 DEF Canonical
  <1> QED
    BY <1>2, <1>5 DEF q

(* A name makes a longer canonical key. *)
LEMMA LongerIsCanonical ==
  ASSUME NEW p, Canonical(p), NEW x \in Segments, Name(x)
  PROVE  Canonical(Append(p, x))
  <1> DEFINE n == Len(p)
             q == Append(p, x)
  <1>1. p \in Keys /\ n \in Nat \ {0}
    BY DEF Canonical
  <1>2. q \in Keys /\ Len(q) = n + 1 /\ q[n + 1] = x /\ \A i \in 1..n : q[i] = p[i]
    BY <1>1 DEF Keys
  <1>3. p[1] = "/" /\ \A i \in 2..n : Name(p[i])
    BY DEF Canonical
  <1> HIDE DEF n, q
  <1>4. q[1] = "/" /\ \A i \in 2..(n + 1) : Name(q[i])
    BY <1>1, <1>2, <1>3
  <1>5. n + 1 \in Nat \ {0}
    BY <1>1
  <1>6. Canonical(q)
    BY <1>2, <1>4, <1>5 DEF Canonical
  <1> QED
    BY <1>6 DEF q

(* A step of Clean leaves a canonical key. *)
LEMMA StepIsCanonical ==
  ASSUME NEW c, Canonical(c), NEW x \in Segments
  PROVE  Canonical(CleanStep(c, x))
  <1>1. CASE x \in {"", "."}
    BY <1>1 DEF CleanStep
  <1>2. CASE x = ".." /\ c = Root
    BY <1>2 DEF CleanStep
  <1>3. CASE x = ".." /\ c # Root
    <2>1. Len(c) # 1 /\ Len(c) \in Nat \ {0}
      BY <1>3, OnlyRoot DEF Canonical
    <2>2. \A n \in Nat \ {0} : n # 1 => n - 1 \in 1..n
      OBVIOUS
    <2>3. Canonical(SubSeq(c, 1, Len(c) - 1))
      BY <2>1, <2>2, PrefixIsCanonical
    <2> QED
      BY <1>3, <2>3 DEF CleanStep, Front
  <1>4. CASE Name(x)
    <2>1. CleanStep(c, x) = Append(c, x)
      BY <1>4 DEF CleanStep, Name
    <2> QED
      BY <1>4, <2>1, LongerIsCanonical
  <1> QED
    BY <1>1, <1>2, <1>3, <1>4 DEF Name

-----------------------------------------------------------------------------
(* What is before the last of n + 2 segments, and that segment. *)
LEMMA Shorter ==
  ASSUME NEW p \in Keys, NEW n \in Nat, Len(p) = n + 2
  PROVE  /\ Front(p) \in Keys /\ Len(Front(p)) = n + 1 /\ p[n + 2] \in Segments
         /\ Append(Front(p), p[n + 2]) = p
         /\ Clean(p) = CleanStep(Clean(Front(p)), p[n + 2])
  <1>1. p # <<>> /\ p[n + 2] \in Segments /\ Last(p) = p[n + 2]
    BY KeyLength DEF Last
  <1>2. Front(p) \in Keys /\ Len(Front(p)) = n + 1
    BY <1>1, FrontType
  <1>3. \A i \in 1..(n + 1) : Front(p)[i] = p[i]
    BY DEF Front, Keys
  <1> QED
    BY <1>1, <1>2, <1>3, FrontAndLast, CleanOfLonger

(* Whatever a key holds, Clean makes a canonical one of it. *)
LEMMA CleanIsCanonical ==
  ASSUME NEW p \in Keys, p # <<>>
  PROVE  Canonical(Clean(p))
  <1> DEFINE S == {n \in Nat : \A q \in Keys : Len(q) = n + 1 => Canonical(Clean(q))}
  <1>1. 0 \in S
    BY CleanOfOne, RootIsCanonical
  <1>2. ASSUME NEW n \in Nat, n \in S PROVE n + 1 \in S
    <2>1. ASSUME NEW q \in Keys, Len(q) = n + 2 PROVE Canonical(Clean(q))
      BY <1>2, <2>1, Shorter, StepIsCanonical
    <2>2. n + 1 + 1 = n + 2
      OBVIOUS
    <2> QED
      BY <2>1, <2>2
  <1> HIDE DEF S
  <1>3. Nat \subseteq S
    BY <1>1, <1>2, SetInduction
  <1>4. PICK n \in Nat : Len(p) = n + 1
    <2>1. \A k \in Nat : k # 0 => k - 1 \in Nat /\ k = k - 1 + 1
      OBVIOUS
    <2> QED
      BY <2>1, KeyLength
  <1> QED
    BY <1>3, <1>4 DEF S

(* A canonical key is left as it is. *)
LEMMA CanonicalIsClean ==
  ASSUME NEW p, Canonical(p)
  PROVE  Clean(p) = p
  <1> DEFINE S == {n \in Nat : \A q : Canonical(q) /\ Len(q) = n + 1 => Clean(q) = q}
  <1>1. 0 \in S
    BY OnlyRoot, CleanOfOne DEF Canonical
  <1>2. ASSUME NEW n \in Nat, n \in S PROVE n + 1 \in S
    <2>1. ASSUME NEW q, Canonical(q), Len(q) = n + 2 PROVE Clean(q) = q
      <3>1. /\ n + 1 \in 1..Len(q) /\ n + 2 \in 2..Len(q) /\ Len(q) - 1 = n + 1
        BY <2>1
      <3>2. q \in Keys /\ Name(q[n + 2])
        BY <2>1, <3>1 DEF Canonical
      <3>3. Canonical(Front(q)) /\ Len(Front(q)) = n + 1
        BY <2>1, <3>1, PrefixIsCanonical DEF Front
      <3>4. Clean(Front(q)) = Front(q)
        BY <1>2, <3>3
      <3>5. CleanStep(Front(q), q[n + 2]) = Append(Front(q), q[n + 2])
        BY <3>2 DEF CleanStep, Name
      <3> QED
        BY <2>1, <3>2, <3>4, <3>5, Shorter
    <2>2. n + 1 + 1 = n + 2
      OBVIOUS
    <2> QED
      BY <2>1, <2>2
  <1> HIDE DEF S
  <1>3. Nat \subseteq S
    BY <1>1, <1>2, SetInduction
  <1>4. PICK n \in Nat : Len(p) = n + 1
    <2>1. \A k \in Nat \ {0} : k - 1 \in Nat /\ k = k - 1 + 1
      OBVIOUS
    <2> QED
      BY <2>1 DEF Canonical
  <1> QED
    BY <1>3, <1>4 DEF S

-----------------------------------------------------------------------------
(* path.Clean leaves exactly the canonical keys alone: validateVaultPath   *)
(* lets a normalized path pass if and only if it is names after a slash.   *)
THEOREM ValidIsCanonical ==
  ASSUME NEW p \in Keys, normalizePath(p) = p
  PROVE  validateVaultPath(p) <=> Canonical(p) /\ Len(p) # 1
  <1>1. p # <<>>
    BY NormalizedType
  <1>2. Clean(p) = p <=> Canonical(p)
    BY <1>1, CleanIsCanonical, CanonicalIsClean
  <1>3. Canonical(p) => (p = Root <=> Len(p) = 1)
    BY OnlyRoot, RootIsCanonical
  <1> QED
    BY <1>2, <1>3 DEF validateVaultPath

(* Cleaning twice changes nothing: what is authorized as a cleaned path is *)
(* authorized under its own name.                                          *)
THEOREM CleanIdempotent ==
  ASSUME NEW p \in Keys, p # <<>>
  PROVE  Clean(Clean(p)) = Clean(p)
  BY CleanIsCanonical, CanonicalIsClean
=============================================================================
