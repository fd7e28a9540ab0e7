----------------------------- MODULE PolicyProofs -----------------------------
(***************************************************************************)
(* What matchPermission, CanAccess and CanRead accept is what the README   *)
(* says of a pattern, for paths and patterns of any length and spelling.   *)
(***************************************************************************)
EXTENDS Policy, VaultPathProofs

(* A cleaned path does not end with a slash. *)
LEMMA CleanEnds ==
  ASSUME NEW p \in Keys, p # <<>>
  PROVE  Clean(p) \in Keys /\ Last(Clean(p)) # ""
  <1>1. Canonical(Clean(p))
    BY CleanIsCanonical
  <1>2. ASSUME NEW q, Canonical(q) PROVE q[Len(q)] # ""
    <2>1. CASE Len(q) = 1
      BY <1>2, <2>1 DEF Canonical
    <2>2. CASE Len(q) # 1
      <3>1. \A n \in Nat \ {0} : n # 1 => n \in 2..n
        OBVIOUS
      <3> QED
        BY <1>2, <2>2, <3>1 DEF Canonical, Name
    <2> QED
      BY <2>1, <2>2
  <1> QED
    BY <1>1, <1>2 DEF Last, Canonical

(* What is before the "*" of a pattern. *)
LEMMA BeforeStar ==
  ASSUME NEW pat \in Keys, pat # <<>>, Head(pat) = "/", Last(pat) = "*"
  PROVE  /\ Front(pat) \in Keys /\ Front(pat) # <<>>
         /\ Front(Front(pat)) # Front(pat)
  <1>1. Len(pat) \in Nat /\ Len(pat) >= 2
    BY DEF Keys, Last
  <1>2. Front(pat) \in Keys /\ Len(Front(pat)) = Len(pat) - 1
    BY FrontType
  <1>3. Front(pat) # <<>>
    BY <1>1, <1>2, KeyLength
  <1>4. Len(Front(Front(pat))) = Len(Front(pat)) - 1
    BY <1>2, <1>3, FrontType
  <1> QED
    BY <1>1, <1>2, <1>3, <1>4

(* A pattern matches exactly the paths that it covers: it grants nothing   *)
(* more, by whatever spelling of the path, and refuses nothing that the    *)
(* README promises.                                                        *)
THEOREM MatchIsCovers ==
  ASSUME NEW pattern \in Keys, NEW p \in Keys, normalizePath(p) = p
  PROVE  matchPermission(pattern, p) <=> Covers(pattern, p)
  <1> DEFINE pat == normalizePath(pattern)
             q == Clean(p)
  <1>1. pat \in Keys /\ pat # <<>> /\ Head(pat) = "/"
    BY NormalizedType
  <1>2. q \in Keys /\ Last(q) # ""
    BY NormalizedType, CleanEnds
  <1>3. CASE Last(pat) # "*"
    BY <1>3 DEF matchPermission, Covers
  <1>4. CASE Last(pat) = "*"
    <2> DEFINE prefix == Front(pat)
    <2>1. prefix \in Keys /\ prefix # <<>> /\ Front(prefix) # prefix
      BY <1>1, <1>4, BeforeStar
    <2>2. matchPermission(pattern, p) <=>
            \/ prefix = Root
            \/ q = prefix
            \/ IF Last(prefix) = "" THEN Front(prefix) = Root \/ Under(q, Front(prefix))
               ELSE Under(q, prefix)
      BY <1>4 DEF matchPermission
    <2>3. Covers(pattern, p) <=>
            \/ Branch(pat) = Root
            \/ Under(q, Branch(pat))
            \/ q = Branch(pat) /\ Branch(pat) = prefix
      BY <1>4 DEF Covers
    <2>4. CASE Last(prefix) = ""
      <3>1. Last(Root) # ""
        BY DEF Root, Last
      <3>2. prefix # Root /\ q # prefix /\ Branch(pat) = Front(prefix)
        BY <1>2, <2>4, <3>1 DEF Branch
      <3> QED
        BY <2>1, <2>2, <2>3, <2>4, <3>2
    <2>5. CASE Last(prefix) # ""
      <3>1. Branch(pat) = prefix
        BY <2>5 DEF Branch
      <3> QED
        BY <2>2, <2>3, <2>5, <3>1
    <2> QED
      BY <2>4, <2>5
  <1> QED
    BY <1>3, <1>4
=============================================================================
