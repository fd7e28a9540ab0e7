--------------------------- MODULE JWKSCacheProofs ----------------------------
(***************************************************************************)
(* The safety properties of JWKSCache for any number of goroutines, keys   *)
(* and rotations, any refresh interval and any timeout.                    *)
(***************************************************************************)
EXTENDS JWKSCache, TLAPS

Looking == {"read", "lock", "fetch"}
KeySets == {NoKeys} \cup SUBSET Kids

(* The values of the variables that the argument is about. *)
Types ==
  /\ doc \in Docs
  /\ now \in Nat
  /\ keys \in KeySets
  /\ lastFetch \in Int
  /\ newest \in Int
  /\ pc \in [Callers -> {"idle"} \cup Looking \cup Ended]
  /\ kid \in [Callers -> Kids \cup {NoKid}]
  /\ begun \in [Callers -> Int]
  /\ answer \in [Callers -> KeySets \cup {Broken}]
  /\ asof \in [Callers -> Int]
  /\ gone \in [Kids -> Int]
  /\ absent \in [Callers -> BOOLEAN]

(* Whoever fetches holds the write lock: there is one fetch at a time. *)
OneFetch == \A c \in Callers : pc[c] = "fetch" => holder = c

(* A lookup is about a key, and it knows when that key was missing. *)
LookupOfKey ==
  \A c \in Callers : pc[c] \in Looking =>
    /\ kid[c] \in Kids
    /\ kid[c] \notin Published => absent[c]

(* The past is over. *)
PastIsPast ==
  /\ newest <= now
  /\ \A k \in Kids : gone[k] <= now

(* A fetch is not older than the timeout.                                  *)
FetchInTime ==
  \A c \in Callers : pc[c] = "fetch" => begun[c] <= now /\ now <= begun[c] + Timeout

(* An answer on its way was given after the request, after everything that *)
(* is cached, and its keys were published at least until then.             *)
AnswerIsNews ==
  \A c \in Callers : pc[c] = "fetch" /\ answer[c] # NoKeys =>
    /\ begun[c] <= asof[c]
    /\ asof[c] <= now
    /\ newest <= asof[c]
    /\ answer[c] # Broken =>
         /\ \A k \in answer[c] : LastPublished(k) >= asof[c]
         /\ kid[c] \notin answer[c] => absent[c]

(* Outside of a fetch there is no answer. *)
NoStrayAnswer == \A c \in Callers : pc[c] # "fetch" => answer[c] = NoKeys

(* The cached keys were published at least until they were served, and     *)
(* that was at most a timeout before they were cached.                     *)
CacheIsNewest ==
  keys # NoKeys =>
    /\ lastFetch - Timeout <= newest
    /\ \A k \in keys : LastPublished(k) >= newest

Inv ==
  /\ Types
  /\ OneFetch
  /\ LookupOfKey
  /\ PastIsPast
  /\ FetchInTime
  /\ AnswerIsNews
  /\ NoStrayAnswer
  /\ CacheIsNewest

-----------------------------------------------------------------------------
(* What the endpoint publishes is a set of key ids, and the time at which  *)
(* a key was last seen there lies in the past.                             *)
LEMMA PublishedType ==
  ASSUME Types, PastIsPast
  PROVE  /\ Published \subseteq Kids
         /\ \A k \in Kids : LastPublished(k) \in Int /\ LastPublished(k) <= now
  BY DocsAssumption DEF Types, PastIsPast, Published, LastPublished

(* No key is withdrawn retroactively: whatever the environment does, the   *)
(* time at which a key was last published does not move backwards.         *)
LEMMA PublishedMonotone ==
  ASSUME Types, PastIsPast, Tick \/ (\E d \in Docs : Rotate(d))
  PROVE  \A k \in Kids : /\ LastPublished(k)' \in Int
                         /\ LastPublished(k)' >= LastPublished(k)
  <1>1. CASE Tick
    BY <1>1, PublishedType DEF Types, PastIsPast, Tick, endpoint, Published, LastPublished
  <1>2. CASE \E d \in Docs : Rotate(d)
    BY <1>2, PublishedType DEF Types, PastIsPast, Rotate, Published, LastPublished
  <1> QED
    BY <1>1, <1>2

(* Init establishes the invariant. *)
LEMMA InitInv == Init => Inv
  <1> SUFFICES ASSUME Init PROVE Inv
    OBVIOUS
  <1> USE TimeAssumption DEF Init, Never
  <1>1. Types
    BY DEF Types, KeySets, Looking
  <1>2. OneFetch /\ LookupOfKey /\ FetchInTime /\ AnswerIsNews /\ NoStrayAnswer
    BY DEF OneFetch, LookupOfKey, FetchInTime, AnswerIsNews, NoStrayAnswer, Looking
  <1>3. PastIsPast
    BY DEF PastIsPast
  <1>4. CacheIsNewest
    BY DEF CacheIsNewest
  <1> QED
    BY <1>1, <1>2, <1>3, <1>4 DEF Inv

(* Time passes. *)
LEMMA TickInv == Inv /\ Tick => Inv'
  <1> SUFFICES ASSUME Inv, Tick PROVE Inv'
    OBVIOUS
  <1> USE TimeAssumption DEF Inv, Tick, endpoint, cache
  <1>1. Types'
    BY DEF Types
  <1>2. OneFetch' /\ LookupOfKey' /\ NoStrayAnswer'
    BY DEF OneFetch, LookupOfKey, NoStrayAnswer, Published
  <1>3. PastIsPast' /\ FetchInTime'
    BY DEF Types, PastIsPast, FetchInTime
  <1>4. AnswerIsNews'
    <2> SUFFICES ASSUME NEW c \in Callers, pc[c] = "fetch", answer[c] # NoKeys
                 PROVE  /\ begun[c] <= asof[c]
                        /\ asof[c] <= now'
                        /\ newest <= asof[c]
                        /\ answer[c] # Broken =>
                             /\ \A k \in answer[c] : LastPublished(k)' >= asof[c]
                             /\ kid[c] \notin answer[c] => absent[c]
      BY DEF AnswerIsNews
    <2>1. answer[c] # Broken => answer[c] \subseteq Kids
      BY DEF Types, KeySets
    <2> QED
      BY <2>1, PublishedType, PublishedMonotone DEF AnswerIsNews, Types
  <1>5. CacheIsNewest'
    BY PublishedType, PublishedMonotone DEF CacheIsNewest, Types, KeySets
  <1> QED
    BY <1>1, <1>2, <1>3, <1>4, <1>5

(* The provider rotates its keys. *)
LEMMA RotateInv == ASSUME NEW d \in Docs PROVE Inv /\ Rotate(d) => Inv'
  <1> SUFFICES ASSUME Inv, Rotate(d) PROVE Inv'
    OBVIOUS
  <1> USE TimeAssumption DEF Inv, Rotate, cache
  <1>1. Types'
    BY PublishedType DEF Types
  <1>2. OneFetch' /\ FetchInTime' /\ NoStrayAnswer'
    BY DEF OneFetch, FetchInTime, NoStrayAnswer
  <1>3. LookupOfKey'
    BY DEF LookupOfKey
  <1>4. PastIsPast'
    BY PublishedType DEF PastIsPast, Types
  <1>5. AnswerIsNews'
    <2> SUFFICES ASSUME NEW c \in Callers, pc[c] = "fetch", answer[c] # NoKeys
                 PROVE  /\ begun[c] <= asof[c]
                        /\ asof[c] <= now
                        /\ newest <= asof[c]
                        /\ answer[c] # Broken =>
                             /\ \A k \in answer[c] : LastPublished(k)' >= asof[c]
                             /\ kid[c] \notin answer[c] => absent'[c]
      BY DEF AnswerIsNews
    <2>1. answer[c] # Broken => answer[c] \subseteq Kids
      BY DEF Types, KeySets
    <2> QED
      BY <2>1, PublishedType, PublishedMonotone DEF AnswerIsNews, Types
  <1>6. CacheIsNewest'
    BY PublishedType, PublishedMonotone DEF CacheIsNewest, Types, KeySets
  <1> QED
    BY <1>1, <1>2, <1>3, <1>4, <1>5, <1>6

(* The endpoint answers. *)
LEMMA ServeInv == ASSUME NEW c \in Callers PROVE Inv /\ Serve(c) => Inv'
  <1> SUFFICES ASSUME Inv, Serve(c) PROVE Inv'
    OBVIOUS
  <1> USE DEF Inv, Serve, endpoint, cache
  <1>1. Types'
    BY DocsAssumption DEF Types, KeySets
  <1>2. OneFetch' /\ LookupOfKey' /\ NoStrayAnswer' /\ PastIsPast' /\ FetchInTime'
    BY DEF OneFetch, LookupOfKey, NoStrayAnswer, PastIsPast, FetchInTime, Published, Types
  <1>3. \A k \in Kids : LastPublished(k)' = LastPublished(k)
    BY DEF LastPublished, Published
  <1>4. AnswerIsNews'
    <2> SUFFICES ASSUME NEW a \in Callers, pc[a] = "fetch", answer'[a] # NoKeys
                 PROVE  /\ begun[a] <= asof'[a]
                        /\ asof'[a] <= now
                        /\ newest <= asof'[a]
                        /\ answer'[a] # Broken =>
                             /\ \A k \in answer'[a] : LastPublished(k)' >= asof'[a]
                             /\ kid[a] \notin answer'[a] => absent[a]
      BY DEF AnswerIsNews
    <2>1. CASE a = c
      <3>1. answer'[a] = doc /\ asof'[a] = now
        BY <2>1 DEF Types
      <3>2. doc # Broken => doc = Published /\ \A k \in doc : k \in Kids /\ LastPublished(k) = now
        BY DocsAssumption DEF Types, Published, LastPublished
      <3> QED
        BY <2>1, <3>1, <3>2, <1>3 DEF FetchInTime, PastIsPast, LookupOfKey, Looking, Types
    <2>2. a = c
      BY DEF OneFetch
    <2> QED
      BY <2>1, <2>2
  <1>5. CacheIsNewest'
    BY <1>3 DEF CacheIsNewest, Types, KeySets
  <1> QED
    BY <1>1, <1>2, <1>4, <1>5

(* A token arrives. *)
LEMMA BeginLookupInv ==
  ASSUME NEW c \in Callers, NEW k \in Kids \cup {NoKid}
  PROVE  Inv /\ BeginLookup(c, k) => Inv'
  <1> SUFFICES ASSUME Inv, BeginLookup(c, k) PROVE Inv'
    OBVIOUS
  <1> USE DEF Inv, BeginLookup, endpoint, cache, Ended, Accepting, Looking
  <1>1. Types'
    BY DEF Types
  <1>2. OneFetch' /\ NoStrayAnswer' /\ PastIsPast' /\ FetchInTime'
    BY DEF OneFetch, NoStrayAnswer, PastIsPast, FetchInTime, Types
  <1>3. LookupOfKey'
    BY DEF LookupOfKey, Published, Types
  <1>4. AnswerIsNews'
    BY DEF AnswerIsNews, LastPublished, Published, Types
  <1>5. CacheIsNewest'
    BY DEF CacheIsNewest, LastPublished, Published
  <1> QED
    BY <1>1, <1>2, <1>3, <1>4, <1>5

(* A lookup that ends without a new set of keys in the cache. *)
LEMMA ReturnInv ==
  ASSUME NEW c \in Callers, NEW result \in Ended, Inv, Return(c, result),
         holder' = IF pc[c] = "fetch" THEN Nobody ELSE holder,
         UNCHANGED <<endpoint, now, cache, newest>>
  PROVE  Inv'
  <1> USE DEF Inv, Return, endpoint, cache, Ended, Accepting, Looking
  <1>1. Types'
    BY DEF Types, KeySets
  <1>2. OneFetch' /\ NoStrayAnswer' /\ PastIsPast' /\ FetchInTime'
    BY DEF OneFetch, NoStrayAnswer, PastIsPast, FetchInTime, Types
  <1>3. LookupOfKey'
    BY DEF LookupOfKey, Published, Types
  <1>4. AnswerIsNews'
    BY DEF AnswerIsNews, LastPublished, Published, Types
  <1>5. CacheIsNewest'
    BY DEF CacheIsNewest, LastPublished, Published
  <1> QED
    BY <1>1, <1>2, <1>3, <1>4, <1>5

(* The lookup under the read lock. *)
LEMMA ReadCacheInv == ASSUME NEW c \in Callers PROVE Inv /\ ReadCache(c) => Inv'
  <1> SUFFICES ASSUME Inv, ReadCache(c) PROVE Inv'
    OBVIOUS
  <1>1. CASE cached(kid[c])
    BY <1>1, ReturnInv DEF ReadCache, Ended, Accepting
  <1>2. CASE ~cached(kid[c])
    <2> USE <1>2 DEF Inv, ReadCache, endpoint, cache, Ended, Accepting, Looking
    <2>1. Types'
      BY DEF Types
    <2>2. OneFetch' /\ NoStrayAnswer' /\ PastIsPast' /\ FetchInTime'
      BY DEF OneFetch, NoStrayAnswer, PastIsPast, FetchInTime, Types
    <2>3. LookupOfKey'
      BY DEF LookupOfKey, Published, Types
    <2>4. AnswerIsNews'
      BY DEF AnswerIsNews, LastPublished, Published, Types
    <2>5. CacheIsNewest'
      BY DEF CacheIsNewest, LastPublished, Published
    <2> QED
      BY <2>1, <2>2, <2>3, <2>4, <2>5
  <1> QED
    BY <1>1, <1>2

(* The second lookup, under the write lock, and the start of a fetch. *)
LEMMA AcquireInv == ASSUME NEW c \in Callers PROVE Inv /\ Acquire(c) => Inv'
  <1> SUFFICES ASSUME Inv, Acquire(c) PROVE Inv'
    OBVIOUS
  <1>1. CASE cached(kid[c])
    BY <1>1, ReturnInv DEF Acquire, Ended, Accepting
  <1>2. CASE ~cached(kid[c])
    <2> USE <1>2 DEF Inv, Acquire, endpoint, cache, Ended, Accepting, Looking
    <2>1. Types'
      BY DEF Types
    <2>2. OneFetch' /\ NoStrayAnswer' /\ PastIsPast'
      BY KidAssumption DEF OneFetch, NoStrayAnswer, PastIsPast, Types
    <2>3. FetchInTime'
      BY TimeAssumption DEF FetchInTime, Types
    <2>4. LookupOfKey'
      BY DEF LookupOfKey, Published, Types
    <2>5. AnswerIsNews'
      BY DEF AnswerIsNews, NoStrayAnswer, LastPublished, Published, Types
    <2>6. CacheIsNewest'
      BY DEF CacheIsNewest, LastPublished, Published
    <2> QED
      BY <2>1, <2>2, <2>3, <2>4, <2>5, <2>6
  <1> QED
    BY <1>1, <1>2

(* The answer is cached: no other fetch can have been under way. *)
LEMMA FetchOkInv == ASSUME NEW c \in Callers PROVE Inv /\ FetchOk(c) => Inv'
  <1> SUFFICES ASSUME Inv, FetchOk(c) PROVE Inv'
    OBVIOUS
  <1> USE TimeAssumption DEF Inv, FetchOk, Return, Cache, endpoint, Ended, Accepting, Looking
  <1>1. /\ answer[c] \subseteq Kids
        /\ newest <= asof[c]
        /\ now - Timeout <= asof[c]
        /\ asof[c] <= now
        /\ \A k \in answer[c] : LastPublished(k) >= asof[c]
    BY DEF AnswerIsNews, FetchInTime, Parses, Types, KeySets
  <1>2. newest' = asof[c]
    BY <1>1 DEF Types
  <1>3. Types'
    BY <1>1, <1>2 DEF Types, KeySets
  <1>4. \A a \in Callers : pc'[a] # "fetch"
    BY DEF OneFetch, Types
  <1>5. OneFetch' /\ FetchInTime' /\ AnswerIsNews'
    BY <1>4 DEF OneFetch, FetchInTime, AnswerIsNews
  <1>6. NoStrayAnswer' /\ PastIsPast'
    BY <1>1, <1>2 DEF NoStrayAnswer, PastIsPast, Types
  <1>7. LookupOfKey'
    BY DEF LookupOfKey, Published, Types
  <1>8. CacheIsNewest'
    BY <1>1, <1>2 DEF CacheIsNewest, LastPublished, Published
  <1> QED
    BY <1>3, <1>5, <1>6, <1>7, <1>8

(* The fetch fails, and the old keys stay. *)
LEMMA FetchFailsInv == ASSUME NEW c \in Callers PROVE Inv /\ FetchFails(c) => Inv'
  BY ReturnInv DEF FetchFails, Ended, Accepting

(* Every step preserves the invariant. *)
LEMMA NextInv == Inv /\ [Next]_vars => Inv'
  <1> SUFFICES ASSUME Inv, [Next]_vars PROVE Inv'
    OBVIOUS
  <1>1. CASE Tick
    BY <1>1, TickInv
  <1>2. ASSUME NEW d \in Docs, Rotate(d) PROVE Inv'
    BY <1>2, RotateInv
  <1>3. ASSUME NEW c \in Callers, Serve(c) PROVE Inv'
    BY <1>3, ServeInv
  <1>4. ASSUME NEW c \in Callers, Step(c) PROVE Inv'
    BY <1>4, ReadCacheInv, AcquireInv, FetchOkInv, FetchFailsInv DEF Step
  <1>5. ASSUME NEW c \in Callers, NEW k \in Kids \cup {NoKid}, BeginLookup(c, k) PROVE Inv'
    BY <1>5, BeginLookupInv
  <1>6. CASE UNCHANGED vars
    BY <1>6 DEF vars, endpoint, cache, Inv, Types, OneFetch, LookupOfKey, PastIsPast,
       FetchInTime, AnswerIsNews, NoStrayAnswer, CacheIsNewest, LastPublished, Published
  <1> QED
    BY <1>1, <1>2, <1>3, <1>4, <1>5, <1>6 DEF Next

(* The invariant holds throughout: one fetch at a time, whose answer is    *)
(* newer than everything that is cached.                                   *)
THEOREM JWKSInvariant == Spec => []Inv
  BY InitInv, NextInv, PTL DEF Spec

-----------------------------------------------------------------------------
(* The steps by which a lookup ends, and what they may rely on. *)
LEMMA AcceptingStep ==
  ASSUME Inv, [Next]_vars, NEW c \in Callers, Accepts(c)
  PROVE  \/ cached(kid[c]) /\ kid[c] \in Kids /\ newest' = newest
         \/ FetchOk(c) /\ kid[c] \in answer[c]
         \/ FetchFails(c) /\ kid[c] \in Kids /\ pc'[c] = "fallback" /\ keys # NoKeys /\ kid[c] \in keys
  <1> USE DEF Accepts, Accepting
  <1>1. ASSUME NEW a \in Callers, Step(a)
        PROVE  a = c
    BY <1>1 DEF Step, ReadCache, Acquire, FetchOk, FetchFails, Return, Inv, Types
  <1>2. CASE Step(c)
    BY <1>2 DEF Step, ReadCache, Acquire, FetchOk, FetchFails, Return,
       Inv, Types, LookupOfKey, Looking
  <1>3. CASE Tick \/ \E d \in Docs : Rotate(d)
    BY <1>3 DEF Tick, Rotate
  <1>4. ASSUME NEW a \in Callers, Serve(a) PROVE FALSE
    BY <1>4 DEF Serve
  <1>5. ASSUME NEW a \in Callers, NEW k \in Kids \cup {NoKid}, BeginLookup(a, k) PROVE FALSE
    BY <1>5 DEF BeginLookup, Inv, Types
  <1>6. CASE UNCHANGED vars
    BY <1>6 DEF vars
  <1> QED
    BY <1>1, <1>2, <1>3, <1>4, <1>5, <1>6 DEF Next

(* A key that the cache vouches for was published within the refresh       *)
(* interval and the time of one fetch.                                     *)
THEOREM KeysAreFresh == Spec => FreshKey
  <1>1. ASSUME Inv, [Next]_vars, NEW c \in Callers, Accepts(c), pc'[c] = "ok"
        PROVE  LastPublished(kid[c]) >= now - (Refresh + Timeout)
    <2> USE <1>1, TimeAssumption DEF Inv, Types
    <2>1. CASE cached(kid[c]) /\ kid[c] \in Kids
      BY <2>1, PublishedType DEF cached, CacheIsNewest
    <2>2. CASE FetchOk(c) /\ kid[c] \in answer[c]
      <3>1. LastPublished(kid[c]) >= asof[c] /\ asof[c] >= now - Timeout
        BY <2>2 DEF FetchOk, Parses, AnswerIsNews, FetchInTime
      <3>2. kid[c] \in Kids
        BY <2>2 DEF FetchOk, LookupOfKey, Looking
      <3> QED
        BY <3>1, <3>2, PublishedType
    <2> QED
      BY <2>1, <2>2, AcceptingStep
  <1>2. Inv /\ [Next]_vars =>
          [\A c \in Callers : Accepts(c) /\ pc'[c] = "ok" =>
             LastPublished(kid[c]) >= now - (Refresh + Timeout)]_vars
    BY <1>1
  <1> QED
    BY <1>2, JWKSInvariant, PTL DEF Spec, FreshKey

(* A withdrawn key is not accepted again once newer keys were cached, be   *)
(* it by the fallback, after waiting for the lock or by a late answer.     *)
THEOREM WithdrawnKeysStayOut == Spec => WithdrawnStaysOut
  <1>1. ASSUME Inv, [Next]_vars, NEW c \in Callers, Accepts(c)
        PROVE  LastPublished(kid[c]) >= newest'
    <2> USE <1>1 DEF Inv, Types
    <2>1. CASE cached(kid[c]) /\ newest' = newest
      BY <2>1 DEF cached, CacheIsNewest
    <2>2. CASE FetchOk(c) /\ kid[c] \in answer[c]
      <3>1. LastPublished(kid[c]) >= asof[c] /\ asof[c] >= newest
        BY <2>2 DEF FetchOk, Parses, AnswerIsNews
      <3> QED
        BY <2>2, <3>1 DEF FetchOk, Cache
    <2>3. CASE FetchFails(c) /\ keys # NoKeys /\ kid[c] \in keys
      BY <2>3 DEF FetchFails, CacheIsNewest
    <2> QED
      BY <2>1, <2>2, <2>3, AcceptingStep
  <1>2. Inv /\ [Next]_vars =>
          [\A c \in Callers : Accepts(c) => LastPublished(kid[c]) >= newest']_vars
    BY <1>1
  <1> QED
    BY <1>2, JWKSInvariant, PTL DEF Spec, WithdrawnStaysOut

(* A key that was published all through a lookup is found by it. *)
THEOREM RotationsAreSeen == Spec => RotationIsSeen
  <1>1. ASSUME Inv, [Next]_vars, NEW c \in Callers, pc[c] # "unknown", pc'[c] = "unknown"
        PROVE  absent[c]
    <2> USE <1>1 DEF Inv, Types
    <2>1. ASSUME NEW a \in Callers, Step(a)
          PROVE  a = c /\ FetchOk(c) /\ kid[c] \notin answer[c]
      BY <2>1 DEF Step, ReadCache, Acquire, FetchOk, FetchFails, Return
    <2>2. CASE FetchOk(c) /\ kid[c] \notin answer[c]
      BY <2>2 DEF FetchOk, Parses, AnswerIsNews
    <2>3. ~Tick /\ ~(\E d \in Docs : Rotate(d)) /\ ~UNCHANGED vars
      BY DEF Tick, Rotate, vars
    <2>4. ASSUME NEW a \in Callers, Serve(a) PROVE FALSE
      BY <2>4 DEF Serve
    <2>5. ASSUME NEW a \in Callers, NEW k \in Kids \cup {NoKid}, BeginLookup(a, k) PROVE FALSE
      BY <2>5 DEF BeginLookup
    <2> QED
      BY <2>1, <2>2, <2>3, <2>4, <2>5 DEF Next
  <1>2. Inv /\ [Next]_vars =>
          [\A c \in Callers : pc[c] # "unknown" /\ pc'[c] = "unknown" => absent[c]]_vars
    BY <1>1
  <1> QED
    BY <1>2, JWKSInvariant, PTL DEF Spec, RotationIsSeen
=============================================================================
