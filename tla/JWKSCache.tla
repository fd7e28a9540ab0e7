------------------------------ MODULE JWKSCache -------------------------------
(***************************************************************************)
(* jwksCache: the public keys of the identity provider, fetched from its   *)
(* JWKS endpoint and shared by the requests whose tokens are verified.  The*)
(* provider rotates its keys, fetches take time and fail, and requests wait*)
(* for each other on the cache's lock.                                     *)
(***************************************************************************)
EXTENDS Integers

CONSTANTS
  Callers,       \* the goroutines that serve requests, one token after another
  Nobody,        \* the holder of a free lock
  Kids,          \* key ids
  NoKid,         \* a token whose header has no kid, or is not signed by RSA
  NoKeys,        \* keys is nil
  Broken,        \* an answer that is not a JWKS, or has a key that is not valid
  Docs,          \* what the endpoint can serve: sets of key ids, or Broken
  Refresh,       \* the refresh interval; 0 turns the caching off
  Timeout,       \* the timeout of the HTTP client
  MaxTime,       \* bound on the clock
  MaxRotations   \* bound on the changes of the endpoint

ASSUME TimeAssumption == Refresh \in Nat /\ Timeout \in Nat /\ MaxTime \in Nat
ASSUME KidAssumption == NoKid \notin Kids /\ Nobody \notin Callers
ASSUME DocAssumption == NoKeys # Broken /\ \A K \in SUBSET Kids : K # NoKeys /\ K # Broken
ASSUME DocsAssumption == \A d \in Docs : d = Broken \/ d \subseteq Kids

VARIABLES
  doc,           \* what the endpoint serves: the kids of its RSA signing keys
  rotations,     \* how often doc changed
  now,           \* the clock
  keys,          \* the kids of the cached keys
  lastFetch,     \* when keys was assigned
  holder,        \* who holds the write lock
  pc,            \* pc[c]: "idle", "read", "lock", "fetch" or how the lookup ended
  kid,           \* kid[c]: the key id of c's token
  begun,         \* begun[c]: when c sent its request
  answer,        \* answer[c]: what the endpoint answered, NoKeys before it did
  asof,          \* history: when the endpoint answered c
  newest,        \* history: when the endpoint served the newest keys ever cached
  gone,          \* history: gone[k] is when k was withdrawn
  absent         \* history: whether c's key was unpublished at any time of its call

cache == <<keys, lastFetch>>
endpoint == <<doc, rotations, gone>>
vars == <<endpoint, now, cache, holder, pc, kid, begun, answer, asof, newest, absent>>

Never == -(Refresh + Timeout) - 1
Accepting == {"ok", "fallback"}
Ended == Accepting \cup {"refused", "unknown", "failed"}

Published == IF doc = Broken THEN {} ELSE doc
LastPublished(k) == IF k \in Published THEN now ELSE gone[k]

Init ==
  /\ doc \in Docs
  /\ rotations = 0
  /\ now = 0
  /\ keys = NoKeys
  /\ lastFetch = Never
  /\ holder = Nobody
  /\ pc = [c \in Callers |-> "idle"]
  /\ kid = [c \in Callers |-> NoKid]
  /\ begun = [c \in Callers |-> 0]
  /\ answer = [c \in Callers |-> NoKeys]
  /\ asof = [c \in Callers |-> 0]
  /\ newest = Never
  /\ gone = [k \in Kids |-> Never]
  /\ absent = [c \in Callers |-> FALSE]

-----------------------------------------------------------------------------
(* The HTTP client gives up after its timeout, so that no fetch is older. *)
Tick ==
  /\ now < MaxTime
  /\ \A c \in Callers : pc[c] = "fetch" => now < begun[c] + Timeout
  /\ now' = now + 1
  /\ UNCHANGED <<endpoint, cache, holder, pc, kid, begun, answer, asof, newest, absent>>

(* The identity provider publishes, withdraws or breaks its keys (external).*)
Rotate(d) ==
  /\ rotations < MaxRotations
  /\ rotations' = rotations + 1
  /\ doc' = d
  /\ gone' = [k \in Kids |-> LastPublished(k)]
  /\ absent' = [c \in Callers |-> absent[c] \/ (kid[c] \in Kids /\ kid[c] \notin Published')]
  /\ UNCHANGED <<now, cache, holder, pc, kid, begun, answer, asof, newest>>

(* The endpoint serves the request of c (external). *)
Serve(c) ==
  /\ pc[c] = "fetch"
  /\ answer[c] = NoKeys
  /\ answer' = [answer EXCEPT ![c] = doc]
  /\ asof' = [asof EXCEPT ![c] = now]
  /\ UNCHANGED <<endpoint, now, cache, holder, pc, kid, begun, newest, absent>>

-----------------------------------------------------------------------------
(* getKey returns, and what it held of the lookup is gone. *)
Return(c, result) ==
  /\ pc' = [pc EXCEPT ![c] = result]
  /\ kid' = [kid EXCEPT ![c] = NoKid]
  /\ begun' = [begun EXCEPT ![c] = 0]
  /\ answer' = [answer EXCEPT ![c] = NoKeys]
  /\ asof' = [asof EXCEPT ![c] = 0]
  /\ absent' = [absent EXCEPT ![c] = FALSE]

(* The Keyfunc: a token that is not signed by RSA or has no kid is refused.*)
BeginLookup(c, k) ==
  /\ pc[c] \in {"idle"} \cup Ended
  /\ kid' = [kid EXCEPT ![c] = k]
  /\ pc' = [pc EXCEPT ![c] = IF k = NoKid THEN "refused" ELSE "read"]
  /\ absent' = [absent EXCEPT ![c] = k \in Kids \ Published]
  /\ UNCHANGED <<endpoint, now, cache, holder, begun, answer, asof, newest>>

(* Mutant of cached: the age of the keys is not looked at. *)
cachedForEver(k) == Refresh > 0 /\ keys # NoKeys /\ k \in keys

cached(k) ==
  /\ Refresh > 0
  /\ keys # NoKeys
  /\ now - lastFetch < Refresh
  /\ k \in keys

(* Mutant of ReadCache: fresh keys without the kid are an answer, too. *)
ReadCacheOnly(c) ==
  /\ pc[c] = "read"
  /\ holder = Nobody
  /\ IF keys # NoKeys /\ now - lastFetch < Refresh
       THEN Return(c, IF kid[c] \in keys THEN "ok" ELSE "unknown")
       ELSE /\ pc' = [pc EXCEPT ![c] = "lock"]
            /\ UNCHANGED <<kid, begun, answer, asof, absent>>
  /\ UNCHANGED <<endpoint, now, cache, holder, newest>>

(* Under the read lock, which waits for the writer. *)
ReadCache(c) ==
  /\ pc[c] = "read"
  /\ holder = Nobody
  /\ IF cached(kid[c])
       THEN Return(c, "ok")
       ELSE /\ pc' = [pc EXCEPT ![c] = "lock"]
            /\ UNCHANGED <<kid, begun, answer, asof, absent>>
  /\ UNCHANGED <<endpoint, now, cache, holder, newest>>

(* Mutant of Acquire: the fetch is made without the lock. *)
AcquireNothing(c) ==
  /\ pc[c] = "lock"
  /\ IF cached(kid[c])
       THEN Return(c, "ok")
       ELSE /\ pc' = [pc EXCEPT ![c] = "fetch"]
            /\ begun' = [begun EXCEPT ![c] = now]
            /\ UNCHANGED <<kid, answer, asof, absent>>
  /\ UNCHANGED <<endpoint, now, cache, holder, newest>>

(* The write lock is taken, the cache is looked at again, and if it still  *)
(* has no answer the request goes out with the lock held.                  *)
Acquire(c) ==
  /\ pc[c] = "lock"
  /\ holder = Nobody
  /\ IF cached(kid[c])
       THEN Return(c, "ok") /\ UNCHANGED holder
       ELSE /\ pc' = [pc EXCEPT ![c] = "fetch"]
            /\ holder' = c
            /\ begun' = [begun EXCEPT ![c] = now]
            /\ UNCHANGED <<kid, answer, asof, absent>>
  /\ UNCHANGED <<endpoint, now, cache, newest>>

(* fetch with parseJWKSKeys: one broken key or no usable key is an error. *)
Parses(d) == d # Broken /\ d # {}

(* The keys that were served at time t are cached. *)
Cache(ks, t) ==
  /\ keys' = ks
  /\ lastFetch' = now
  /\ newest' = IF t > newest THEN t ELSE newest

FetchOk(c) ==
  /\ pc[c] = "fetch"
  /\ answer[c] # NoKeys
  /\ Parses(answer[c])
  /\ Cache(answer[c], asof[c])
  /\ Return(c, IF kid[c] \in answer[c] THEN "ok" ELSE "unknown")
  /\ holder' = Nobody
  /\ UNCHANGED <<endpoint, now>>

(* Mutant of FetchFails: the error path keeps the lock. *)
FetchFailsLocked(c) ==
  /\ pc[c] = "fetch"
  /\ answer[c] = NoKeys \/ ~Parses(answer[c])
  /\ Return(c, IF keys # NoKeys /\ kid[c] \in keys THEN "fallback" ELSE "failed")
  /\ UNCHANGED <<endpoint, now, cache, holder, newest>>

(* The request fails or times out, or the answer is of no use: the keys    *)
(* of before serve, however old they are.                                  *)
FetchFails(c) ==
  /\ pc[c] = "fetch"
  /\ answer[c] = NoKeys \/ ~Parses(answer[c])
  /\ Return(c, IF keys # NoKeys /\ kid[c] \in keys THEN "fallback" ELSE "failed")
  /\ holder' = Nobody
  /\ UNCHANGED <<endpoint, now, cache, newest>>

-----------------------------------------------------------------------------
Step(c) == ReadCache(c) \/ Acquire(c) \/ FetchOk(c) \/ FetchFails(c)

Next ==
  \/ Tick
  \/ \E d \in Docs : Rotate(d)
  \/ \E c \in Callers : Serve(c) \/ Step(c)
  \/ \E c \in Callers, k \in Kids \cup {NoKid} : BeginLookup(c, k)

(***************************************************************************)
(* The goroutine of a request runs, RWMutex hands the lock to everyone who *)
(* waits for it, and the timeout of the HTTP client ends a fetch that the  *)
(* endpoint does not answer.                                               *)
(***************************************************************************)
Fairness == \A c \in Callers : SF_vars(Step(c))

Spec == Init /\ [][Next]_vars /\ Fairness

-----------------------------------------------------------------------------
Accepts(c) == pc[c] \notin Accepting /\ pc'[c] \in Accepting

(* A key that the cache vouches for was published within the refresh       *)
(* interval and the time of one fetch; only an endpoint that fails at the  *)
(* very moment of the lookup lets an older key pass.                       *)
FreshKey ==
  [][\A c \in Callers : Accepts(c) /\ pc'[c] = "ok" =>
       LastPublished(kid[c]) >= now - (Refresh + Timeout)]_vars

(* Once keys have been cached that were served after a key was withdrawn,  *)
(* the withdrawn key is not accepted again, be it by the fallback, by a    *)
(* request that waited for the lock or by a slow answer that comes late.   *)
WithdrawnStaysOut ==
  [][\A c \in Callers : Accepts(c) => LastPublished(kid[c]) >= newest']_vars

(* A token whose key was published all through its lookup is never told    *)
(* that the key is unknown: a rotated key is found at once, whatever is    *)
(* cached and whoever fetched it.                                          *)
RotationIsSeen ==
  [][\A c \in Callers : pc[c] # "unknown" /\ pc'[c] = "unknown" => absent[c]]_vars

(* Every lookup ends: the lock is given back on every path of getKey. *)
EveryLookupEnds == \A c \in Callers : pc[c] = "read" ~> pc[c] \in Ended
=============================================================================
