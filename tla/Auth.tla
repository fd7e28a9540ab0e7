--------------------------------- MODULE Auth ---------------------------------
(***************************************************************************)
(* Who a request to the admin UI comes from: withAuth with its three ways  *)
(* (a JWT, an access token that the identity provider vouches for, a header*)
(* of a trusted proxy), the cache of the provider's answers, and the rights*)
(* that a request takes along.  Admin continues where this module ends.    *)
(***************************************************************************)
EXTENDS Naturals, Policy, Config

CONSTANTS
  Requests,     \* HTTP requests
  Deployments,  \* [cfg, asks, trees, horizon]: settings, what users send, what the vault
                \* holds and what other pods make of it, how long it runs
  Claims,       \* what every bearer token says, see below
  Policies,     \* what PermissionManager can hold
  NoToken, NoAsk, NoAnswer, NoRights, NoLogin,
  TTL,          \* ttl of userInfoCache
  MaxDelay,     \* bound on the way of a UserInfo answer, for which the code has none
  MaxTime,      \* bound on the clock
  MaxChanges    \* bound on the changes of the policy and of the vault

(***************************************************************************)
(* A token: whether it has the shape of a JWT, is signed by a key of the   *)
(* provider, from when (nbf, 0 without the claim) and until when (exp, 0   *)
(* without it) it is valid, aud, iss, the claim that names the user,       *)
(* email_verified ("true", "false" or "none"), and whether the UserInfo    *)
(* endpoint takes it for an access token.                                  *)
(***************************************************************************)
Tokens == DOMAIN Claims
Never == MaxTime + 1     \* later than every moment

ASSUME TimeAssumption ==
  /\ {TTL, MaxDelay, MaxTime} \subseteq Nat /\ TTL > 0
  /\ \A d \in Deployments : d.horizon \in 0..MaxTime
ASSUME BearerAssumption ==
  \A d \in Deployments : \A a \in d.asks : a.bearer \in Tokens \cup {NoToken}
ASSUME PatternAssumption ==
  \A q \in Policies : \A u \in Users :
    q.users[u] # NoEntry => \A pattern \in q.users[u] : pattern \in Seq(STRING)
ASSUME RightsAssumption ==
  \A q \in Policies :
    \A u \in {Claims[t].user : t \in Tokens}
              \cup {a.user : a \in UNION {d.asks : d \in Deployments}} :
      /\ GetUserPermissions(q, u) # NoRights
      /\ [GetUserPermissions(q, u) EXCEPT !.isAdmin = TRUE] # NoRights

VARIABLES
  deployment,   \* which of Deployments this is
  clock,
  revokedAt,    \* revokedAt[t]: when the provider withdrew t, or Never
  cache,        \* userInfoCache: cache[t] is [user, expires] or NoEntry
  policy,       \* the policy of PermissionManager
  changes,      \* how often the policy or the vault changed
  pc, ask,      \* where a request stands, and what it is
  lookup,       \* lookup[r]: the answer on its way to r, [ok, at], or NoAnswer
  rights,       \* rights[r]: UserPermissions, or NoRights (nil)
  login,        \* history: how and when r was let in
  granted       \* history: the policies in force since r arrived

cfg == deployment.cfg
world == <<deployment, clock, revokedAt, policy, changes>>
authVars == <<world, cache, pc, ask, lookup, rights, login, granted>>

AuthInit ==
  /\ deployment \in {d \in Deployments : ~Refused(d.cfg)}
  /\ clock = 0
  /\ revokedAt = [t \in Tokens |-> Never]
  /\ cache = [t \in Tokens |-> NoEntry]
  /\ policy \in Policies
  /\ changes = 0
  /\ pc = [r \in Requests |-> "idle"]
  /\ ask = [r \in Requests |-> NoAsk]
  /\ lookup = [r \in Requests |-> NoAnswer]
  /\ rights = [r \in Requests |-> NoRights]
  /\ login = [r \in Requests |-> NoLogin]
  /\ granted = [r \in Requests |-> {}]

-----------------------------------------------------------------------------
(* The world: time passes, the provider withdraws a token, Watch reloads.  *)
Tick ==
  /\ clock < deployment.horizon
  /\ \A r \in Requests : pc[r] = "answered" => clock < lookup[r].at + MaxDelay
  /\ clock' = clock + 1
  /\ UNCHANGED <<deployment, revokedAt, policy, changes, cache, pc, ask, lookup, rights, login,
                 granted>>

Revoke(t) ==
  /\ t \in {a.bearer : a \in deployment.asks} /\ Claims[t].access
  /\ revokedAt[t] = Never
  /\ revokedAt' = [revokedAt EXCEPT ![t] = clock]
  /\ UNCHANGED <<deployment, clock, policy, changes, cache, pc, ask, lookup, rights, login,
                 granted>>

Ended == {"idle", "denied", "done", "failed"}
ChangePolicy(q) ==
  /\ cfg.permFile
  /\ q # policy
  /\ changes < MaxChanges
  /\ changes' = changes + 1
  /\ policy' = q
  /\ granted' = [r \in Requests |-> IF pc[r] \in Ended THEN granted[r] ELSE granted[r] \cup {q}]
  /\ UNCHANGED <<deployment, clock, revokedAt, cache, pc, ask, lookup, rights, login>>

-----------------------------------------------------------------------------
(* The claims of a JWT whose signature and times jwt.Parse has checked.    *)
emailVerified(v) == v = "true"
audienceMatches(c, expected) == expected \in c.aud
issuerMatches(c, expected) == c.iss = expected

ValidateJWT(t) ==
  LET c == Claims[t]
  IN  /\ c.signed
      /\ c.nbf <= clock /\ clock < c.exp
      /\ cfg.audience # "" => audienceMatches(c, cfg.audience)
      /\ cfg.issuer # "" => issuerMatches(c, cfg.issuer)
      /\ c.user # ""
      /\ cfg.userClaim = "email" => emailVerified(c.verified)

bearer(r) == ask[r].bearer
Proven(r) ==
  /\ bearer(r) # NoToken
  /\ cfg.jwt # {} /\ Claims[bearer(r)].jwt
  /\ ValidateJWT(bearer(r))

(* The token did not pass as a JWT: it is not good, or there was no way to *)
(* tell, because the lookup of its key at JWT_JWKS_URL failed.             *)
NotProven(r) == Proven(r) => "url" \in cfg.jwt

(* EnableUserInfoAuth was called: discovery against JWT_ISSUER succeeded. *)
UserInfoEnabled == cfg.issuer # "" /\ cfg.discovered

-----------------------------------------------------------------------------
Arrive(r, a) ==
  /\ pc[r] = "idle"
  /\ a \in deployment.asks
  /\ pc' = [pc EXCEPT ![r] = "auth"]
  /\ ask' = [ask EXCEPT ![r] = a]
  /\ granted' = [granted EXCEPT ![r] = {policy}]
  /\ UNCHANGED <<world, cache, lookup, rights, login>>

(* The request goes on to its handler with the rights up. *)
Enter(r, up, via) ==
  /\ pc' = [pc EXCEPT ![r] = "ready"]
  /\ rights' = [rights EXCEPT ![r] = up]
  /\ login' = [login EXCEPT ![r] = [via |-> via, at |-> clock]]
  /\ lookup' = [lookup EXCEPT ![r] = NoAnswer]
  /\ UNCHANGED <<world, ask, granted>>

(* Without a permission manager everybody is let in, in development mode;  *)
(* in any other, where main refuses to start, nobody would be.             *)
SkipAuth(r) ==
  /\ pc[r] = "auth"
  /\ ~cfg.permFile
  /\ cfg.dev
  /\ Enter(r, NoRights, "dev")
  /\ UNCHANGED cache

WithHeader(r, up) ==
  IF cfg.adminHeader /\ cfg.adminValue # "" /\ ask[r].admin = cfg.adminValue
    THEN [up EXCEPT !.isAdmin = TRUE] ELSE up

(* Mutant of AcceptJWT: the admin header counts next to a JWT, too. *)
AcceptJWTAndHeader(r) ==
  /\ pc[r] = "auth"
  /\ cfg.permFile
  /\ Proven(r)
  /\ Enter(r, WithHeader(r, GetUserPermissions(policy, Claims[bearer(r)].user)), "jwt")
  /\ UNCHANGED cache

AcceptJWT(r) ==
  /\ pc[r] = "auth"
  /\ cfg.permFile
  /\ Proven(r)
  /\ Enter(r, GetUserPermissions(policy, Claims[bearer(r)].user), "jwt")
  /\ UNCHANGED cache

-----------------------------------------------------------------------------
(* ValidateAccessToken, for a bearer token that did not pass as a JWT.     *)
AsksProvider(r) ==
  /\ pc[r] = "auth"
  /\ cfg.permFile
  /\ bearer(r) # NoToken
  /\ NotProven(r)
  /\ UserInfoEnabled

(* Mutant of get: an entry never expires. *)
getForEver(t) == cache[t] # NoEntry

get(t) == cache[t] # NoEntry /\ clock <= cache[t].expires

CacheHit(r) ==
  /\ AsksProvider(r)
  /\ get(bearer(r))
  /\ Enter(r, GetUserPermissions(policy, cache[bearer(r)].user), "token")
  /\ UNCHANGED cache

CacheMiss(r) ==
  /\ AsksProvider(r)
  /\ ~get(bearer(r))
  /\ cache' = [cache EXCEPT ![bearer(r)] = NoEntry]
  /\ pc' = [pc EXCEPT ![r] = "asking"]
  /\ UNCHANGED <<world, ask, lookup, rights, login, granted>>

(* The UserInfo endpoint (external) looks at the token, or fails. *)
UserInfo(r) ==
  /\ pc[r] = "asking"
  /\ \E ok \in {FALSE, Claims[bearer(r)].access /\ revokedAt[bearer(r)] = Never} :
       lookup' = [lookup EXCEPT ![r] = [ok |-> ok, at |-> clock]]
  /\ pc' = [pc EXCEPT ![r] = "answered"]
  /\ UNCHANGED <<world, cache, ask, rights, login, granted>>

(* Mutant of Vouched: email_verified is not looked at. *)
VouchedAnyhow(r) == lookup[r].ok /\ Claims[bearer(r)].user # ""

Vouched(r) ==
  /\ lookup[r].ok
  /\ Claims[bearer(r)].user # ""
  /\ cfg.userClaim = "email" => Claims[bearer(r)].verified # "false"

put(t, username) ==
  cache' = [cache EXCEPT ![t] = [user |-> username, expires |-> clock + TTL]]

UserInfoAccepted(r) ==
  /\ pc[r] = "answered"
  /\ Vouched(r)
  /\ put(bearer(r), Claims[bearer(r)].user)
  /\ Enter(r, GetUserPermissions(policy, Claims[bearer(r)].user), "token")

UserInfoRejected(r) ==
  /\ pc[r] = "answered"
  /\ ~Vouched(r)
  /\ pc' = [pc EXCEPT ![r] = "header"]
  /\ lookup' = [lookup EXCEPT ![r] = NoAnswer]
  /\ UNCHANGED <<world, cache, ask, rights, login, granted>>

-----------------------------------------------------------------------------
(* No bearer token was good: the header of the proxy, if one is trusted. *)
NoBearer(r) ==
  \/ pc[r] = "header"
  \/ /\ pc[r] = "auth"
     /\ cfg.permFile
     /\ NotProven(r)
     /\ bearer(r) = NoToken \/ ~UserInfoEnabled

HeaderAuth(r) ==
  /\ NoBearer(r)
  /\ cfg.userHeader /\ ask[r].user # ""
  /\ Enter(r, WithHeader(r, GetUserPermissions(policy, ask[r].user)), "header")
  /\ UNCHANGED cache

Unauthorized(r) ==
  /\ NoBearer(r)
  /\ ~(cfg.userHeader /\ ask[r].user # "")
  /\ pc' = [pc EXCEPT ![r] = "denied"]
  /\ UNCHANGED <<world, cache, ask, lookup, rights, login, granted>>

Authenticate(r) ==
  \/ \E a \in deployment.asks : Arrive(r, a)
  \/ SkipAuth(r) \/ AcceptJWT(r) \/ CacheHit(r) \/ CacheMiss(r)
  \/ UserInfo(r) \/ UserInfoAccepted(r) \/ UserInfoRejected(r)
  \/ HeaderAuth(r) \/ Unauthorized(r)

AuthNext ==
  \/ Tick
  \/ \E t \in Tokens : Revoke(t)
  \/ \E q \in Policies : ChangePolicy(q)
  \/ \E r \in Requests : Authenticate(r)

-----------------------------------------------------------------------------
(* A withdrawn access token lets nobody in for longer than the TTL of the  *)
(* cache and the way of one answer, whichever requests asked the provider  *)
(* or filled the cache meanwhile, and in whatever order.                   *)
RevokedTokenExpires ==
  \A r \in Requests :
    login[r] # NoLogin /\ login[r].via = "token" =>
      login[r].at <= revokedAt[bearer(r)] + TTL + MaxDelay

(* The cache holds nothing but what the provider vouched for, under the    *)
(* name it vouched for, and not longer than above: whatever else is sent as*)
(* a token takes up no room in a map from which nothing is evicted unless  *)
(* it is asked for again.                                                  *)
CacheVouched ==
  \A t \in Tokens : cache[t] # NoEntry =>
    /\ Claims[t].access
    /\ cache[t].user = Claims[t].user /\ cache[t].user # ""
    /\ cfg.userClaim = "email" => Claims[t].verified # "false"
    /\ cache[t].expires <= revokedAt[t] + TTL + MaxDelay
=============================================================================
