------------------------------ MODULE AdminProofs -----------------------------
(***************************************************************************)
(* The safety of the admin UI and its authentication for any number of     *)
(* requests, users, tokens and policies, and any history of the vault.     *)
(***************************************************************************)
EXTENDS Admin, PolicyProofs

Asks == UNION {d.asks : d \in Deployments}
Asking == {"asking", "answered", "header"}
LoggingIn == {"auth"} \cup Asking
Handled == {"ready", "writing", "lost", "done"}
Writing == {"update", "delete"}
Keeping == {"unlock", "export"}

(* The values of the variables that the argument is about. *)
Types ==
  /\ deployment \in Deployments
  /\ clock \in 0..MaxTime
  /\ revokedAt \in [Tokens -> Nat]
  /\ cache = [t \in Tokens |-> cache[t]]
  /\ policy \in Policies
  /\ pc = [r \in Requests |-> pc[r]]
  /\ ask = [r \in Requests |-> ask[r]]
  /\ lookup = [r \in Requests |-> lookup[r]]
  /\ rights = [r \in Requests |-> rights[r]]
  /\ login = [r \in Requests |-> login[r]]
  /\ granted \in [Requests -> SUBSET Policies]

(* A token was withdrawn in the past, or never. *)
RevokedInPast == \A t \in Tokens : revokedAt[t] = Never \/ revokedAt[t] <= clock

(* Whoever has arrived asks for something that is asked here, and whoever  *)
(* asks the provider does so about a token.                                *)
AskInv ==
  \A r \in Requests :
    /\ pc[r] # "idle" => ask[r] \in deployment.asks
    /\ pc[r] \in {"asking", "answered"} => bearer(r) \in Tokens
    /\ pc[r] \in Asking => cfg.permFile
    /\ pc[r] \in LoggingIn => policy \in granted[r]

(* A positive answer on its way was given before the token was withdrawn,  *)
(* and not longer ago than answers take.                                   *)
AnswerInv ==
  \A r \in Requests : pc[r] = "answered" =>
    /\ lookup[r].at \in Nat
    /\ lookup[r].at <= clock
    /\ clock <= lookup[r].at + MaxDelay
    /\ lookup[r].ok => /\ Claims[bearer(r)].access
                       /\ lookup[r].at <= revokedAt[bearer(r)]

(* A cached answer has at most the TTL to live. *)
CacheInv ==
  \A t \in Tokens : cache[t] # NoEntry =>
    cache[t].expires \in Nat /\ cache[t].expires <= clock + TTL

(* Who is let in was let in in the past. *)
LoginInv ==
  \A r \in Requests :
    /\ pc[r] \in {"idle"} \cup LoggingIn => login[r] = NoLogin
    /\ login[r] # NoLogin =>
         /\ login[r].at \in Nat
         /\ login[r].at <= clock
         /\ login[r].via = "token" => bearer(r) \in Tokens

(* The rights of a request that was let in are those of its user under a   *)
(* policy since its arrival, but for the mark of the proxy.                *)
Backed(r, q) ==
  /\ rights[r].patterns = GetUserPermissions(q, rights[r].user).patterns
  /\ rights[r].isAdmin <=> rights[r].user \in q.admins \/ ProxyAdmin(r)

RightsInv ==
  \A r \in Requests : pc[r] \in Handled =>
    IF cfg.permFile THEN rights[r] # NoRights /\ \E q \in granted[r] : Backed(r, q)
    ELSE cfg.dev /\ rights[r] = NoRights

(* What the handler has checked by then. *)
CheckedInv ==
  \A r \in Requests :
    /\ pc[r] \in {"writing", "lost"} => op(r).kind \in Writing
    /\ pc[r] \in {"writing", "lost", "done"} /\ op(r).kind \in Writing
         => Acceptable(r) /\ mayWrite(rights[r], Target(r))
    /\ pc[r] = "done" /\ op(r).kind \in Keeping => isAdmin(rights[r])

AppliedInv == \A r \in applied : r \in Requests /\ pc[r] \in {"writing", "lost", "done"}
                                 /\ op(r).kind \in Writing

AuthInv ==
  /\ Types
  /\ RevokedInPast
  /\ AskInv
  /\ AnswerInv
  /\ CacheInv
  /\ LoginInv
  /\ RevokedTokenExpires
  /\ CacheVouched
  /\ RightsInv

Inv == AuthInv /\ CheckedInv /\ AppliedInv

-----------------------------------------------------------------------------
(* The bounds of time are numbers, and Never is beyond them. *)
LEMMA Times == /\ TTL \in Nat /\ MaxDelay \in Nat /\ MaxTime \in Nat
               /\ Never \in Nat /\ Never > MaxTime
  BY TimeAssumption DEF Never

(* The startup establishes the invariant. *)
LEMMA InitInv == Init => Inv
  <1> SUFFICES ASSUME Init PROVE Inv
    OBVIOUS
  <1> USE TimeAssumption DEF Init, AuthInit, Never, Tokens
  <1>1. Types
    BY DEF Types
  <1>2. RevokedInPast /\ AskInv /\ AnswerInv /\ LoginInv
    BY DEF RevokedInPast, AskInv, AnswerInv, LoginInv, Asking, LoggingIn
  <1>3. CacheInv /\ RevokedTokenExpires /\ CacheVouched /\ RightsInv
    BY DEF CacheInv, RevokedTokenExpires, CacheVouched, RightsInv, Handled
  <1>4. CheckedInv /\ AppliedInv
    BY DEF CheckedInv, AppliedInv
  <1> QED
    BY <1>1, <1>2, <1>3, <1>4 DEF Inv, AuthInv

(* Time passes, but not over an answer that is on its way for too long. *)
LEMMA TickInv == AuthInv /\ Tick => AuthInv'
  <1> SUFFICES ASSUME AuthInv, Tick PROVE AuthInv'
    OBVIOUS
  <1> USE TimeAssumption DEF AuthInv, Tick, cfg, bearer
  <1>1. Types'
    BY DEF Types
  <1>2. RevokedInPast'
    BY DEF RevokedInPast, Types
  <1>3. AskInv'
    BY DEF AskInv
  <1>4. AnswerInv'
    BY DEF AnswerInv, Types
  <1>5. LoginInv'
    BY DEF LoginInv, Types
  <1>6. RevokedTokenExpires' /\ CacheVouched'
    BY DEF RevokedTokenExpires, CacheVouched
  <1>8. CacheInv'
    BY Times DEF CacheInv, Types
  <1>7. RightsInv'
    BY DEF RightsInv, Backed, ProxyAdmin
  <1> QED
    BY <1>1, <1>2, <1>3, <1>4, <1>5, <1>6, <1>7, <1>8

(* The provider withdraws a token: everything that it vouched for lies in  *)
(* the past.                                                               *)
LEMMA RevokeInv == ASSUME NEW t \in Tokens PROVE AuthInv /\ Revoke(t) => AuthInv'
  <1> SUFFICES ASSUME AuthInv, Revoke(t) PROVE AuthInv'
    OBVIOUS
  <1> USE TimeAssumption DEF AuthInv, Revoke, cfg, bearer
  <1>1. Types'
    BY DEF Types
  <1>2. RevokedInPast'
    BY DEF RevokedInPast, Types
  <1>3. AskInv'
    BY DEF AskInv
  <1>4. AnswerInv'
    BY DEF AnswerInv, Types
  <1>5. LoginInv'
    BY DEF LoginInv, Types
  <1>6. RevokedTokenExpires'
    BY DEF RevokedTokenExpires, LoginInv, Types
  <1>7. CacheInv'
    BY DEF CacheInv
  <1>9. CacheVouched'
    <2> SUFFICES ASSUME NEW x \in Tokens, cache[x] # NoEntry
                 PROVE  cache[x].expires <= revokedAt'[x] + TTL + MaxDelay
      BY DEF CacheVouched
    <2>1. CASE x = t
      <3>1. revokedAt'[x] = clock /\ clock \in Nat
        BY <2>1, Times DEF Types
      <3> QED
        BY <3>1, Times DEF CacheInv
    <2>2. CASE x # t
      BY <2>2 DEF CacheVouched, Types
    <2> QED
      BY <2>1, <2>2
  <1>8. RightsInv'
    BY DEF RightsInv, Backed, ProxyAdmin
  <1> QED
    BY <1>1, <1>2, <1>3, <1>4, <1>5, <1>6, <1>7, <1>8, <1>9

(* Watch replaces the policy: every request under way remembers it. *)
LEMMA ChangePolicyInv == ASSUME NEW q \in Policies PROVE AuthInv /\ ChangePolicy(q) => AuthInv'
  <1> SUFFICES ASSUME AuthInv, ChangePolicy(q) PROVE AuthInv'
    OBVIOUS
  <1> USE DEF AuthInv, ChangePolicy, cfg, bearer
  <1>1. \A r \in Requests : granted[r] \subseteq granted'[r]
    BY DEF Types
  <1>2. Types'
    BY DEF Types
  <1>3. AskInv'
    BY DEF AskInv, Types, LoggingIn, Asking, Ended
  <1>4. RevokedInPast' /\ AnswerInv' /\ LoginInv'
    BY DEF RevokedInPast, AnswerInv, LoginInv
  <1>5. CacheInv' /\ RevokedTokenExpires' /\ CacheVouched'
    BY DEF CacheInv, RevokedTokenExpires, CacheVouched
  <1>6. RightsInv'
    BY <1>1 DEF RightsInv, Backed, ProxyAdmin
  <1> QED
    BY <1>2, <1>3, <1>4, <1>5, <1>6

-----------------------------------------------------------------------------
(* A step of r that leads on through the login, or ends it, and lets       *)
(* nobody in.                                                              *)
LEMMA LoginStep ==
  ASSUME AuthInv, NEW r \in Requests, NEW next,
         pc[r] \in LoggingIn, next \in Asking \cup {"denied"},
         pc' = [pc EXCEPT ![r] = next],
         next \in Asking => cfg.permFile,
         next \in {"asking", "answered"} => bearer(r) \in Tokens,
         UNCHANGED <<world, ask, rights, login, granted>>,
         lookup' = [x \in Requests |-> lookup'[x]],
         \A x \in Requests \ {r} : lookup'[x] = lookup[x],
         cache' = [t \in Tokens |-> cache'[t]],
         \A t \in Tokens : cache'[t] # NoEntry => cache'[t] = cache[t],
         next = "answered" =>
           /\ lookup'[r].at = clock
           /\ lookup'[r].ok => Claims[bearer(r)].access /\ clock <= revokedAt[bearer(r)]
  PROVE  AuthInv'
  <1> USE TimeAssumption DEF AuthInv, world, cfg, bearer
  <1>1. Types'
    BY DEF Types
  <1>2. AskInv'
    BY DEF AskInv, Types, LoggingIn, Asking
  <1>3. RevokedInPast' /\ CacheInv' /\ RevokedTokenExpires' /\ CacheVouched'
    BY DEF RevokedInPast, CacheInv, RevokedTokenExpires, CacheVouched, Types
  <1>4. AnswerInv'
    BY DEF AnswerInv, Types, LoggingIn, Asking
  <1>5. LoginInv'
    BY DEF LoginInv, Types, LoggingIn, Asking
  <1>6. RightsInv'
    BY DEF RightsInv, Backed, ProxyAdmin, Handled, Types, Asking
  <1> QED
    BY <1>1, <1>2, <1>3, <1>4, <1>5, <1>6

(* The entry of t is new, and the provider vouched for t not long before   *)
(* it withdrew t.                                                          *)
NewEntry(t) ==
  /\ cache'[t].user = Claims[t].user
  /\ cache'[t].expires = clock + TTL
  /\ Claims[t].user # ""
  /\ cfg.userClaim = "email" => Claims[t].verified # "false"
  /\ Claims[t].access
  /\ clock <= revokedAt[t] + MaxDelay

(* What is put into the cache has the TTL to live and the name of its user. *)
LEMMA NewEntryFacts ==
  ASSUME NEW t, NewEntry(t)
  PROVE  /\ Claims[t].access
         /\ cache'[t].user = Claims[t].user /\ cache'[t].user # ""
         /\ cfg.userClaim = "email" => Claims[t].verified # "false"
         /\ cache'[t].expires = clock + TTL
         /\ clock <= revokedAt[t] + MaxDelay
  BY DEF NewEntry

(* The rights up are what the policy gives, but for the mark of the proxy. *)
RightsOf(r, up, via) ==
  IF cfg.permFile
    THEN /\ up # NoRights
         /\ up.patterns = GetUserPermissions(policy, up.user).patterns
         /\ up.isAdmin <=> \/ up.user \in policy.admins
                           \/ /\ via = "header" /\ cfg.adminHeader
                              /\ ask[r].admin # "" /\ ask[r].admin = cfg.adminValue
    ELSE cfg.dev /\ up = NoRights

(* A request is let in: with rights that are backed by the policy, and     *)
(* with a token only before that token is to expire.                       *)
LEMMA EnterInv ==
  ASSUME AuthInv, NEW r \in Requests, NEW up, NEW via,
         pc[r] \in LoggingIn,
         Enter(r, up, via),
         cache' = [t \in Tokens |-> cache'[t]],
         \A t \in Tokens : cache'[t] = cache[t] \/ NewEntry(t),
         via = "token" => /\ bearer(r) \in Tokens
                          /\ clock <= revokedAt[bearer(r)] + TTL + MaxDelay,
         RightsOf(r, up, via)
  PROVE  AuthInv'
  <1> USE TimeAssumption DEF AuthInv, Enter, world, cfg, bearer
  <1>1. Types'
    BY DEF Types
  <1>2. AskInv'
    BY DEF AskInv, Types, LoggingIn, Asking
  <1>3. RevokedInPast' /\ clock \in Nat
    BY Times DEF RevokedInPast, Types
  <1>4. AnswerInv'
    BY DEF AnswerInv, Types
  <1>5. LoginInv'
    <2>1. login'[r] = [via |-> via, at |-> clock] /\ pc'[r] = "ready"
      BY DEF Types
    <2>2. \A x \in Requests \ {r} : login'[x] = login[x] /\ pc'[x] = pc[x]
      BY DEF Types
    <2> QED
      BY <1>3, <2>1, <2>2 DEF LoginInv, LoggingIn, Asking
  <1>8. CacheInv'
    <2> SUFFICES ASSUME NEW t \in Tokens, cache'[t] # NoEntry
                 PROVE  cache'[t].expires \in Nat /\ cache'[t].expires <= clock + TTL
      BY DEF CacheInv
    <2>1. CASE cache'[t] = cache[t]
      BY <2>1 DEF CacheInv
    <2>2. CASE NewEntry(t)
      <3>1. cache'[t].expires = clock + TTL
        BY <2>2, NewEntryFacts
      <3> QED
        BY <1>3, <3>1, Times
    <2> QED
      BY <2>1, <2>2
  <1>9. CacheVouched'
    <2> SUFFICES ASSUME NEW t \in Tokens, cache'[t] # NoEntry
                 PROVE  /\ Claims[t].access
                        /\ cache'[t].user = Claims[t].user /\ cache'[t].user # ""
                        /\ cfg.userClaim = "email" => Claims[t].verified # "false"
                        /\ cache'[t].expires <= revokedAt[t] + TTL + MaxDelay
      BY DEF CacheVouched
    <2>1. CASE cache'[t] = cache[t]
      BY <2>1 DEF CacheVouched
    <2>2. CASE NewEntry(t)
      <3>1. /\ Claims[t].access
            /\ cache'[t].user = Claims[t].user /\ cache'[t].user # ""
            /\ cfg.userClaim = "email" => Claims[t].verified # "false"
        BY <2>2, NewEntryFacts
      <3>2. cache'[t].expires = clock + TTL /\ clock <= revokedAt[t] + MaxDelay
        BY <2>2, NewEntryFacts
      <3>3. cache'[t].expires <= revokedAt[t] + TTL + MaxDelay
        BY <1>3, <3>2, Times DEF Types
      <3> QED
        BY <3>1, <3>3
    <2> QED
      BY <2>1, <2>2
  <1>6. RevokedTokenExpires'
    BY DEF RevokedTokenExpires, Types
  <1>7. RightsInv'
    <2>1. ASSUME NEW x \in Requests, x # r, pc'[x] \in Handled
          PROVE  IF cfg'.permFile THEN rights'[x] # NoRights /\ \E q \in granted'[x] : Backed(x, q)'
                 ELSE cfg'.dev /\ rights'[x] = NoRights
      BY <2>1 DEF RightsInv, Backed, ProxyAdmin, Types
    <2>2. CASE cfg.permFile
      <3>1. policy \in granted'[r]
        BY DEF AskInv, LoggingIn
      <3>2. rights'[r] = up /\ login'[r].via = via
        BY DEF Types
      <3>3. Backed(r, policy)'
        BY <2>2, <3>2 DEF RightsOf, Backed, ProxyAdmin
      <3> QED
        BY <2>1, <2>2, <3>1, <3>2, <3>3 DEF RightsOf, RightsInv
    <2>3. CASE ~cfg.permFile
      <3>1. rights'[r] = NoRights /\ cfg.dev
        BY <2>3 DEF RightsOf, Types
      <3> QED
        BY <2>1, <2>3, <3>1 DEF RightsInv
    <2> QED
      BY <2>2, <2>3
  <1> QED
    BY <1>1, <1>2, <1>3, <1>4, <1>5, <1>6, <1>7, <1>8, <1>9

-----------------------------------------------------------------------------
(* A request arrives. *)
LEMMA ArriveInv ==
  ASSUME AuthInv, NEW r \in Requests, NEW a \in deployment.asks, Arrive(r, a)
  PROVE  AuthInv'
  <1> USE DEF AuthInv, Arrive, world, cfg, bearer
  <1>1. pc'[r] = "auth" /\ ask'[r] = a /\ granted'[r] = {policy} /\ login[r] = NoLogin
    BY DEF Types, LoginInv
  <1>2. \A x \in Requests \ {r} : pc'[x] = pc[x] /\ ask'[x] = ask[x] /\ granted'[x] = granted[x]
    BY DEF Types
  <1>3. Types'
    BY DEF Types
  <1>4. AskInv'
    BY <1>1, <1>2 DEF AskInv, LoggingIn, Asking
  <1>5. RevokedInPast' /\ CacheInv' /\ CacheVouched'
    BY DEF RevokedInPast, CacheInv, CacheVouched
  <1>6. AnswerInv'
    BY <1>1, <1>2 DEF AnswerInv
  <1>7. LoginInv' /\ RevokedTokenExpires'
    BY <1>1, <1>2 DEF LoginInv, RevokedTokenExpires, LoggingIn, Asking
  <1>8. RightsInv'
    <2> SUFFICES ASSUME NEW x \in Requests, pc'[x] \in Handled
                 PROVE  IF cfg.permFile
                          THEN rights[x] # NoRights /\ \E q \in granted'[x] : Backed(x, q)'
                          ELSE cfg.dev /\ rights[x] = NoRights
      BY DEF RightsInv
    <2>1. x # r
      BY <1>1 DEF Handled
    <2>2. pc[x] \in Handled /\ ask'[x] = ask[x] /\ granted'[x] = granted[x]
      BY <1>2, <2>1
    <2>3. ASSUME NEW q, Backed(x, q) PROVE Backed(x, q)'
      BY <2>2, <2>3 DEF Backed, ProxyAdmin
    <2> QED
      BY <2>2, <2>3 DEF RightsInv
  <1> QED
    BY <1>3, <1>4, <1>5, <1>6, <1>7, <1>8

(* What GetUserPermissions gives is backed by the policy. *)
LEMMA PolicyRights ==
  ASSUME AuthInv, NEW r, NEW via, NEW u, cfg.permFile,
         u \in {Claims[t].user : t \in Tokens} \cup {a.user : a \in Asks}
  PROVE  /\ via # "header" => RightsOf(r, GetUserPermissions(policy, u), via)
         /\ via = "header" => RightsOf(r, WithHeader(r, GetUserPermissions(policy, u)), via)
  <1> DEFINE up == GetUserPermissions(policy, u)
             hd == WithHeader(r, up)
  <1>1. up.user = u /\ up.isAdmin = (u \in policy.admins)
    BY DEF GetUserPermissions
  <1>2. up # NoRights /\ [up EXCEPT !.isAdmin = TRUE] # NoRights
    BY RightsAssumption DEF Types, AuthInv, Asks
  <1>3. CASE cfg.adminHeader /\ cfg.adminValue # "" /\ ask[r].admin = cfg.adminValue
    <2>1. hd = [up EXCEPT !.isAdmin = TRUE]
      BY <1>3 DEF WithHeader
    <2>2. hd.user = u /\ hd.patterns = up.patterns /\ hd.isAdmin
      BY <2>1 DEF GetUserPermissions
    <2>3. hd # NoRights
      BY <1>2, <2>1
    <2> HIDE DEF hd
    <2>4. via = "header" => RightsOf(r, hd, via)
      BY <1>1, <1>3, <2>2, <2>3 DEF RightsOf
    <2>5. via # "header" => RightsOf(r, up, via)
      BY <1>1, <1>2 DEF RightsOf
    <2> QED
      BY <2>4, <2>5 DEF hd
  <1>4. CASE ~(cfg.adminHeader /\ cfg.adminValue # "" /\ ask[r].admin = cfg.adminValue)
    BY <1>1, <1>2, <1>4 DEF RightsOf, WithHeader
  <1> QED
    BY <1>3, <1>4

(* A bearer token that is looked at is one of the tokens. *)
LEMMA BearerType ==
  ASSUME AuthInv, NEW r \in Requests, pc[r] # "idle", bearer(r) # NoToken
  PROVE  bearer(r) \in Tokens
  BY BearerAssumption DEF AuthInv, AskInv, Types, bearer

(* Every way through withAuth preserves the invariant. *)
LEMMA AuthenticateInv ==
  ASSUME AuthInv, NEW r \in Requests, Authenticate(r)
  PROVE  AuthInv'
  <1>1. ASSUME NEW a \in deployment.asks, Arrive(r, a) PROVE AuthInv'
    BY <1>1, ArriveInv
  <1>2. CASE SkipAuth(r)
    <2>1. RightsOf(r, NoRights, "dev")
      BY <1>2 DEF SkipAuth, RightsOf
    <2> QED
      BY <1>2, <2>1, EnterInv DEF SkipAuth, LoggingIn, AuthInv, Types
  <1>3. CASE AcceptJWT(r)
    <2> DEFINE u == Claims[bearer(r)].user
    <2>1. bearer(r) \in Tokens
      BY <1>3, BearerType DEF AcceptJWT, Proven
    <2>2. RightsOf(r, GetUserPermissions(policy, u), "jwt")
      BY <1>3, <2>1, PolicyRights DEF AcceptJWT
    <2> QED
      BY <1>3, <2>2, EnterInv DEF AcceptJWT, LoggingIn, AuthInv, Types
  <1>4. CASE CacheHit(r)
    <2> DEFINE t == bearer(r)
    <2>1. t \in Tokens
      BY <1>4, BearerType DEF CacheHit, AsksProvider
    <2>2. /\ cache[t].user = Claims[t].user
          /\ clock <= cache[t].expires
          /\ cache[t].expires <= revokedAt[t] + TTL + MaxDelay
      BY <1>4, <2>1 DEF CacheHit, get, AuthInv, CacheVouched
    <2>3. RightsOf(r, GetUserPermissions(policy, cache[t].user), "token")
      BY <1>4, <2>1, <2>2, PolicyRights DEF CacheHit, AsksProvider
    <2>4. clock <= revokedAt[t] + TTL + MaxDelay
      BY <1>4, <2>1, <2>2, Times DEF CacheHit, get, AuthInv, Types, CacheInv
    <2> QED
      BY <1>4, <2>1, <2>3, <2>4, EnterInv DEF CacheHit, AsksProvider, LoggingIn, AuthInv, Types
  <1>5. CASE CacheMiss(r)
    <2>1. bearer(r) \in Tokens /\ cfg.permFile
      BY <1>5, BearerType DEF CacheMiss, AsksProvider
    <2>2. /\ cache' = [t \in Tokens |-> cache'[t]]
          /\ \A t \in Tokens : cache'[t] # NoEntry => cache'[t] = cache[t]
      BY <1>5 DEF CacheMiss, AuthInv, Types
    <2> QED
      BY <1>5, <2>1, <2>2, LoginStep
      DEF CacheMiss, AsksProvider, LoggingIn, Asking, AuthInv, Types
  <1>6. CASE UserInfo(r)
    <2>1. bearer(r) \in Tokens /\ cfg.permFile
      BY <1>6 DEF UserInfo, AuthInv, AskInv, Asking
    <2>2. PICK ok \in {FALSE, Claims[bearer(r)].access /\ revokedAt[bearer(r)] = Never} :
            lookup' = [lookup EXCEPT ![r] = [ok |-> ok, at |-> clock]]
      BY <1>6 DEF UserInfo
    <2>3. /\ lookup'[r] = [ok |-> ok, at |-> clock]
          /\ lookup' = [x \in Requests |-> lookup'[x]]
          /\ \A x \in Requests \ {r} : lookup'[x] = lookup[x]
      BY <2>2 DEF AuthInv, Types
    <2>4. ok => Claims[bearer(r)].access /\ revokedAt[bearer(r)] = Never
      BY <2>2
    <2>5. clock <= Never
      BY Times DEF AuthInv, Types
    <2>6. /\ lookup'[r].at = clock
          /\ lookup'[r].ok => Claims[bearer(r)].access /\ clock <= revokedAt[bearer(r)]
      BY <2>3, <2>4, <2>5
    <2> QED
      BY <1>6, <2>1, <2>3, <2>6, LoginStep DEF UserInfo, LoggingIn, Asking, AuthInv, Types
  <1>7. CASE UserInfoAccepted(r)
    <2> DEFINE t == bearer(r)
    <2>1. t \in Tokens /\ cfg.permFile
      BY <1>7 DEF UserInfoAccepted, AuthInv, AskInv, Asking
    <2>2. Claims[t].access /\ lookup[r].at <= revokedAt[t] /\ clock <= lookup[r].at + MaxDelay
      BY <1>7 DEF UserInfoAccepted, Vouched, AuthInv, AnswerInv
    <2>3. clock <= revokedAt[t] + MaxDelay /\ clock <= revokedAt[t] + TTL + MaxDelay
      BY <1>7, <2>1, <2>2, Times DEF UserInfoAccepted, AuthInv, AnswerInv, Types
    <2>4. RightsOf(r, GetUserPermissions(policy, Claims[t].user), "token")
      BY <2>1, PolicyRights
    <2>5. /\ cache'[t] = [user |-> Claims[t].user, expires |-> clock + TTL]
          /\ cache' = [x \in Tokens |-> cache'[x]]
          /\ \A x \in Tokens \ {t} : cache'[x] = cache[x]
      BY <1>7, <2>1 DEF UserInfoAccepted, put, AuthInv, Types
    <2>6. NewEntry(t)
      <3>1. cache'[t].user = Claims[t].user /\ cache'[t].expires = clock + TTL
        BY <2>5
      <3>2. Claims[t].user # "" /\ (cfg.userClaim = "email" => Claims[t].verified # "false")
        BY <1>7 DEF UserInfoAccepted, Vouched
      <3> QED
        BY <2>2, <2>3, <3>1, <3>2, Zenon DEF NewEntry
    <2> QED
      BY <1>7, <2>1, <2>3, <2>4, <2>5, <2>6, EnterInv DEF UserInfoAccepted, LoggingIn, Asking
  <1>8. CASE UserInfoRejected(r)
    <2>1. cfg.permFile
      BY <1>8 DEF UserInfoRejected, AuthInv, AskInv, Asking
    <2> QED
      BY <1>8, <2>1, LoginStep DEF UserInfoRejected, LoggingIn, Asking, AuthInv, Types
  <1>9. CASE HeaderAuth(r)
    <2> DEFINE up == WithHeader(r, GetUserPermissions(policy, ask[r].user))
    <2>1. ask[r] \in Asks /\ cfg.permFile /\ pc[r] \in LoggingIn
      BY <1>9 DEF HeaderAuth, NoBearer, AuthInv, AskInv, Types, Asks, Asking, LoggingIn
    <2>2. RightsOf(r, up, "header")
      BY <2>1, PolicyRights
    <2> QED
      BY <1>9, <2>1, <2>2, EnterInv DEF HeaderAuth, AuthInv, Types
  <1>10. CASE Unauthorized(r)
    BY <1>10, LoginStep DEF Unauthorized, NoBearer, LoggingIn, Asking, AuthInv, Types
  <1> QED
    BY <1>1, <1>2, <1>3, <1>4, <1>5, <1>6, <1>7, <1>8, <1>9, <1>10 DEF Authenticate

(* The steps of the authentication preserve its invariant. *)
LEMMA AuthNextInv == AuthInv /\ AuthNext => AuthInv'
  BY TickInv, RevokeInv, ChangePolicyInv, AuthenticateInv DEF AuthNext

-----------------------------------------------------------------------------
(* A handler moves r on, and leaves the authentication as it was. *)
MovesOn(r, how) ==
  /\ pc[r] \in {"ready", "writing"}
  /\ how \in {"writing", "lost", "done", "failed", "denied"}
  /\ pc' = [pc EXCEPT ![r] = how]
  /\ UNCHANGED <<world, cache, ask, lookup, rights, login, granted>>

(* Such a step preserves what holds of the authentication. *)
LEMMA HandlerAuthInv ==
  ASSUME AuthInv, NEW r \in Requests, NEW how, MovesOn(r, how)
  PROVE  AuthInv'
  <1> USE DEF MovesOn, AuthInv, world, cfg, bearer
  <1>1. pc'[r] = how /\ \A x \in Requests \ {r} : pc'[x] = pc[x]
    BY DEF Types
  <1>2. Types'
    BY DEF Types
  <1>3. AskInv' /\ AnswerInv' /\ LoginInv'
    BY <1>1 DEF AskInv, AnswerInv, LoginInv, LoggingIn, Asking
  <1>4. RevokedInPast' /\ CacheInv' /\ CacheVouched' /\ RevokedTokenExpires'
    BY DEF RevokedInPast, CacheInv, CacheVouched, RevokedTokenExpires
  <1>5. RightsInv'
    <2>1. ASSUME NEW x, NEW q, Backed(x, q) PROVE Backed(x, q)'
      BY <2>1 DEF Backed, ProxyAdmin
    <2>2. \A x \in Requests : pc'[x] \in Handled => pc[x] \in Handled
      BY <1>1 DEF Handled
    <2> QED
      BY <2>1, <2>2 DEF RightsInv
  <1> QED
    BY <1>2, <1>3, <1>4, <1>5

(* The checks of a request stay what they were as long as the request, its *)
(* rights and its place stay.                                              *)
LEMMA CheckedKept ==
  ASSUME CheckedInv, AppliedInv, applied' = applied,
         \A x \in Requests : {pc[x], pc'[x]} \cap {"writing", "lost", "done"} # {} =>
            pc'[x] = pc[x] /\ ask'[x] = ask[x] /\ rights'[x] = rights[x]
  PROVE  CheckedInv' /\ AppliedInv'
  <1>1. CheckedInv'
    BY DEF CheckedInv, op, Target, Acceptable, mayWrite, isAdmin, CanWrite, CanRead
  <1>2. AppliedInv'
    BY DEF AppliedInv, op
  <1> QED
    BY <1>1, <1>2

(* A step of the authentication is none of a handler. *)
LEMMA AuthStepKeeps ==
  ASSUME Inv, AuthNext, UNCHANGED adminVars
  PROVE  Inv'
  <1>1. AuthInv'
    BY AuthNextInv DEF Inv
  <1>2. Types /\ CheckedInv /\ AppliedInv /\ applied' = applied
    BY DEF Inv, AuthInv, adminVars
  <1>3. CASE Tick \/ (\E t \in Tokens : Revoke(t)) \/ (\E q \in Policies : ChangePolicy(q))
    <2>1. UNCHANGED <<rights, pc, ask>>
      BY <1>3 DEF Tick, Revoke, ChangePolicy
    <2> QED
      BY <1>1, <1>2, <2>1, CheckedKept DEF Inv
  <1>4. ASSUME NEW r \in Requests, Authenticate(r)
        PROVE  Inv'
    <2> USE <1>2 DEF Types
    <2>1. pc[r] \in {"idle"} \cup LoggingIn
      BY <1>4 DEF Authenticate, Arrive, SkipAuth, AcceptJWT, CacheHit, CacheMiss, UserInfo,
         UserInfoAccepted, UserInfoRejected, HeaderAuth, Unauthorized, AsksProvider, NoBearer,
         LoggingIn, Asking
    <2>2. \E next \in LoggingIn \cup {"ready", "denied"} : pc' = [pc EXCEPT ![r] = next]
      BY <1>4 DEF Authenticate, Arrive, SkipAuth, AcceptJWT, CacheHit, CacheMiss, UserInfo,
         UserInfoAccepted, UserInfoRejected, HeaderAuth, Unauthorized, Enter, LoggingIn, Asking
    <2>3. \A x \in Requests \ {r} : pc'[x] = pc[x] /\ ask'[x] = ask[x] /\ rights'[x] = rights[x]
      BY <1>4 DEF Authenticate, Arrive, SkipAuth, AcceptJWT, CacheHit, CacheMiss, UserInfo,
         UserInfoAccepted, UserInfoRejected, HeaderAuth, Unauthorized, Enter
    <2>4. pc'[r] \notin {"writing", "lost", "done"} /\ pc[r] \notin {"writing", "lost", "done"}
      BY <2>1, <2>2 DEF LoggingIn, Asking
    <2>5. CheckedInv' /\ AppliedInv'
      BY <1>2, <2>3, <2>4, CheckedKept
    <2> QED
      BY <1>1, <2>5 DEF Inv
  <1> QED
    BY <1>3, <1>4 DEF AuthNext

(* Every handler preserves the invariant. *)
LEMMA HandleInv ==
  ASSUME Inv, NEW r \in Requests, Handle(r)
  PROVE  Inv'
  <1>1. AuthInv /\ Types /\ CheckedInv /\ AppliedInv
    BY DEF Inv, AuthInv
  <1>2. ASSUME NEW how, Finish(r, how), pc[r] = "ready", how \in {"done", "failed", "denied"},
               op(r).kind \notin Writing,
               how = "done" /\ op(r).kind \in Keeping => isAdmin(rights[r])
        PROVE  Inv'
    <2>1. pc'[r] = how /\ \A x \in Requests \ {r} : pc'[x] = pc[x]
      BY <1>1, <1>2 DEF Finish, Types
    <2>2. AuthInv'
      <3>1. MovesOn(r, how)
        BY <1>2 DEF Finish, MovesOn
      <3> QED
        BY <1>1, <3>1, HandlerAuthInv
    <2>3. CheckedInv'
      BY <1>1, <1>2, <2>1
      DEF Finish, CheckedInv, op, Target, Acceptable, mayWrite, isAdmin, CanWrite, CanRead
    <2>4. AppliedInv'
      BY <1>1, <1>2, <2>1 DEF Finish, AppliedInv, op
    <2> QED
      BY <2>2, <2>3, <2>4 DEF Inv
  <1>3. CASE ShowNothing(r)
    BY <1>2, <1>3 DEF ShowNothing, Writing
  <1>4. CASE View(r) \/ Entry(r)
    BY <1>2, <1>4 DEF View, Entry, Writing, Keeping
  <1>5. CASE Unlock(r)
    BY <1>2, <1>5 DEF Unlock, Writing
  <1>6. CASE Export(r)
    BY <1>2, <1>6 DEF Export, mayExport, CanExport, isAdmin, Writing
  <1>7. ASSUME NEW how, Finish(r, how), pc[r] \in {"ready", "writing"},
               how \in {"writing", "lost", "done", "failed", "denied"},
               op(r).kind \in Writing,
               how \in {"writing", "lost", "done"} =>
                 Acceptable(r) /\ mayWrite(rights[r], Target(r)),
               how \in {"failed", "denied"} => r \notin applied
        PROVE  Inv'
    <2>1. pc'[r] = how /\ \A x \in Requests \ {r} : pc'[x] = pc[x]
      BY <1>1, <1>7 DEF Finish, Types
    <2>2. AuthInv'
      <3>1. MovesOn(r, how)
        BY <1>7 DEF Finish, MovesOn
      <3> QED
        BY <1>1, <3>1, HandlerAuthInv
    <2>3. CheckedInv'
      BY <1>1, <1>7, <2>1
      DEF Finish, CheckedInv, op, Target, Acceptable, mayWrite, isAdmin, CanWrite, CanRead,
          Writing, Keeping
    <2>4. AppliedInv'
      BY <1>1, <1>7, <2>1 DEF Finish, AppliedInv, op
    <2> QED
      BY <2>2, <2>3, <2>4 DEF Inv
  <1>8. CASE Write(r)
    BY <1>7, <1>8 DEF Write, Writing
  <1>9. CASE ConfirmWrite(r) \/ LoseAnswer(r)
    BY <1>1, <1>7, <1>9 DEF ConfirmWrite, LoseAnswer, CheckedInv
  <1>10. CASE FailWrite(r)
    BY <1>1, <1>7, <1>10 DEF FailWrite, CheckedInv
  <1>11. CASE ApplyWrite(r)
    <2>1. UNCHANGED <<authVars, unlocked, page>> /\ pc[r] \in {"writing", "lost"}
          /\ applied' = applied \cup {r}
      BY <1>11 DEF ApplyWrite, Store!Apply
    <2>2. AuthInv' = AuthInv
      BY <2>1 DEF authVars, world, AuthInv, Types, RevokedInPast, AskInv, AnswerInv, CacheInv,
         LoginInv, RevokedTokenExpires, CacheVouched, RightsInv, Backed, ProxyAdmin, cfg, bearer
    <2>3. CheckedInv'
      BY <1>1, <2>1 DEF authVars, CheckedInv, op, Target, Acceptable, mayWrite, isAdmin,
         CanWrite, CanRead
    <2>4. AppliedInv'
      BY <1>1, <2>1 DEF authVars, AppliedInv, CheckedInv, op
    <2> QED
      BY <1>1, <2>2, <2>3, <2>4 DEF Inv
  <1>12. CASE Refuse(r)
    <2>1. Finish(r, "denied") /\ pc[r] = "ready" /\ r \notin applied
      BY <1>1, <1>12 DEF Refuse, AppliedInv
    <2> QED
      BY <1>2, <1>7, <2>1
  <1> QED
    BY <1>3, <1>4, <1>5, <1>6, <1>8, <1>9, <1>10, <1>11, <1>12 DEF Handle

(* Every step preserves the invariant. *)
LEMMA NextInv == Inv /\ [Next]_vars => Inv'
  <1> SUFFICES ASSUME Inv, [Next]_vars PROVE Inv'
    OBVIOUS
  <1>1. CASE AuthNext /\ UNCHANGED adminVars
    BY <1>1, AuthStepKeeps
  <1>2. ASSUME UNCHANGED <<deployment, clock, revokedAt, policy, cache, pc, ask, lookup, rights,
                           login, granted, applied>>
        PROVE  Inv'
    BY <1>2 DEF Inv, AuthInv, Types, RevokedInPast, AskInv, AnswerInv, CacheInv,
       LoginInv, RevokedTokenExpires, CacheVouched, RightsInv, Backed, ProxyAdmin, cfg, bearer,
       CheckedInv, AppliedInv, op, Target, Acceptable, mayWrite, isAdmin, CanWrite, CanRead
  <1>3. ASSUME NEW t \in deployment.trees, ChangeVault(t) PROVE Inv'
    BY <1>2, <1>3 DEF ChangeVault
  <1>4. ASSUME NEW r \in Requests, Handle(r) PROVE Inv'
    BY <1>4, HandleInv
  <1>5. CASE UNCHANGED vars
    BY <1>2, <1>5 DEF vars, authVars, adminVars, world
  <1> QED
    BY <1>1, <1>3, <1>4, <1>5 DEF Next

(* The invariant of the admin UI: what the requests hold of tokens, cached *)
(* answers and rights was true of the world since they arrived.            *)
THEOREM AdminInvariant == Spec => []Inv
  BY InitInv, NextInv, PTL DEF Spec

(* A withdrawn access token lets nobody in after the TTL of the cache and  *)
(* the way of one answer have passed.                                      *)
THEOREM RevokedTokensExpire == Spec => []RevokedTokenExpires
  BY AdminInvariant, PTL DEF Inv, AuthInv

(* Only what the provider vouched for is cached, under the right name, and *)
(* not for longer than that.                                               *)
THEOREM OnlyVouchedIsCached == Spec => []CacheVouched
  BY AdminInvariant, PTL DEF Inv, AuthInv

(* The vault is unlocked and exported only for admins of a policy that was *)
(* in force during the request, and for those that the proxy marked.       *)
THEOREM OnlyAdmins == Spec => []AdminOnly
  <1>1. Inv => AdminOnly
    <2> SUFFICES ASSUME Inv, NEW r \in Requests, pc[r] = "done", op(r).kind \in {"unlock", "export"}
                 PROVE  IF cfg.permFile
                          THEN ProxyAdmin(r) \/ \E q \in granted[r] : rights[r].user \in q.admins
                          ELSE cfg.dev
      BY DEF AdminOnly, Entitled
    <2>1. isAdmin(rights[r])
      BY DEF Inv, CheckedInv, Keeping
    <2> QED
      BY <2>1 DEF Inv, AuthInv, RightsInv, Handled, Backed, isAdmin
  <1> QED
    BY <1>1, AdminInvariant, PTL

(* The rights of a user let pass what the policy behind them grants. *)
LEMMA BackedGrants ==
  ASSUME NEW r, NEW q \in Policies, NEW p \in Keys, normalizePath(p) = p, Backed(r, q)
  PROVE  CanRead(rights[r], p) <=> ProxyAdmin(r) \/ Grants(q, rights[r].user, p)
  <1> DEFINE u == rights[r].user
             mine == IF u \in Users /\ q.users[u] # NoEntry THEN q.users[u] ELSE {}
  <1>1. rights[r].patterns = mine /\ (rights[r].isAdmin <=> u \in q.admins \/ ProxyAdmin(r))
    BY DEF Backed, GetUserPermissions
  <1>2. \A pattern \in mine : matchPermission(pattern, p) <=> Covers(pattern, p)
    BY PatternAssumption, StringsAreKeys, MatchIsCovers
  <1>3. CanRead(rights[r], p) <=>
          u \in q.admins \/ ProxyAdmin(r) \/ \E pattern \in mine : Covers(pattern, p)
    BY <1>1, <1>2 DEF CanRead
  <1>4. Grants(q, u, p) <=> u \in q.admins \/ \E pattern \in mine : Covers(pattern, p)
    BY DEF Grants
  <1> QED
    BY <1>3, <1>4

(* Every write was granted to its user by a policy that was in force after *)
(* the request had arrived, whatever the spelling of its path.             *)
THEOREM WritesAreAuthorized == Spec => []WriteAuthorized
  <1>1. Inv => WriteAuthorized
    <2> SUFFICES ASSUME Inv, NEW r \in applied
                 PROVE  IF cfg.permFile
                          THEN \/ ProxyAdmin(r)
                               \/ \E q \in granted[r] : Grants(q, rights[r].user, Target(r))
                          ELSE cfg.dev
      BY DEF WriteAuthorized, Entitled
    <2>1. r \in Requests /\ pc[r] \in {"writing", "lost", "done"} /\ mayWrite(rights[r], Target(r))
      BY DEF Inv, AppliedInv, CheckedInv
    <2>2. op(r).path \in Keys
      BY <2>1, PathAssumption, StringsAreKeys DEF Inv, AuthInv, AskInv, Types, op
    <2>3. Target(r) \in Keys /\ normalizePath(Target(r)) = Target(r)
      BY <2>2, NormalizedType, NormalizeIdempotent DEF Target
    <2>4. CASE cfg.permFile
      <3>1. PICK q \in granted[r] : Backed(r, q)
        BY <2>1, <2>4 DEF Inv, AuthInv, RightsInv, Handled
      <3>2. rights[r] # NoRights /\ q \in Policies
        BY <2>1, <2>4 DEF Inv, AuthInv, RightsInv, Handled, Types
      <3> QED
        BY <2>1, <2>3, <2>4, <3>1, <3>2, BackedGrants DEF mayWrite, CanWrite
    <2>5. CASE ~cfg.permFile
      BY <2>1, <2>5 DEF Inv, AuthInv, RightsInv, Handled
    <2> QED
      BY <2>4, <2>5
  <1> QED
    BY <1>1, AdminInvariant, PTL

(* The key of an applied update is a canonical one other than the root. *)
CanonicalUpdates ==
  \A r \in applied : op(r).kind = "update" => Canonical(Target(r)) /\ Target(r) # Root

(* Every update that takes effect is stored under a canonical key: the path*)
(* that was authorized, which is compared after path.Clean, and the key    *)
(* that is written, which is not, are the same letter by letter.           *)
THEOREM UpdatesAreCanonical == Spec => []CanonicalUpdates
  <1>1. Inv => CanonicalUpdates
    <2> SUFFICES ASSUME Inv, NEW r \in applied, op(r).kind = "update"
                 PROVE  Canonical(Target(r)) /\ Target(r) # Root
      BY DEF CanonicalUpdates
    <2>1. r \in Requests /\ pc[r] \in {"writing", "lost", "done"} /\ validateVaultPath(Target(r))
      BY DEF Inv, AppliedInv, CheckedInv, Acceptable
    <2>2. op(r).path \in Keys
      BY <2>1, PathAssumption, StringsAreKeys DEF Inv, AuthInv, AskInv, Types, op
    <2>3. Target(r) \in Keys /\ normalizePath(Target(r)) = Target(r)
      BY <2>2, NormalizedType, NormalizeIdempotent DEF Target
    <2> QED
      BY <2>1, <2>3, ValidIsCanonical DEF validateVaultPath
  <1> QED
    BY <1>1, AdminInvariant, PTL

-----------------------------------------------------------------------------
(***************************************************************************)
(* The pages.  A page is built from the rights of its request alone, and   *)
(* both stay as they are.                                                  *)
(***************************************************************************)
Readable(up, p) == p \in Keys /\ normalizePath(p) = p /\ mayRead(up, p)

Shown(g, up) ==
  /\ \A p \in g.entry \cup g.folder \cup g.entries : Readable(up, p)
  /\ \A f \in g.folders : \E p \in DOMAIN g.from :
       Present(g.from, p) /\ Readable(up, p) /\ LiesIn(p, f)

PageInv ==
  /\ DOMAIN stored = Paths
  /\ page = [r \in Requests |-> page[r]]
  /\ \A r \in Requests : page[r] # NoPage => pc[r] = "done" /\ Shown(page[r], rights[r])

(* Whatever is found in a loaded tree is found under a normalized key. *)
LEMMA LoadedKeys ==
  ASSUME NEW s, DOMAIN s \subseteq Seq(STRING), NEW t \in LoadedTrees(s),
         NEW p \in DOMAIN t, Present(t, p)
  PROVE  p \in Keys /\ normalizePath(p) = p
  <1>1. t[p] \in normalizeKeys(s, p) /\ t[p] # NoNode
    BY DEF LoadedTrees, Present
  <1>2. PICK k \in DOMAIN s : normalizePath(k) = p
    BY <1>1 DEF normalizeKeys
  <1>3. k \in Keys
    BY <1>2, StringsAreKeys
  <1> QED
    BY <1>2, <1>3, NormalizedType, NormalizeIdempotent

(* One segment more of the key that cur begins. *)
LEMMA NextSegment ==
  ASSUME NEW cur \in Keys, NEW p \in Keys, Under(p, cur), cur # <<>>
  PROVE  /\ Len(cur) \in 1..Len(p) /\ Len(cur) + 1 \in 1..Len(p)
         /\ cur = SubSeq(p, 1, Len(cur))
         /\ Append(cur, p[Len(cur) + 1]) = SubSeq(p, 1, Len(cur) + 1)
  <1> DEFINE n == Len(cur)
  <1>1. n \in Nat \ {0} /\ Len(p) \in Nat /\ n <= Len(p)
    BY EmptySeq DEF Under, IsStrictPrefix, IsPrefix, Keys
  <1>2. SubSeq(cur, 1, n) = cur /\ SubSeq(p, 1, Len(p)) = p
    BY SubSeqFull DEF Keys
  <1>3. cur = SubSeq(p, 1, n) /\ cur # p
    BY <1>2 DEF Under, IsStrictPrefix, IsPrefix
  <1>4. n # Len(p)
    BY <1>2, <1>3
  <1> HIDE DEF n
  <1>5. n + 1 \in 1..Len(p)
    BY <1>1, <1>4
  <1>6. SubSeq(p, 1, n + 1) = Append(SubSeq(p, 1, n), p[n + 1])
    BY <1>1, <1>5, SubSeqRecursiveSecond DEF Keys
  <1> QED
    BY <1>1, <1>3, <1>5, <1>6 DEF n

(* buildTreeState shows only what its rights let it read. *)
LEMMA TreeStateShown ==
  ASSUME NEW s, DOMAIN s \subseteq Seq(STRING), NEW t \in LoadedTrees(s),
         NEW current \in Keys, NEW entry, NEW up
  PROVE  Shown(buildTreeState(t, current, entry, up), up)
  <1> DEFINE cur == normalizePath(current)
             present == {p \in DOMAIN t : Present(t, p) /\ mayRead(up, p)}
             Next1(p) == p[Len(cur) + 1]
             Folder(p) == IF cur # Root THEN Clean(Append(cur, Next1(p)))
                          ELSE IF Next1(p) = "" THEN Root ELSE Append(Root, Next1(p))
             g == buildTreeState(t, current, entry, up)
  <1>1. cur \in Keys /\ cur # <<>>
    BY NormalizedType
  <1>2. \A p \in present : p \in DOMAIN t /\ Present(t, p) /\ Readable(up, p)
    BY LoadedKeys DEF Readable
  <1>3. /\ g.entry \subseteq present /\ g.folder \subseteq present /\ g.entries \subseteq present
        /\ g.from = t
        /\ \A f \in g.folders : \E p \in present : Under(p, cur) /\ f = Folder(p)
    BY DEF buildTreeState, Page
  <1>4. ASSUME NEW p \in present, Under(p, cur) PROVE LiesIn(p, Folder(p))
    <2>1. /\ p \in Keys
          /\ Len(cur) \in 1..Len(p) /\ Len(cur) + 1 \in 1..Len(p)
          /\ cur = SubSeq(p, 1, Len(cur))
          /\ Append(cur, Next1(p)) = SubSeq(p, 1, Len(cur) + 1)
      BY <1>1, <1>2, <1>4, NextSegment DEF Readable
    <2> HIDE DEF cur, present, Next1
    <2>2. Folder(p) \in {cur, Append(cur, Next1(p)), Clean(Append(cur, Next1(p)))}
      OBVIOUS
    <2> HIDE DEF Folder
    <2> QED
      BY <2>1, <2>2 DEF LiesIn
  <1> HIDE DEF Folder, present, g, cur
  <1> QED
    BY <1>2, <1>3, <1>4 DEF Shown, g

(* A request that is done stays so, with its rights and its page. *)
LEMMA DoneKept ==
  ASSUME Inv, PageInv, [Next]_vars, NEW r \in Requests, pc[r] = "done"
  PROVE  pc'[r] = "done" /\ rights'[r] = rights[r] /\ page'[r] = page[r]
  <1>1. Types
    BY DEF Inv, AuthInv
  <1>2. CASE AuthNext /\ UNCHANGED adminVars
    <2>1. CASE Tick \/ (\E t \in Tokens : Revoke(t)) \/ (\E q \in Policies : ChangePolicy(q))
      BY <1>2, <2>1 DEF Tick, Revoke, ChangePolicy, adminVars
    <2>2. ASSUME NEW x \in Requests, Authenticate(x)
          PROVE  pc'[r] = "done" /\ rights'[r] = rights[r] /\ page'[r] = page[r]
      <3>1. pc[x] \in {"idle"} \cup LoggingIn
        BY <2>2 DEF Authenticate, Arrive, SkipAuth, AcceptJWT, CacheHit, CacheMiss, UserInfo,
           UserInfoAccepted, UserInfoRejected, HeaderAuth, Unauthorized, AsksProvider, NoBearer,
           LoggingIn, Asking
      <3>2. x # r
        BY <3>1 DEF LoggingIn, Asking
      <3>3. \A y \in Requests \ {x} : pc'[y] = pc[y] /\ rights'[y] = rights[y]
        BY <1>1, <2>2 DEF Types, Authenticate, Arrive, SkipAuth, AcceptJWT, CacheHit, CacheMiss,
           UserInfo, UserInfoAccepted, UserInfoRejected, HeaderAuth, Unauthorized, Enter
      <3> QED
        BY <1>2, <3>2, <3>3 DEF adminVars
    <2> QED
      BY <1>2, <2>1, <2>2 DEF AuthNext
  <1>3. ASSUME NEW t \in deployment.trees, ChangeVault(t)
        PROVE  pc'[r] = "done" /\ rights'[r] = rights[r] /\ page'[r] = page[r]
    BY <1>3 DEF ChangeVault
  <1>4. ASSUME NEW x \in Requests, Handle(x)
        PROVE  pc'[r] = "done" /\ rights'[r] = rights[r] /\ page'[r] = page[r]
    <2>1. CASE ApplyWrite(x)
      BY <2>1 DEF ApplyWrite, authVars
    <2>2. CASE ~ApplyWrite(x)
      <3>1. x # r
        BY <1>4, <2>2 DEF Handle, ShowNothing, View, Entry, Unlock, Export, Write, ConfirmWrite,
           FailWrite, LoseAnswer, Refuse
      <3>2. \E how : Finish(x, how)
        BY <1>4, <2>2 DEF Handle, ShowNothing, View, Entry, Unlock, Export, Write, ConfirmWrite,
           FailWrite, LoseAnswer, Refuse
      <3>3. pc'[r] = pc[r] /\ rights'[r] = rights[r]
        BY <1>1, <3>1, <3>2 DEF Finish, Types
      <3>4. page'[r] = page[r]
        BY <1>4, <2>2, <3>1 DEF Handle, ShowNothing, View, Entry, Unlock, Export, Write,
           ConfirmWrite, FailWrite, LoseAnswer, Refuse, PageInv
      <3> QED
        BY <3>3, <3>4
    <2> QED
      BY <2>1, <2>2
  <1>5. CASE UNCHANGED vars
    BY <1>5 DEF vars, authVars, adminVars
  <1> QED
    BY <1>2, <1>3, <1>4, <1>5 DEF Next

(* A page appears with the handler that builds it. *)
LEMMA PageAppears ==
  ASSUME Inv, PageInv, [Next]_vars, NEW r \in Requests, page'[r] # page[r]
  PROVE  View(r) \/ Entry(r)
  <1>1. ~UNCHANGED page
    OBVIOUS
  <1>2. PICK x \in Requests : View(x) \/ Entry(x)
    BY <1>1 DEF Next, adminVars, vars, ChangeVault, Handle, ShowNothing, Unlock, Export, Write,
       ApplyWrite, ConfirmWrite, FailWrite, LoseAnswer, Refuse
  <1> QED
    BY <1>2 DEF View, Entry, PageInv

(* The page that a handler builds shows what its request may read. *)
LEMMA NewPageShown ==
  ASSUME Inv, PageInv, NEW r \in Requests, View(r) \/ Entry(r)
  PROVE  pc'[r] = "done" /\ Shown(page'[r], rights'[r])
  <1>1. /\ Types /\ pc[r] = "ready" /\ Finish(r, "done")
        /\ DOMAIN stored \subseteq Seq(STRING) /\ <<>> \in Keys
    BY TreeAssumption, EmptySeq DEF Inv, AuthInv, PageInv, View, Entry, Keys
  <1>2. op(r).path \in Keys
    BY <1>1, PathAssumption, StringsAreKeys DEF Inv, AuthInv, AskInv, Types, op
  <1>3. PICK t \in LoadedTrees(stored), current \in Keys, entry \in Keys :
          page' = [page EXCEPT ![r] = buildTreeState(t, current, entry, rights[r])]
    BY <1>1, <1>2 DEF View, Entry
  <1>4. page'[r] = buildTreeState(t, current, entry, rights[r]) /\ rights' = rights
        /\ pc'[r] = "done"
    BY <1>1, <1>3 DEF PageInv, Finish, Types
  <1>5. Shown(buildTreeState(t, current, entry, rights[r]), rights[r])
    BY <1>1, TreeStateShown
  <1> QED
    BY <1>4, <1>5

(* Every step preserves what holds of the pages. *)
LEMMA PageNext == Inv /\ PageInv /\ [Next]_vars => PageInv'
  <1> SUFFICES ASSUME Inv, PageInv, [Next]_vars PROVE PageInv'
    OBVIOUS
  <1>1. (DOMAIN stored = Paths)'
    <2>1. CASE UNCHANGED stored
      BY <2>1 DEF PageInv
    <2>2. ASSUME NEW t \in deployment.trees, ChangeVault(t) PROVE DOMAIN stored' = Paths
      BY <2>2, TreeAssumption DEF ChangeVault, Inv, AuthInv, Types
    <2>3. ASSUME NEW r \in Requests, ApplyWrite(r) PROVE DOMAIN stored' = Paths
      BY <2>3 DEF ApplyWrite, Store!Apply, Store!Result, PageInv
    <2> QED
      BY <2>1, <2>2, <2>3 DEF Next, adminVars, vars, Handle, ShowNothing, View, Entry, Unlock,
         Export, Write, ConfirmWrite, FailWrite, LoseAnswer, Refuse, Finish
  <1>2. page' = [r \in Requests |-> page'[r]]
    <2>1. CASE UNCHANGED page
      BY <2>1 DEF PageInv
    <2>2. CASE \E r \in Requests : View(r) \/ Entry(r)
      BY <2>2 DEF View, Entry, PageInv
    <2> QED
      BY <2>1, <2>2 DEF Next, adminVars, vars, ChangeVault, Handle, ShowNothing, Unlock, Export,
         Write, ApplyWrite, ConfirmWrite, FailWrite, LoseAnswer, Refuse
  <1>3. ASSUME NEW r \in Requests, page'[r] # NoPage
        PROVE  pc'[r] = "done" /\ Shown(page'[r], rights'[r])
    <2>1. CASE page'[r] = page[r]
      BY <1>3, <2>1, DoneKept DEF PageInv
    <2>2. CASE page'[r] # page[r]
      BY <2>2, PageAppears, NewPageShown
    <2> QED
      BY <2>1, <2>2
  <1>4. \A r \in Requests : Shown(page'[r], rights'[r]) <=> Shown(page[r], rights[r])'
    BY DEF Shown, Readable, mayRead, CanRead
  <1> QED
    BY <1>1, <1>2, <1>3, <1>4 DEF PageInv

(* Every page keeps to the rights of its request. *)
LEMMA PageInvariant == Spec => []PageInv
  <1>1. Init => PageInv
    BY TreeAssumption DEF Init, AuthInit, PageInv
  <1> QED
    BY <1>1, PageNext, AdminInvariant, PTL DEF Spec

(* One policy that was in force during the request grants all that a page  *)
(* shows, and something within every folder that it names: ViewAuthorized. *)
THEOREM ViewsAreAuthorized == Spec => []ViewAuthorized
  <1>1. Inv /\ PageInv => ViewAuthorized
    <2> DEFINE Allowed(r, q) ==
          /\ \A p \in page[r].entry \cup page[r].folder \cup page[r].entries :
               Grants(q, rights[r].user, p)
          /\ \A f \in page[r].folders : \E p \in DOMAIN page[r].from :
               Present(page[r].from, p) /\ Grants(q, rights[r].user, p) /\ LiesIn(p, f)
    <2> SUFFICES ASSUME Inv, PageInv, NEW r \in Requests, page[r] # NoPage
                 PROVE  IF cfg.permFile THEN ProxyAdmin(r) \/ \E q \in granted[r] : Allowed(r, q)
                        ELSE cfg.dev
      BY DEF ViewAuthorized, Entitled
    <2>1. pc[r] = "done" /\ Shown(page[r], rights[r])
      BY DEF PageInv
    <2>2. CASE cfg.permFile /\ ~ProxyAdmin(r)
      <3>1. PICK q \in granted[r] : Backed(r, q)
        BY <2>1, <2>2 DEF Inv, AuthInv, RightsInv, Handled
      <3>2. rights[r] # NoRights /\ q \in Policies
        BY <2>1, <2>2 DEF Inv, AuthInv, RightsInv, Handled, Types
      <3>3. \A p : Readable(rights[r], p) => Grants(q, rights[r].user, p)
        BY <2>2, <3>1, <3>2, BackedGrants DEF Readable, mayRead
      <3>4. Allowed(r, q)
        BY <2>1, <3>3 DEF Shown
      <3> QED
        BY <2>2, <3>4
    <2>3. CASE ~cfg.permFile
      BY <2>1, <2>3 DEF Inv, AuthInv, RightsInv, Handled
    <2> QED
      BY <2>2, <2>3
  <1> QED
    BY <1>1, PageInvariant, AdminInvariant, PTL

-----------------------------------------------------------------------------
(***************************************************************************)
(* The converse: what all policies since the arrival of a request grant is *)
(* shown to it and not refused.                                            *)
(***************************************************************************)
Reached(r, p) == cfg.permFile => ProxyAdmin(r) \/ \A q \in granted[r] : Grants(q, rights[r].user, p)

(* A request that was let in may read and write what was granted to it. *)
LEMMA ReachedIsAllowed ==
  ASSUME Inv, NEW r \in Requests, pc[r] = "ready", NEW p \in Keys, normalizePath(p) = p,
         Reached(r, p)
  PROVE  mayRead(rights[r], p) /\ mayWrite(rights[r], p)
  <1>1. CASE cfg.permFile
    <2>1. PICK q \in granted[r] : Backed(r, q)
      BY <1>1 DEF Inv, AuthInv, RightsInv, Handled
    <2>2. q \in Policies
      BY <1>1 DEF Inv, AuthInv, Types
    <2>3. ProxyAdmin(r) \/ Grants(q, rights[r].user, p)
      BY <1>1 DEF Reached
    <2> QED
      BY <2>1, <2>2, <2>3, BackedGrants DEF mayRead, mayWrite, CanWrite
  <1>2. CASE ~cfg.permFile
    BY <1>2 DEF Inv, AuthInv, RightsInv, Handled, mayRead, mayWrite
  <1> QED
    BY <1>1, <1>2

(* The next folder on the way to a canonical key. *)
LEMMA OnTheWay ==
  ASSUME NEW p, Canonical(p), NEW n \in Nat \ {0}, n + 1 <= Len(p)
  PROVE  LET cur == SubSeq(p, 1, n)
         IN  /\ normalizePath(cur) = cur /\ Len(cur) = n /\ Under(p, cur)
             /\ Append(cur, p[n + 1]) = SubSeq(p, 1, n + 1)
             /\ Clean(SubSeq(p, 1, n + 1)) = SubSeq(p, 1, n + 1)
             /\ p[n + 1] # ""
  <1> DEFINE cur == SubSeq(p, 1, n)
  <1>1. p \in Keys /\ Len(p) \in Nat
    BY DEF Canonical
  <1>2. n \in 1..Len(p) /\ n + 1 \in 1..Len(p) /\ n + 1 \in 2..Len(p)
    BY <1>1
  <1>3. /\ Canonical(cur) /\ Len(cur) = n
        /\ Canonical(SubSeq(p, 1, n + 1))
    BY <1>2, PrefixIsCanonical
  <1>4. normalizePath(cur) = cur
    <2>1. ASSUME NEW c, Canonical(c) PROVE normalizePath(c) = c
      <3>1. c # <<>> /\ Head(c) = "/"
        BY <2>1, KeyLength DEF Canonical
      <3> QED
        BY <3>1 DEF normalizePath, IsAbsolute
    <2> QED
      BY <1>3, <2>1
  <1>5. Under(p, cur)
    <2>1. SubSeq(cur, 1, n) = cur
      BY <1>3, SubSeqFull DEF Canonical, Keys
    <2>2. cur # p
      BY <1>1, <1>3
    <2> QED
      BY <1>1, <1>3, <2>1, <2>2 DEF Under, IsStrictPrefix, IsPrefix
  <1>6. Append(cur, p[n + 1]) = SubSeq(p, 1, n + 1)
    BY <1>1, <1>2, SubSeqRecursiveSecond DEF Keys
  <1>7. Clean(SubSeq(p, 1, n + 1)) = SubSeq(p, 1, n + 1)
    BY <1>3, CanonicalIsClean
  <1>8. p[n + 1] # ""
    BY <1>2 DEF Canonical, Name
  <1> QED
    BY <1>3, <1>4, <1>5, <1>6, <1>7, <1>8

(* Without an entry to show, the page is that of a folder. *)
LEMMA NoEntryIsRoot == normalizePath(<<>>) = Root
  <1>1. Root \in Seq(Segments)
    BY RootIsCanonical DEF Canonical, Keys
  <1> QED
    BY <1>1, ConcatEmptySeq DEF normalizePath, IsAbsolute

(* The page of a folder on the way to a secret that may be read leads on to*)
(* it: it shows the secret, or the next folder.                            *)
LEMMA LeadsOn ==
  ASSUME NEW t, NEW p \in DOMAIN t, NEW up, Leaf(t, p), mayRead(up, p), Canonical(p),
         NEW n \in Nat \ {0}, n + 1 <= Len(p)
  PROVE  LET g == buildTreeState(t, SubSeq(p, 1, n), <<>>, up)
         IN  IF n + 1 = Len(p) THEN p \in g.entries ELSE SubSeq(p, 1, n + 1) \in g.folders
  <1> DEFINE cur == SubSeq(p, 1, n)
             present == {q \in DOMAIN t : Present(t, q) /\ mayRead(up, q)}
             Next1(q) == q[Len(cur) + 1]
             IsLast(q) == Len(q) = Len(cur) + 1
             below == {q \in present : Under(q, cur) /\ ~(IsLast(q) /\ Next1(q) = "")}
             leaves == {q \in below : IsLast(q) /\ Leaf(t, q)}
             Folder(q) == IF cur # Root THEN Clean(Append(cur, Next1(q)))
                          ELSE IF Next1(q) = "" THEN Root ELSE Append(Root, Next1(q))
             g == buildTreeState(t, cur, <<>>, up)
  <1>1. /\ normalizePath(cur) = cur /\ Len(cur) = n /\ Under(p, cur)
        /\ Append(cur, p[n + 1]) = SubSeq(p, 1, n + 1)
        /\ Clean(SubSeq(p, 1, n + 1)) = SubSeq(p, 1, n + 1)
        /\ p[n + 1] # ""
    BY OnTheWay
  <1>2. g.entries = leaves /\ g.folders = {Folder(q) : q \in below \ leaves}
    <2> HIDE DEF cur
    <2> QED
      BY <1>1, NoEntryIsRoot DEF buildTreeState, Page
  <1>3. p \in below
    <2>1. p \in present
      BY DEF Leaf
    <2> QED
      BY <1>1, <2>1
  <1>4. Folder(p) = SubSeq(p, 1, n + 1)
    BY <1>1
  <1>5. p \in leaves <=> n + 1 = Len(p)
    <2> HIDE DEF cur, below
    <2> QED
      BY <1>1, <1>3
  <1> HIDE DEF g, below, leaves, Folder
  <1>6. CASE n + 1 = Len(p)
    BY <1>2, <1>5, <1>6 DEF g
  <1>7. CASE n + 1 # Len(p)
    BY <1>2, <1>3, <1>4, <1>5, <1>7 DEF g
  <1> QED
    BY <1>6, <1>7

(* Every secret with a canonical path that all policies since the arrival  *)
(* of a request grant is shown on the page of its folder, and from the root*)
(* every page on the way there names the next folder: ViewNavigable.       *)
THEOREM ViewsLeadToSecrets == Spec => []ViewNavigable
  <1>1. Inv /\ PageInv => ViewNavigable
    <2> SUFFICES ASSUME Inv, PageInv, NEW r \in Requests, pc[r] = "ready",
                        NEW t \in LoadedTrees(stored), NEW p \in DOMAIN t,
                        Leaf(t, p), validateVaultPath(p), Reached(r, p)
                 PROVE  /\ p \in buildTreeState(t, Front(p), <<>>, rights[r]).entries
                        /\ \A i \in 2..(Len(p) - 1) : SubSeq(p, 1, i) \in
                             buildTreeState(t, SubSeq(p, 1, i - 1), <<>>, rights[r]).folders
      BY DEF ViewNavigable, Promised, Reached
    <2>1. p \in Keys /\ normalizePath(p) = p
      BY TreeAssumption, LoadedKeys DEF PageInv, Leaf
    <2>2. Canonical(p) /\ Len(p) # 1
      BY <2>1, ValidIsCanonical
    <2>3. mayRead(rights[r], p)
      BY <2>1, ReachedIsAllowed
    <2> DEFINE At(c) == buildTreeState(t, c, <<>>, rights[r])
               n == Len(p)
    <2>4. ASSUME NEW k \in Nat \ {0}, k + 1 <= n
          PROVE  IF k + 1 = n THEN p \in At(SubSeq(p, 1, k)).entries
                 ELSE SubSeq(p, 1, k + 1) \in At(SubSeq(p, 1, k)).folders
      BY <2>2, <2>3, <2>4, LeadsOn
    <2> HIDE DEF At
    <2>5. n \in Nat \ {0} /\ n # 1
      <3>1. n \in Nat \ {0}
        BY <2>2 DEF Canonical
      <3> QED
        BY <2>2, <3>1
    <2> HIDE DEF n
    <2>6. n - 1 \in Nat \ {0} /\ (n - 1) + 1 = n
      BY <2>5
    <2>7. p \in At(SubSeq(p, 1, n - 1)).entries
      BY <2>4, <2>6
    <2>8. ASSUME NEW i \in 2..(n - 1)
          PROVE  SubSeq(p, 1, i) \in At(SubSeq(p, 1, i - 1)).folders
      <3>1. i - 1 \in Nat \ {0} /\ (i - 1) + 1 = i /\ i <= n /\ i # n
        BY <2>5
      <3> QED
        BY <2>4, <3>1
    <2> QED
      BY <2>7, <2>8 DEF At, n, Front
  <1> QED
    BY <1>1, PageInvariant, AdminInvariant, PTL

(* A request that was let in is denied by its handler, which refuses it. *)
LEMMA DeniedIsRefused ==
  ASSUME Inv, [Next]_vars, NEW r \in Requests, pc[r] = "ready", pc'[r] = "denied"
  PROVE  Refuse(r)
  <1>1. Types
    BY DEF Inv, AuthInv
  <1>2. ~UNCHANGED pc
    OBVIOUS
  <1>3. ASSUME AuthNext PROVE FALSE
    <2>1. PICK x \in Requests : Authenticate(x)
      BY <1>2, <1>3 DEF AuthNext, Tick, Revoke, ChangePolicy
    <2>2. pc[x] \in {"idle"} \cup LoggingIn
      BY <2>1 DEF Authenticate, Arrive, SkipAuth, AcceptJWT, CacheHit, CacheMiss, UserInfo,
         UserInfoAccepted, UserInfoRejected, HeaderAuth, Unauthorized, AsksProvider, NoBearer,
         LoggingIn, Asking
    <2>3. x # r
      BY <2>2 DEF LoggingIn, Asking
    <2>4. \A y \in Requests \ {x} : pc'[y] = pc[y]
      BY <1>1, <2>1 DEF Types, Authenticate, Arrive, SkipAuth, AcceptJWT, CacheHit, CacheMiss,
         UserInfo, UserInfoAccepted, UserInfoRejected, HeaderAuth, Unauthorized, Enter
    <2> QED
      BY <2>3, <2>4
  <1>4. PICK x \in Requests : Handle(x)
    BY <1>2, <1>3 DEF Next, vars, authVars, ChangeVault
  <1>5. ~ApplyWrite(x)
    BY <1>2 DEF ApplyWrite, authVars
  <1>6. ASSUME ~Refuse(x) PROVE \E how \in {"writing", "lost", "done", "failed"} : Finish(x, how)
    BY <1>4, <1>5, <1>6 DEF Handle, ShowNothing, View, Entry, Unlock, Export, Write, ConfirmWrite,
       FailWrite, LoseAnswer
  <1>7. \A how : Finish(x, how) => pc'[x] = how /\ \A y \in Requests \ {x} : pc'[y] = pc[y]
    BY <1>1 DEF Finish, Types
  <1>8. Refuse(x)
    BY <1>6, <1>7
  <1> QED
    BY <1>7, <1>8 DEF Refuse

(* A check of a path is one of its normal form. *)
LEMMA SpellingIsNone ==
  ASSUME NEW p \in Keys, NEW up
  PROVE  mayRead(up, p) <=> mayRead(up, normalizePath(p))
  BY NormalizeIdempotent DEF mayRead, CanRead, matchPermission

(* A request that was let in is an admin's where all policies say so. *)
LEMMA RulesIsAdmin ==
  ASSUME Inv, NEW r \in Requests, pc[r] = "ready",
         cfg.permFile => ProxyAdmin(r) \/ \A q \in granted[r] : rights[r].user \in q.admins
  PROVE  isAdmin(rights[r]) /\ mayExport(rights[r])
  BY DEF Inv, AuthInv, RightsInv, Handled, Backed, isAdmin, mayExport, CanExport

(* Nobody is refused what all policies since the request arrived grant him *)
(* while the vault is unlocked and his input valid: GrantedIsNotRefused.   *)
THEOREM GrantsAreNotRefused == Spec => GrantedIsNotRefused
  <1> DEFINE Rules(r) == cfg.permFile =>
               ProxyAdmin(r) \/ \A q \in granted[r] : rights[r].user \in q.admins
             Justified(r) ==
               \/ ~unlocked /\ op(r).kind # "unlock"
               \/ ~Acceptable(r)
               \/ IF op(r).kind \in {"unlock", "export"} THEN ~Rules(r) ELSE ~Reached(r, Target(r))
  <1>1. ASSUME Inv, [Next]_vars, NEW r \in Requests, pc[r] = "ready", pc'[r] = "denied"
        PROVE  Justified(r)
    <2>1. Refuse(r)
      BY <1>1, DeniedIsRefused
    <2>2. op(r).path \in Keys
      BY <1>1, PathAssumption, StringsAreKeys DEF Inv, AuthInv, AskInv, Types, op
    <2>3. Target(r) \in Keys /\ normalizePath(Target(r)) = Target(r)
      BY <2>2, NormalizedType, NormalizeIdempotent DEF Target
    <2>4. Reached(r, Target(r)) =>
            mayRead(rights[r], op(r).path) /\ mayWrite(rights[r], Target(r))
      BY <1>1, <2>2, <2>3, ReachedIsAllowed, SpellingIsNone DEF Target
    <2>5. Rules(r) => isAdmin(rights[r]) /\ mayExport(rights[r])
      BY <1>1, RulesIsAdmin
    <2> HIDE DEF Rules
    <2> QED
      BY <2>1, <2>4, <2>5 DEF Refuse
  <1>2. Inv /\ [Next]_vars => [\A r \in Requests : pc[r] = "ready" /\ pc'[r] = "denied" =>
                                 Justified(r)]_vars
    BY <1>1
  <1> QED
    BY <1>2, AdminInvariant, PTL DEF Spec, GrantedIsNotRefused, Promised, Reached
=============================================================================
