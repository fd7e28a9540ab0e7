# Formal model of csi-secret-age

csi-secret-age is a provider for the Secrets Store CSI driver. It keeps a tree
of secrets, encrypted with age, in one Kubernetes Secret; a DaemonSet of pods
decrypts it to serve mounts, and an admin UI in every pod changes it. This
directory holds TLA+ models of its core, the TLC runs that check them on small
instances, and TLAPS proofs of the main results for every instance.

Checking: `tlc -config <run>.cfg <module>` for the runs listed in
`PROJECT.json`, `tlapm <module>.tla` for each of the `*Proofs` modules.

## Inventory

| Component | State | Operations | Talks to |
|---|---|---|---|
| Vault manager (`vault.go`) | `identity`, `isLocked` under a RWMutex | `NewVaultManager`, `Unlock`, `verifyIdentity`, `LoadAndDecrypt`, `UpdateVault`, (`EncryptAndSave`, tests only) | the API server: Get, Create, Update of the one Secret |
| Vault paths (`ui.go`, `vault.go`) | none | `normalizePath`, `validateVaultPath`, `checkPathConflict`, `normalizeKeys` | called by the UI, CSI and permission code |
| Admin UI (`ui.go`) | none of its own; a request carries a copy of its user's rights | `/`, `/entry`, `/unlock`, `/update`, `/delete`, `/export`, `withAuth`, `buildTreeState` | vault manager, permission manager |
| Permission manager (`permissions.go`) | `permissions`, `admins`, `namespacePermissions` under a RWMutex | `Load`, `Watch`, `CanAccess`, `GetUserPermissions`, `matchPermission` | the permissions file, through fsnotify |
| JWKS cache (`permissions.go`) | `keys`, `lastFetch` under a RWMutex that is held during the fetch | `cached`, `getKey`, `fetch` | the identity provider's endpoint |
| UserInfo cache (`permissions.go`) | `entries` with an expiry | `get`, `put`, `ValidateAccessToken` | the identity provider |
| CSI provider (`csi.go`) | none of its own | `Mount`, `Version` | vault manager, permission manager |
| Startup and shutdown (`main.go`) | an errgroup and its context | checks of the settings, start of the servers and of `Watch`, shutdown | all of the above |
| Configuration, key providers (`config.go`, `keyprovider*.go`, `awskms`, `gcpkms`) | none | `GetMasterKey`, `ResolveSecrets` | environment, files, cloud KMS |

Where it is hard:

* **Several pods and requests, one Secret.** Nothing but the `resourceVersion`
  check of the API server keeps two read-change-write cycles apart. Retries
  read again and must check again.
* **Failure.** Pods die with requests halfway, answers get lost while the
  write succeeds, an operator deletes the Secret. A write that is in flight
  outlives its sender.
* **Check, then act.** `Unlock` verifies a key before it takes the lock; a
  vault can come into being in between.
* **A file that changes while it is watched and read.** An inotify watch belongs
  to an inode, kubelet replaces the file, editors truncate it or move it away,
  and `Load` can fail halfway through.
* **A mount takes several steps**, and the policy and the vault change meanwhile.
* **A lock held over a network call** in the JWKS cache, with a fallback to
  old keys when the call fails.
* **Three ways to log in, tried one after the other**, and a cache of what the
  identity provider said of a token, which several requests fill at once. The rights
  of a user are copied at the login and used later.
* **An end that everybody waits for.** main waits for the servers, the CSI server for
  its mounts, and nobody for the admin UI; the first error decides the exit code.

What makes each part correct: the vault is a linearizable store whose key never
changes and whose tree stays well formed; a request ends, and tells the truth
about what it did; the policy in memory has no entry that the file it came from
does not give, and follows the file; a mount is authorized, whole, and a snapshot; a withdrawn
signing key stops verifying and a new one is found; a request to the UI gets what a
policy in force while it ran gives its user, and finds all of that; a withdrawn token
stops working; a process starts with the right key and ends in an orderly way.

## Modules

| Module | Models | Extends |
|---|---|---|
| `VaultPath` | paths as sequences of segments; the path functions of `ui.go`, `normalizeKeys` | |
| `VaultStore` | abstract specification: one tree, requests applied atomically and at most once | |
| `Vault` | all pods' vault managers, `/unlock`, `/update`, `/delete`, the API server | `VaultPath`; implements `VaultStore` |
| `Policy` | `matchPermission`, `CanAccess`, the rights of UI users, what `Load` makes of a file | `VaultPath` |
| `Permissions` | `Load` at startup, `Watch`, the file | `Policy` |
| `Mount` | `ProviderServer.Mount` against a changing vault and policy | `Policy` |
| `JWKSCache` | `jwksCache.getKey` against a rotating, failing endpoint | |
| `Config` | secrets from variables and files, key providers, settings that are refused | |
| `Auth` | `withAuth`, the checks of a token, the UserInfo cache | `Policy`, `Config` |
| `Admin` | the handlers of the admin UI behind `withAuth`, `buildTreeState` | `Auth`; the vault is `VaultStore` |
| `Lifecycle` | `main`, the errgroup, the shutdown of the servers | `Config` |
| `VaultProofs`, `PermissionsProofs`, `MountProofs`, `JWKSCacheProofs`, `AdminProofs`, `LifecycleProofs` | theorems about the module of that name (`AdminProofs`: `Auth` as well) | that module, `TLAPS` |
| `VaultPathProofs` | what `normalizePath`, `path.Clean` and `validateVaultPath` compute | `VaultPath`, `TLAPS` |
| `PolicyProofs` | what `matchPermission` accepts, for `MountProofs` and `AdminProofs` | `Policy`, `VaultPathProofs` |
| `MC*` | constants of the TLC instances | the module of that name |

Definitions keep the names of the Go functions where there is one. `PROJECT.json`
("map") gives the lines of every definition. Definitions whose comment begins
with "Mutant of" are deliberately wrong variants: putting one in the place of the
definition it names must break the property that `PROJECT.json` lists with it.

### Conventions

A path is the sequence of its segments: `"/a/b"` is `<<"/", "a", "b">>`, `"a"` is
`<<"a">>`, a trailing slash is an empty last segment. Trees are functions from
paths to nodes or `NoNode`. Encryption is the key it was done with: what is sealed
for a key can be read with that key only.

### Vault

A step is what happens between two points where others can run: one API call, one
critical section of the mutex. `UpdateVault` is `BeginWrite` (the handler's checks;
the identity is copied once), then per attempt one of the `Read` steps (Get,
decrypt, run the modifier, and either return or send the write) and one of the
`Answer` steps. Decryption and the modifier work on the request's own copy, so that
they belong to the step of the Get. `call[w]` is the fate of the write at
the API server; it goes on when the request has returned or its pod has died.
`Unlock` is begin, `verifyIdentity` and `UnlockCommit`; at boot it runs for the pod
itself, before the servers start. `NetworkError` and `GetFails` can happen at any
time. The context given to `UpdateVault` is the server's, not the request's, so
that a client that goes away does not end the request.

The API server is external: Create fails if the name is taken, Update if the Secret
is gone or has another `resourceVersion`, and versions never repeat. Changes of the
Secret by others are its deletion and changes that leave the vault alone
(`TouchSecret`: labels, annotations), at most `MaxTouched` of them; nobody but the
provider writes `vault.enc`, and stored data is not corrupted. `/delete` and
`/update` may be rejected without a reason (`RejectWrite`), which stands for the
authentication and authorization that `Admin` models.

`start`, `seen`, `checked` and `born` are history variables: no action reads them
except to update them.

### Permissions

`file` and `exists` are the path as a reader finds it; `watch` says whether the inode
watched is the one behind the path. An edit in place is reported to a current
watch; a swap (kubelet) is not, but the deletion of the old file is. `events` is the
set of kinds pending, since a second event of a kind adds nothing but another reset of
the debounce timer. `Load` is two steps, because the file is read and parsed before
the lock is taken. YAML sections are decoded in the random order of a Go map, and an
error ends the loop: `LoadOutcomes` is the set of policies that can result.

A list in the file is what decodes of it (`items`) and whether it has elements that do
not (`torn`); `Bad` is what is no list at all. yaml.v3 goes on after an element that does
not decode and reports the error at the end, so that where `Load` decodes in
place, into `admins` and `namespacePermissions`, the good part of a torn list stays behind;
a user's list is decoded on its own and stored only if there was no error.

### Mount

One step for each item of the list, since each one asks the policy anew. The tree is
read once. Without a permission manager (`NoPermMgr`) `canAccess` depends on the
development mode alone. `rights` and `trees` record which policies and vaults there were
during the call, `asked` what it was called with.

### JWKSCache

Time is a counter; the HTTP client's timeout bounds how far it can go during a
fetch. The endpoint answers at one moment (`Serve`) and the answer is taken up at a
later one. A document is the set of key ids that `parseJWKSKeys` keeps, or `Broken` if
it rejects the document; the empty set is rejected as well.

### Config

A secret is a pair of a value and a file's content. A ciphertext of a cloud's KMS
stands for the key it decrypts to; whether the client can be built and whether it
decrypts are separate, since the code falls back to the next source after the first
kind of failure and leaves the vault locked after the second.

### Auth and Admin

A request goes `idle`, `auth`, (`asking`, `answered`, `header`,) `ready`, and then
through its handler. Steps are separated where others can run: the call of the
UserInfo endpoint, the way of its answer, the copy of the rights (`GetUserPermissions`
under the lock of the permission manager), the read of the vault, and the
moment a write takes effect. The endpoint looks at a token at one moment and the
answer is taken up at most `MaxDelay` later: the code sets no timeout for this call, so
this bound is an assumption, and nothing in the program enforces it (the server's
`WriteTimeout` does not cancel the request's context, on which the call runs; only a client
that hangs up does). Claims are attributes of a token: signature, the times from and until
which it is valid, audience, issuer, user, `email_verified`. With `JWT_JWKS_URL`, any token
may fail as a JWT because the lookup of its key fails (`NotProven`); it then takes the
same way on as a bad one.

The vault in `Admin` is `VaultStore`: `ApplyWrite` is its `Apply`, which `Vault` is proved to
implement. A write can take effect after its handler lost track of it. What a
page shows is a set of paths (`entry`, `folder`, `folders`, `entries`).

`login`, `granted` and the tree in `page` are history variables. A policy is in
`granted[r]` if it was in force at some moment since `r` arrived.

`Deployments` are combinations of settings with what users send there; the ones that
`main` refuses to start with are in the list and yield no initial state.

### Lifecycle

`main` up to the errgroup is one step per call that can end the process. The
three tasks report to the errgroup with `Return`. `server` is the state of the
`grpc.Server`, which `GracefulStop` changes in a goroutine of its own: it refuses new
calls, `Serve` returns when the last call is over, and a `Serve` that comes too late is
an error. `ListenAndServe` of the admin UI returns when `Shutdown` begins; handlers that
are still running are cut off when `main` returns, which for the vault is a
`Crash` of `Vault`. A signal before `signal.Notify` kills the process; after the first one
signals have no effect.

## Runs

| Run | Instance | Shows |
|---|---|---|
| `vault_pairs` | 2 pods, 2 writes out of 6 (secret, entry below it, folder, deletion, two invalid forms) | the pods implement `VaultStore` (`StoreSpec`); no entry below a secret (`WellFormedVault`); types |
| `vault_keys` | 1 pod with restarts, 2 keys, 2 unlocks, 2 writes, every kind of initial Secret without a vault | the vault's key never changes; a loaded key is never replaced; a wrong key was checked before the vault existed |
| `vault_returns` | 1 pod, 2 writes, 2 attempts each, 3 changes of the Secret by others, with fairness | a conflict is reported only after as many changes as attempts; every error but a lost answer is definite; every call of `UpdateVault` returns |
| `permissions` | 4 files and garbage, 3 changes of any kind at any time | no entry in memory that the last parsed file does not give, also after a reload that failed halfway (`RevokedIsGone`); a change the watch can see is never forgotten (`NothingForgotten`) and is loaded (`ConvergesWhenWatched`); whatever is reported gets the file loaded, with the changes missed before (`ReportedIsLoaded`) |
| `mount` | 1 mount of up to 3 items by 4 identities, 3 changes of vault or policy | authorized, snapshot, complete; no item is refused that the policy of that moment grants (`GrantedIsServed`) |
| `jwks` | 2 goroutines with any number of lookups, 2 keys, 2 rotations, 4 moments | fresh keys, withdrawn keys stay out, rotated keys are found, lookups end |
| `admin` | 2 requests in 4 deployments (identity provider; the same with proxy headers; proxy; development mode) and 3 refused ones, 2 policies, 2 trees, 4 moments, TTL 1 | nobody sees, writes, unlocks or exports more than allowed (`WriteAuthorized`, `ViewAuthorized`, `AdminOnly`); everything that all policies since the request arrived allow is found (`ViewNavigable`) and not refused (`GrantedIsNotRefused`); withdrawn tokens end (`RevokedTokenExpires`); only vouched answers are cached (`CacheVouched`) |
| `lifecycle` | 13 combinations of settings, secrets and build tags, 2 mounts, with fairness | the right key (`KeyFromRightSource`), mounts end first (`MountsDrain`), failures show in the exit code (`FailureIsReported`), a signal ends the process (`InterruptEnds`) |

Why the bounds are enough: the races of `Vault` are between two requests, or between
one request and one change by another; to use up `MaxRetries = 2` attempts, which is
the smallest number with a retry, other changes of the Secret are enough; the
code's 5 adds passes of the same loop. `vault_keys` has one pod: writes that were
sent before a restart carry the old key, so that two keys are in use at once as with two
pods, and the theorems hold for any number of pods. In `Permissions`, three changes
allow one before the first watch, one while an event is handled and one during the
reload. In `JWKSCache` the clock is long enough for a key to be older than the
refresh interval and one fetch. In `Admin` two requests are enough for one to fill
the cache while the other waits for an older answer, and the clock goes one moment
beyond the last at which a withdrawn token may work. The policies differ in what
each user gains and loses; the trees hold secrets directly and deeper below, a key
without a leading slash and one with "..". In `Lifecycle` the tasks are as many as in the
code, and a second mount shows that all are waited for.

`CHECK_DEADLOCK FALSE` is in every configuration: a finite number of requests, edits
or ticks comes to its end, and the system then rests. That nothing is stuck before is
what the liveness properties say.

Symmetry (pods, writers, unlocks, keys) is used in runs without liveness properties
only; `k1` occurs in no initial state of the run that permutes keys.

### Fairness

* `vault_returns`: weak fairness of the request's `Read` and `Answer` steps (a goroutine
  that can run does) and of the API server (client-go's call returns). No fairness for
  users, operators, boots or crashes.
* `permissions`: weak fairness of each step of the goroutine; `select` picks
  among ready channels at random, so none is passed over for ever, and the timer fires.
  kubelet deletes the file it replaced.
* `lifecycle`: weak fairness of `main`, of each task's own steps, of the goroutine that stops
  the CSI server, and of the end of each mount (it waits for one call of the API server,
  and its caller, the CSI driver, gives up at a deadline). None for failures, signals
  or new mounts.
* `jwks`: strong fairness of a lookup's steps: Go's `RWMutex` lets in everyone who waits,
  although others come and go. The endpoint need not answer; the client's timeout ends
  the fetch.

## Findings

Each is a run expected to fail, on what a comment or a document of the repository says.

* `vault_unlock_race`: a pod can load a key that does not open the existing vault, if
  another pod creates the vault between `verifyIdentity` and the assignment
  (`vault.go:132-142`). `WrongKeyIsOlder` shows that this is the only way, and
  `KeyNeverChanges` that such a pod does no harm to the vault; it fails mounts and
  writes until it is restarted.
* `vault_nil_data`: `UpdateVault` panics on an existing Secret whose data is nil
  (`vault.go:362`), which `verifyIdentity` accepts for bootstrapping.
* `perm_lost_watch`: if the file is away while the remove event is handled, there is no
  watch from then on (`permissions.go:455`).
* `perm_admins`: `Load` never empties the list of admins (`permissions.go:367`).

Seen while modelling, without a run: the file can change between the
`Load` at startup and the first watch, and that change is loaded only with the next one
(in `Permissions`, `missed` marks it, and `ReportedIsLoaded` is about the next one); after a
`Load` that fails on the entry of a service account because it is no list at all, the
account falls back to the entry of its namespace, if that one was decoded, while of a
list with one bad element the good ones are in force; stored keys without a leading slash, which nothing in the repository
writes but `normalizeKeys` expects, are shown normalized, and `/delete` of the
shown path deletes nothing.

Also without a run:

* README.md:229 says "every token must contain that audience"; a JWT that fails this check
  in `ValidateJWT` goes on to `ValidateAccessToken`, and if the identity provider takes it
  for an access token it is accepted without one, as the comment at
  `permissions.go:601-605` admits. `Auth` follows the code.
* README.md:242 says that the permission system is not enforced in `DEV_MODE=true`; with
  `PERM_CONFIG_PATH` set it is.
* README.md:247 says that the UI does not implement CSRF protection or security headers itself;
  `newAdminHandler` has both (`ui.go:571`, `ui.go:817`).
* A signal that arrives between `signal.Notify` and `Serve` makes `Serve` return
  `ErrServerStopped`; if that is the first error, an orderly stop ends with exit code 1.
  So `FailureIsReported` has no converse.
* Two requests with one token may both ask the provider; the older, positive answer may be
  cached after the other request was told that the token is withdrawn. The TTL then counts
  from the arrival of that answer, which is why `RevokedTokenExpires` has the term `MaxDelay`.
* Nothing bounds the number of entries in the UserInfo cache, nor the time for which expired
  signing keys stay in use while the JWKS endpoint is down (`FreshKey` exempts that fallback).
* OIDC discovery is tried once. If it fails, access tokens are refused until a restart.
* In development mode a ciphertext in the settings of a binary without its build tag keeps
  the vault locked: no key is made up, and the ciphertext is ignored.

## Proofs

Every safety property and every action property that a passing run checks is proved for
every value of the constants. An inductive invariant was model-checked on the instance of
its run before it was proved.

### Vault

`VaultProofs` proves, for any number of pods, requests, keys, paths and retries:

| Theorem | States |
|---|---|
| `TypeCorrect` | `Spec => []TypeOK` |
| `WellFormedAlways` | `Spec => []WellFormedVault` |
| `ConflictsAreProgress` | `Spec => []ConflictMeansProgress` |
| `FailuresAreDefinite` | `Spec => []DefiniteFailure` |
| `WrongKeysAreOlder` | `Spec => []WrongKeyIsOlder` |
| `KeyIsStable` | `Spec => KeyNeverChanges` |
| `IdentityIsStable` | `Spec => IdentityWriteOnce` |
| `Refinement` | `Spec => StoreSpec` |

The assumptions are those of `Vault`: the special values (`NoNode`, `NoKey`,
`Malformed`, `NoPod`, `NoOp`) differ from the ordinary ones, `MaxRetries` is a positive
number, requests are about paths that the trees have, and the Secret at the start is
one of the four kinds and well formed. TLC evaluates them in every run of `MCVault`.

All rest on one inductive invariant, `IInv`, the conjunction of

* `TypeOK`;
* `UnlockInv`: an unlock under way has a key that parsed and a pod;
* `CallInv`: what a request can have at the API server at each point of its way: nothing
  before it sends, nothing in flight or done after a definite error, done when it
  reports success;
* `SnapInv`: a write in flight was made from a Secret that its key opened and on which
  its modifier succeeded;
* `VersionInv`: versions are not newer than the revision counter, and a Secret that has the
  version that a request read is the Secret that it read;
* `ProgressInv`: each failed attempt accounts for a change since the request began;
* `AgeInv`: a pod's key, and a key that passed its check and waits for the lock, opens the
  vault unless it was checked before the vault was created;
* `WellFormedVault`.

None of the properties is inductive alone. The heart is `AcceptedIsFresh`: if the API
server accepts a write then the Secret is still exactly what the writer read. By
`VersionInv` the equal version means equal content, and for Create both are absent. So
the check that the modifier made on its copy holds for the tree that is
replaced, the key that opened the copy is the key of the vault, and the step is one
atomic `Apply` of `VaultStore`. `RefusedIsOvertaken` is its counterpart: a refusal
proves that the revision has moved since the read, which is what `ProgressInv` counts.

### Permissions

`RevocationIsEffective` (`Spec => []RevokedIsGone`) and `NoChangeIsForgotten`
(`Spec => []NothingForgotten`), for any users, workloads and files, and without an assumption
on what the files say.

`RevokedIsGone` is inductive as it stands. The work is in `OutcomeWithin`: whatever sections
and users the random order of the map lets `Load` decode before it fails, the users it
kept have whole lists (`KeptAreWhole`), everything is from the file
(`DecodedWithin`), and without an error it is the file (`DecodedFollows`). The statement is
about entries. It does not say that nobody keeps a *path*: a former admin may keep all of
them (`perm_admins`), and a workload may fall back to its namespace (above).

`NothingForgotten` is not inductive: a step that uses up an event or the timer is harmless
only because of what else is known then. `WatchInv` adds that without a watch its remove
event waits or the loss is already recorded as `missed`, that no watch is on a file that is
gone, that before `Watch` runs nothing is pending, and that a `Load` under way which read an old
version has a successor on its way. That what is on its way also
arrives needs the fairness of the goroutine: `ConvergesWhenWatched`, which TLC checks.

### Vault paths

| Theorem | States |
|---|---|
| `ValidIsCanonical` | of a normalized key, `validateVaultPath` accepts exactly the canonical ones but the root |
| `CleanIdempotent` | `Clean(Clean(p)) = Clean(p)` |

For keys of any length. `Canonical` says segment by segment what a canonical key is: a
slash, and then no segment that is empty, `.` or `..`. `Clean` is a fold, and what it
computes needs an induction. `SetInduction` is induction over the numbers for a *set*,
derived from the library's theorem that `<` is well-founded: each use names the set of the lengths
for which the claim holds. `FoldLeft` is defined by a recursive
function that it chooses; `FoldExists` constructs that function, `FoldAgree` shows that two keys that
begin alike are folded alike, and `CleanOfOne` and `CleanOfLonger` are what is left to the
reader: the root stays, and the last segment is cleaned after everything before it. From
these two, `CleanIsCanonical` and `CanonicalIsClean` are inductions over the length.

### Policy

`MatchIsCovers`: `matchPermission` accepts a normalized path if and only if the pattern
covers it (`Covers`: the exact path, or the branch before the star), for patterns and paths of any length, with
`..`, empty segments and missing slashes. For the direction from `Covers` one has to know
that a cleaned path never ends with a slash (`CleanEnds`, from `CleanIsCanonical`): for a
pattern with a doubled slash before its star (`/db//*`) the code compares the path with
`/db/` as well, and this never succeeds. So such a pattern leaves out `/db` itself, which
`/db/*` includes. The repository's README does not speak of this spelling; `Covers` follows the
code there. Paths and patterns are sequences of strings.

### Mount

| Theorem | States |
|---|---|
| `MountsAreAuthorized` | `Spec => []MountAuthorized` |
| `MountsAreSnapshots` | `Spec => []MountSnapshot` |
| `MountsAreComplete` | `Spec => []MountComplete` |
| `GrantsAreServed` | `Spec => GrantedIsServed` |

For any number of calls, lists of any length, any vaults, policies and accounts. Assumed:
items are `[file, path]` or `Junk`, and namespaces, accounts, paths and patterns are
sequences of strings. The invariant says of each call: the policy and the vault of the moment are in its
histories (`Current`); its tree was loaded from a vault of its history and its files are
from that tree (`FromTree`); each file was granted (`Granted`, by `AccessIsGranted` and
`MatchIsCovers`); what is left of its list is the end of what was asked, and the file of
every item before is at the place that counting the items gives (`Collected`). All
of this holds of a call in the middle of its list, which the properties are silent about.
`AccessIsGranted` is an equivalence, so that `GrantsAreServed` has the other direction: a
call fails at an item only if its file is not valid, there is no secret, or the policy of
that moment does not grant it, in whatever spelling the item has its path.

### JWKSCache

`KeysAreFresh`, `WithdrawnKeysStayOut` and `RotationsAreSeen` prove the action properties
`FreshKey`, `WithdrawnStaysOut` and `RotationIsSeen` from `Inv`, for any number of lookups,
keys, rotations, any refresh interval and timeout. `OneFetch` (whoever fetches
holds the lock) is what makes `AnswerIsNews` inductive: an answer on its way is newer than
everything cached, because nobody else can cache anything meanwhile. `CacheIsNewest` and
`FetchInTime` then bound the age of a cached key.

### Auth and Admin

| Theorem | States |
|---|---|
| `RevokedTokensExpire` | `Spec => []RevokedTokenExpires` |
| `OnlyVouchedIsCached` | `Spec => []CacheVouched` |
| `WritesAreAuthorized` | `Spec => []WriteAuthorized` |
| `ViewsAreAuthorized` | `Spec => []ViewAuthorized` |
| `OnlyAdmins` | `Spec => []AdminOnly` |
| `ViewsLeadToSecrets` | `Spec => []ViewNavigable` |
| `GrantsAreNotRefused` | `Spec => GrantedIsNotRefused` |
| `UpdatesAreCanonical` | the key of every update that takes effect is canonical |

For any number of requests, tokens, users, policies, deployments and trees. Assumed: the
times are numbers and the TTL is positive, bearers are tokens, paths, keys and patterns are
sequences of strings, and the rights that a policy gives are not `NoRights` (nil in
the code). `Inv` has

* `AnswerInv`: a positive answer on its way was given before the token was withdrawn
  and is at most `MaxDelay` old. With `CacheInv` (an entry has at most the TTL to live) it
  bounds the last login with a withdrawn token; neither can be left out, since the
  cache is filled from answers and read by other requests;
* `AskInv`, `LoginInv`: what is known of a request on its way to its login, among it that
  the policy of the moment is in `granted`;
* `RightsInv`: the rights of a request that was let in are exactly those of its user under one
  policy in `granted`, but for the mark of the proxy;
* `CheckedInv`, `AppliedInv`: a write under way passed its checks, and only such writes take effect.

`ViewsAreAuthorized` adds `PageInv`: a page was built from the rights that its request still
has. `TreeStateShown` is the lemma about `buildTreeState`: whatever it shows may be read,
and each folder is the beginning of a key that may be read, as spelled or as `path.Clean`
has it.

`ViewsLeadToSecrets` and `GrantsAreNotRefused` are the converse. They cannot speak of one
policy, since the request has copied its rights at a moment that the properties do not
know: they speak of what *all* policies since its arrival grant, which by `RightsInv` the
copy then grants too (`ReachedIsAllowed`). `LeadsOn` is the lemma about `buildTreeState`: the
page of each folder on the way to a canonical key that may be read shows the next folder, or
the secret itself. It needs that every beginning of a canonical key is canonical
(`PrefixIsCanonical`), so that `path.Clean`, which the code applies to a folder's name and not to
the keys, leaves it alone. `UpdatesAreCanonical` is why the two spellings do not
drift apart: what is authorized is the cleaned path, what is written is the path as it was
sent, and of an update both are the same. `/delete` does not validate its path; it is
authorized as cleaned and deletes the key as spelled, which `WriteAuthorized` covers.

### Lifecycle

`RightKey` (`Spec => []KeyFromRightSource`), `MountsAreDrained` (`Spec => []MountsDrain`) and
`FailuresAreNotHidden` (the safety half of `FailureIsReported`: a process in which a task
broke while the others were well does not end with exit code 0). For any settings, secrets, build tags and number of
mounts; assumed is that each process has all settings, set or not, and that `NoError` is
no error. `KeyInv` relates `sec` to the environment at each stage before the key is asked
for. `DrainInv`: a server that has not begun has no calls, and one whose task returned
without a failure has none left and takes no more. `ErrorInv`: as long as ctx is not
done no error was kept, so that the first failure is the error that the errgroup keeps.

### Only model-checked

Liveness (`EveryWriteReturns`, `ConvergesWhenWatched`, `ReportedIsLoaded`, `EveryLookupEnds`, `FailureIsReported`,
`InterruptEnds`), which is beyond the prover; of `FailureIsReported` the safety half is proved.

## Not modelled

* `EncryptAndSave`: only tests call it. `Version` keeps no state.
* The HTML; cross-origin protection and the headers against framing, which are the
  library's and keep no state; the order and the names on a page.
* HTTP handlers that are running while the process ends, beyond `Crash` in `Vault`.
* Cryptography, YAML, JSON and HTTP themselves; control characters in paths; corrupted
  ciphertext; inotify queue overflow; the parsing of variables other than secrets.
* The manifests.

## Plan

Done, in this order: `VaultPath`, `VaultStore`, `Vault`, `VaultProofs`, `Policy`,
`Permissions`, `Mount`, `JWKSCache`, `Config`, `Auth`, `Admin`, `Lifecycle`, then
`JWKSCacheProofs`, `PermissionsProofs`, `PolicyProofs`, `AdminProofs`, `LifecycleProofs`,
`MountProofs`, `VaultPathProofs`, and with it the converse directions in `PolicyProofs`,
`MountProofs` and `AdminProofs`.

When the code changes: a change of `matchPermission`, `path.Clean`'s use or
`validateVaultPath` shows first in `MatchIsCovers` and `ValidIsCanonical`, one of the retry loop in
`AcceptedIsFresh`, one of `withAuth` in `RightsInv`.
