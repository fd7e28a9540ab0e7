--------------------------- MODULE LifecycleProofs ----------------------------
(***************************************************************************)
(* Whatever its settings, a process opens the vault with the key of the    *)
(* right source, ends only when its mounts have ended, and never hides that*)
(* a task broke.                                                           *)
(***************************************************************************)
EXTENDS Lifecycle, TLAPS

(* The stages of main before the errgroup. *)
Booting == {"secrets", "client", "key", "permissions", "start"}

GrpcFailed == \E d \in BOOLEAN : <<"grpc", d>> \in failed

Types ==
  /\ task \in [Tasks -> {"off", "starting", "serving", "returned"}]
  /\ done \in BOOLEAN
  /\ stage \in Booting => task = [t \in Tasks |-> "off"] /\ failed = {}

(* Only a server that serves has calls, and one that came to its end       *)
(* without a failure has none left.                                        *)
DrainInv ==
  /\ task["grpc"] \in {"off", "starting"} => calls = {} /\ server # "open"
  /\ task["grpc"] = "returned" => GrpcFailed \/ (calls = {} /\ server # "open")
  /\ MountsDrain

(* The first error ends ctx and is the one that the errgroup keeps. *)
EarlyFailure == \E t \in Tasks : <<t, FALSE>> \in failed
FailureIsNotHidden == stage = "ended" /\ EarlyFailure => code \in {1, Killed}

ErrorInv ==
  /\ ~done => err = NoError
  /\ EarlyFailure => err = "failed"
  /\ FailureIsNotHidden

(* What sec is: the values that the settings give, or in development mode  *)
(* without any of them, a key made up.                                     *)
AsRead == sec = ResolveSecrets(process.env)
WithDevKey ==
  /\ NeedsDevKey(cfg.dev, ResolveSecrets(process.env))
  /\ sec = [ResolveSecrets(process.env) EXCEPT !.MASTER_KEY = MadeUp]

KeyInv ==
  /\ Complete(process)
  /\ stage \in {"secrets", "client", "key"} => key = NoKey
  /\ stage = "client" => AsRead
  /\ stage = "key" => AsRead \/ WithDevKey
  /\ KeyFromRightSource

Inv == Types /\ DrainInv /\ ErrorInv /\ KeyInv

-----------------------------------------------------------------------------
(* The start of the process establishes the invariant. *)
LEMMA InitInv == Init => Inv
  <1> SUFFICES ASSUME Init PROVE Inv
    OBVIOUS
  <1>1. Types /\ DrainInv /\ ErrorInv
    BY DEF Init, Types, DrainInv, ErrorInv, MountsDrain, FailureIsNotHidden, EarlyFailure, Tasks
  <1>2. KeyInv
    BY ProcessAssumption DEF Init, KeyInv, Complete, KeyFromRightSource
  <1> QED
    BY <1>1, <1>2 DEF Inv

(* What a provider returns is the key that its settings give. *)
LEMMA KeyOfProvider ==
  ASSUME NEW s, NEW answers
  PROVE  /\ GetMasterKey("gcpkms", s, answers) = gcpGetAgeKey(s, answers)
         /\ GetMasterKey("kms", s, answers) = awsGetAgeKey(s, answers)
         /\ GetMasterKey("env", s, answers) = envGetMasterKey(s)
  BY Zenon DEF GetMasterKey

(* The key depends on what main read and on which clouds are there. *)
LEMMA RightSource ==
  ASSUME Complete(process), AsRead \/ WithDevKey,
         NEW built \in SUBSET process.tags, NEW answers,
         key' \in {NoKey, GetMasterKey(resolveKeyProvider(sec, built), sec, answers)},
         clients' = built, process' = process
  PROVE  KeyFromRightSource'
  <1> SUFFICES ASSUME key' # NoKey PROVE KeyFromRightSource'
    BY DEF KeyFromRightSource
  <1> DEFINE all == ResolveSecrets(process.env)
             names == {"MASTER_KEY", "KMS_CIPHERTEXT", "GCP_KMS_KEY_NAME", "GCP_KMS_CIPHERTEXT"}
             Set(n) == IF process.env[n].file = NoFile THEN process.env[n].inline
                       ELSE process.env[n].file
  <1>1. \A n \in names : all[n] = Set(n)
    BY DEF Complete, ResolveSecrets, resolveSecretValue
  <1>2. CASE AsRead
    <2> DEFINE p == resolveKeyProvider(all, built)
    <2>1. key' = GetMasterKey(p, all, answers)
      BY <1>2 DEF AsRead
    <2>2. CASE gcpKMSKeyProvider(all, built)
      BY <1>1, <2>1, <2>2, KeyOfProvider
      DEF resolveKeyProvider, gcpKMSKeyProvider, gcpGetAgeKey, KeyFromRightSource
    <2>3. CASE ~gcpKMSKeyProvider(all, built) /\ awsKMSKeyProvider(all, built)
      BY <1>1, <2>1, <2>3, KeyOfProvider
      DEF resolveKeyProvider, awsKMSKeyProvider, awsGetAgeKey, KeyFromRightSource
    <2>4. CASE ~gcpKMSKeyProvider(all, built) /\ ~awsKMSKeyProvider(all, built)
      BY <1>1, <2>1, <2>4, KeyOfProvider
      DEF resolveKeyProvider, gcpKMSKeyProvider, awsKMSKeyProvider, envGetMasterKey,
          KeyFromRightSource
    <2> QED
      BY <2>2, <2>3, <2>4
  <1>3. CASE WithDevKey
    <2>1. /\ sec["MASTER_KEY"] = MadeUp
          /\ sec["KMS_CIPHERTEXT"] = "" /\ sec["GCP_KMS_CIPHERTEXT"] = ""
          /\ all["MASTER_KEY"] = "" /\ all["KMS_CIPHERTEXT"] = ""
          /\ all["GCP_KMS_CIPHERTEXT"] = "" /\ cfg.dev
      BY <1>3 DEF WithDevKey, NeedsDevKey, Complete, ResolveSecrets
    <2>2. resolveKeyProvider(sec, built) = "env"
      BY <2>1 DEF resolveKeyProvider, gcpKMSKeyProvider, awsKMSKeyProvider
    <2>3. key' = MadeUp
      BY <2>1, <2>2, KeyOfProvider DEF envGetMasterKey
    <2> QED
      BY <1>1, <2>1, <2>3 DEF KeyFromRightSource, cfg
  <1> QED
    BY <1>2, <1>3

(* A step that leaves what main read alone keeps the key's source. *)
LEMMA KeyKept ==
  ASSUME KeyInv, UNCHANGED bootVars,
         stage' \in {"secrets", "client", "key"} => stage' = stage
  PROVE  KeyInv'
  BY DEF KeyInv, bootVars, Complete, AsRead, WithDevKey, KeyFromRightSource, cfg

(* Every step preserves what holds of the secrets and of the key. *)
LEMMA KeyNext == Inv /\ [Next]_vars => KeyInv'
  <1> SUFFICES ASSUME Inv, [Next]_vars PROVE KeyInv'
    OBVIOUS
  <1>1. KeyInv
    BY DEF Inv
  <1>2. CASE Resolve
    <2>1. /\ process'.env = process.env /\ process'.tags = process.tags
          /\ Complete(process)' /\ key' = NoKey /\ stage' = "client"
          /\ sec' = ResolveSecrets(process'.env)
      BY <1>1, <1>2 DEF Resolve, KeyInv, Complete
    <2> QED
      BY <2>1 DEF KeyInv, AsRead, KeyFromRightSource
  <1>3. CASE NewClient
    <2>1. AsRead /\ key' = NoKey /\ stage' = "key" /\ process' = process /\ Complete(process)
      BY <1>1, <1>3 DEF NewClient, KeyInv
    <2>2. AsRead' \/ WithDevKey'
      BY <1>3, <2>1 DEF NewClient, AsRead, WithDevKey, cfg
    <2> QED
      BY <2>1, <2>2 DEF KeyInv, KeyFromRightSource
  <1>4. CASE OpenVault
    <2>1. /\ Complete(process) /\ (AsRead \/ WithDevKey)
          /\ process' = process /\ stage' = "permissions"
      BY <1>1, <1>4 DEF OpenVault, KeyInv
    <2>2. PICK built, answers \in SUBSET process.tags :
            /\ clients' = built
            /\ key' \in {NoKey, GetMasterKey(resolveKeyProvider(sec, built), sec, answers)}
      BY <1>4 DEF OpenVault
    <2>3. KeyFromRightSource'
      BY <2>1, <2>2, RightSource
    <2> QED
      BY <2>1, <2>3 DEF KeyInv
  <1>5. CASE ~(Resolve \/ NewClient \/ OpenVault \/ LoadPermissions)
    <2>1. UNCHANGED bootVars
      BY <1>5 DEF Next, Main, GiveUp, Start, Notify, Select, Wait, Watcher, HTTP, GRPC, Serve,
         WatchReturns, HttpCloses, Listen, GrpcServes, ServesTooLate, GrpcReturns, GracefulStop,
         Interrupt, Fail, BeginMount, EndMount, Return, Step, vars
    <2>2. stage' \in {"secrets", "client", "key"} => stage' = stage
      BY <1>5 DEF Next, Main, GiveUp, Start, Notify, Select, Wait, Watcher, HTTP, GRPC, Serve,
         WatchReturns, HttpCloses, Listen, GrpcServes, ServesTooLate, GrpcReturns, GracefulStop,
         Interrupt, Fail, BeginMount, EndMount, Return, Step, vars, Exit
    <2> QED
      BY <1>1, <2>1, <2>2, KeyKept
  <1>6. CASE LoadPermissions
    BY <1>1, <1>6 DEF LoadPermissions, KeyInv, Complete, KeyFromRightSource, cfg
  <1> QED
    BY <1>2, <1>3, <1>4, <1>5, <1>6

-----------------------------------------------------------------------------
(* The group: tasks, errors and mounts. *)
GroupInv == Types /\ DrainInv /\ ErrorInv

(* Before the errgroup there is nothing to drain and nothing that failed. *)
LEMMA BootStep ==
  ASSUME GroupInv, stage \in Booting, UNCHANGED groupVars, stage' \in Booting \cup {"ended"}
  PROVE  GroupInv'
  <1>1. calls = {} /\ ~EarlyFailure
    BY DEF GroupInv, Types, DrainInv, EarlyFailure, Tasks
  <1>2. Types'
    BY DEF GroupInv, Types, groupVars, Booting
  <1>3. DrainInv'
    BY <1>1 DEF GroupInv, DrainInv, groupVars, MountsDrain, GrpcFailed
  <1>4. ErrorInv'
    BY <1>1 DEF GroupInv, ErrorInv, groupVars, FailureIsNotHidden, EarlyFailure
  <1> QED
    BY <1>2, <1>3, <1>4 DEF GroupInv

(* A task returns: the first error stays, and a failure is remembered. *)
LEMMA ReturnStep ==
  ASSUME GroupInv, NEW t \in Tasks, NEW e \in {NoError, "failed", "closed", "stopped"},
         Return(t, e), UNCHANGED server,
         t = "grpc" => e = "failed" \/ (calls = {} /\ server # "open")
  PROVE  GroupInv'
  <1> USE DEF GroupInv
  <1>1. /\ stage' = stage /\ stage \notin Booting \cup {"ended"} /\ calls' = calls
        /\ task'[t] = "returned" /\ \A u \in Tasks \ {t} : task'[u] = task[u]
        /\ failed \subseteq failed'
    BY DEF Return, Running, Types, Booting
  <1>2. Types'
    BY <1>1 DEF Return, Types, Booting
  <1>3. t = "grpc" /\ e = "failed" => GrpcFailed'
    BY DEF Return, GrpcFailed, Types
  <1>4. GrpcFailed => GrpcFailed'
    BY <1>1 DEF GrpcFailed
  <1>5. DrainInv'
    BY <1>1, <1>3, <1>4 DEF DrainInv, MountsDrain, Tasks
  <1>6. (~done => err = NoError)'
    BY DEF ErrorInv, Return, Types
  <1>7. EarlyFailure' => err' = "failed"
    <2>1. CASE EarlyFailure
      BY <2>1, ErrorAssumption DEF ErrorInv, Return
    <2>2. CASE ~EarlyFailure /\ e = "failed" /\ done = FALSE
      BY <2>2 DEF ErrorInv, Return
    <2>3. CASE ~EarlyFailure /\ ~(e = "failed" /\ done = FALSE)
      BY <2>3 DEF Return, EarlyFailure
    <2> QED
      BY <2>1, <2>2, <2>3
  <1>8. ErrorInv'
    BY <1>1, <1>6, <1>7 DEF ErrorInv, FailureIsNotHidden
  <1> QED
    BY <1>2, <1>5, <1>8

(* A step that only serves: no task comes to its end. *)
LEMMA ServeStep ==
  ASSUME GroupInv, Step,
         \/ Listen \/ GrpcServes \/ GracefulStop \/ \E t \in Tasks : Serve(t)
         \/ \E m \in Mounts : BeginMount(m) \/ EndMount(m)
  PROVE  GroupInv'
  <1> USE DEF GroupInv
  <1>1. stage' = stage /\ stage \notin Booting \cup {"ended"}
    BY DEF Step, Running, Booting
  <1>2. ErrorInv'
    BY DEF Step, ErrorInv, FailureIsNotHidden, EarlyFailure
  <1>3. Types'
    BY <1>1 DEF Step, Listen, GrpcServes, GracefulStop, Serve, BeginMount, EndMount, Types, Tasks
  <1>4. MountsDrain' /\ (GrpcFailed' <=> GrpcFailed)
    BY <1>1 DEF Step, MountsDrain, GrpcFailed
  <1>5. CASE Listen \/ GracefulStop \/ \E m \in Mounts : BeginMount(m) \/ EndMount(m)
    <2>1. /\ task' = task /\ (server' = "open" => server = "open")
          /\ calls' \subseteq calls \/ server = "open"
      BY <1>5 DEF Listen, GracefulStop, BeginMount, EndMount
    <2> QED
      BY <1>2, <1>3, <1>4, <2>1 DEF DrainInv
  <1>6. CASE GrpcServes
    <2>1. task'["grpc"] = "serving"
      BY <1>6 DEF GrpcServes, Types, Tasks
    <2> QED
      BY <1>2, <1>3, <1>4, <2>1 DEF DrainInv
  <1>7. ASSUME NEW t \in Tasks, Serve(t) PROVE DrainInv'
    BY <1>4, <1>7 DEF DrainInv, Serve, Types, Tasks
  <1> QED
    BY <1>2, <1>3, <1>5, <1>6, <1>7

(* Every step preserves what holds of the group. *)
LEMMA GroupNext == Inv /\ [Next]_vars => GroupInv'
  <1> SUFFICES ASSUME Inv, [Next]_vars PROVE GroupInv'
    OBVIOUS
  <1>1. GroupInv
    BY DEF Inv, GroupInv
  <1>2. CASE GiveUp \/ Resolve \/ NewClient \/ OpenVault \/ LoadPermissions
    BY <1>1, <1>2, BootStep
    DEF GiveUp, Resolve, NewClient, OpenVault, LoadPermissions, Exit, Booting
  <1>3. CASE Start
    <2>1. /\ task["grpc"] = "off" /\ failed = {} /\ failed' = {} /\ stage' = "notify"
          /\ task' \in [Tasks -> {"off", "starting"}] /\ task'["grpc"] = "starting"
          /\ UNCHANGED <<calls, server, done, err>>
      BY <1>1, <1>3 DEF GroupInv, Types, Start, Booting, Tasks
    <2> QED
      BY <1>1, <2>1 DEF GroupInv, Types, DrainInv, ErrorInv, MountsDrain, FailureIsNotHidden,
         EarlyFailure, Booting
  <1>4. CASE Notify
    BY <1>1, <1>4 DEF Notify, GroupInv, Types, DrainInv, ErrorInv, MountsDrain,
       FailureIsNotHidden, EarlyFailure, GrpcFailed, groupVars, Booting
  <1>5. CASE Select
    BY <1>1, <1>5 DEF Select, GroupInv, Types, DrainInv, ErrorInv, MountsDrain,
       FailureIsNotHidden, EarlyFailure, GrpcFailed, Booting
  <1>6. CASE Wait
    <2>1. /\ task["grpc"] \in {"off", "returned"} /\ stage' = "ended" /\ UNCHANGED groupVars
          /\ code' = IF err \in {NoError, "closed"} THEN 0 ELSE 1
      BY <1>6 DEF Wait, Exit, Tasks
    <2>2. calls = {} \/ GrpcFailed
      BY <1>1, <2>1 DEF GroupInv, DrainInv
    <2>3. EarlyFailure => code' = 1
      BY <1>1, <2>1, ErrorAssumption DEF GroupInv, ErrorInv
    <2>4. Types' /\ DrainInv'
      BY <1>1, <2>1, <2>2 DEF GroupInv, Types, DrainInv, groupVars, MountsDrain, GrpcFailed, Booting
    <2>5. ErrorInv'
      BY <1>1, <2>1, <2>3 DEF GroupInv, ErrorInv, groupVars, FailureIsNotHidden, EarlyFailure
    <2> QED
      BY <2>4, <2>5 DEF GroupInv
  <1>7. CASE Interrupt
    <2>1. UNCHANGED groupVars /\ stage # "ended"
          /\ (stage' = stage \/ (stage' = "ended" /\ code' = Killed))
      BY <1>7 DEF Interrupt, Exit
    <2> QED
      BY <1>1, <2>1 DEF GroupInv, Types, DrainInv, ErrorInv, groupVars, MountsDrain,
         FailureIsNotHidden, EarlyFailure, GrpcFailed, Booting
  <1>8. CASE Listen \/ GrpcServes \/ GracefulStop \/ Serve("watch") \/ Serve("http")
             \/ \E m \in Mounts : BeginMount(m) \/ EndMount(m)
    <2>1. Step
      BY <1>8 DEF Listen, GrpcServes, GracefulStop, Serve, BeginMount, EndMount
    <2>2. \/ Listen \/ GrpcServes \/ GracefulStop \/ \E t \in Tasks : Serve(t)
          \/ \E m \in Mounts : BeginMount(m) \/ EndMount(m)
      BY <1>8 DEF Tasks
    <2> QED
      BY <1>1, <2>1, <2>2, ServeStep
  <1>9. CASE WatchReturns
    BY <1>1, <1>9, ReturnStep DEF WatchReturns, Tasks
  <1>10. CASE HttpCloses
    BY <1>1, <1>10, ReturnStep DEF HttpCloses, Tasks
  <1>11. CASE ServesTooLate
    <2>1. calls = {}
      BY <1>1, <1>11 DEF ServesTooLate, GroupInv, DrainInv
    <2> QED
      BY <1>1, <1>11, <2>1, ReturnStep DEF ServesTooLate, Tasks
  <1>12. CASE GrpcReturns
    BY <1>1, <1>12, ReturnStep DEF GrpcReturns, Tasks
  <1>13. ASSUME NEW t \in Tasks, Fail(t) PROVE GroupInv'
    BY <1>1, <1>13, ReturnStep DEF Fail
  <1>14. CASE UNCHANGED vars
    BY <1>1, <1>14 DEF vars, groupVars, GroupInv, Types, DrainInv, ErrorInv, MountsDrain,
       FailureIsNotHidden, EarlyFailure, GrpcFailed
  <1> QED
    BY <1>2, <1>3, <1>4, <1>5, <1>6, <1>7, <1>8, <1>9, <1>10, <1>11, <1>12, <1>13, <1>14
    DEF Next, Main, Watcher, HTTP, GRPC

-----------------------------------------------------------------------------
(* The invariant of a process: what main read, what the group holds. *)
THEOREM LifecycleInvariant == Spec => []Inv
  <1>1. Inv /\ [Next]_vars => Inv'
    BY KeyNext, GroupNext DEF Inv, GroupInv
  <1> QED
    BY InitInv, <1>1, PTL DEF Spec

(* The key with which main opens the vault comes from the cloud that is    *)
(* built in, set up and reachable, else from MASTER_KEY, whatever the      *)
(* clouds answer: KeyFromRightSource.                                      *)
THEOREM RightKey == Spec => []KeyFromRightSource
  BY LifecycleInvariant, PTL DEF Inv, KeyInv

(* No mount is in flight when the process ends by itself, unless the CSI   *)
(* server is what failed: MountsDrain.                                     *)
THEOREM MountsAreDrained == Spec => []MountsDrain
  BY LifecycleInvariant, PTL DEF Inv, DrainInv

(* The safety half of FailureIsReported: a task that broke while the rest  *)
(* was well is never hidden behind exit code 0, whatever the others return *)
(* and in which order.                                                     *)
THEOREM FailuresAreNotHidden == Spec => []FailureIsNotHidden
  BY LifecycleInvariant, PTL DEF Inv, ErrorInv
=============================================================================
