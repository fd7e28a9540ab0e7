------------------------------- MODULE Lifecycle ------------------------------
(***************************************************************************)
(* A provider process from its start to its end: main reads its settings,  *)
(* opens the vault if it finds a key, starts the watcher, the CSI server   *)
(* and the admin UI in one errgroup, and waits for a signal or for the     *)
(* first of them to fail.                                                  *)
(***************************************************************************)
EXTENDS Config

CONSTANTS
  Processes,   \* [cfg, env, tags]: settings, secrets, build tags
  Mounts,      \* calls of the CSI driver
  NoSecrets, NoError, NoCode,
  Killed,      \* the exit code of a process that a signal ended at once
  MadeUp       \* the key that development mode generates

ASSUME ErrorAssumption == NoError \notin {"failed", "closed", "stopped"}

(* The settings that every process has, be they set or not. *)
Complete(p) == /\ {"cfg", "env", "tags"} \subseteq DOMAIN p
               /\ {"dev", "jwt"} \subseteq DOMAIN p.cfg
               /\ {"MASTER_KEY", "KMS_CIPHERTEXT", "GCP_KMS_KEY_NAME",
                   "GCP_KMS_CIPHERTEXT"} \subseteq DOMAIN p.env

ASSUME ProcessAssumption == \A p \in Processes : Complete(p)

Tasks == {"watch", "grpc", "http"}

VARIABLES
  process,     \* which of Processes this is
  stage,       \* where main is
  sec,         \* cfg after ResolveSecrets
  clients,     \* history: the clouds whose NewClient succeeded
  key,         \* the key with which the vault was opened at the start, or NoKey
  userInfo,    \* OIDC discovery succeeded
  task,        \* task[t]: "off", "starting", "serving" or "returned"
  server,      \* the grpc.Server: "none", "new", "open" or "stopping"
  calls,       \* the mounts in flight
  done,        \* ctx.Done() is closed
  err,         \* the error that the errgroup keeps
  failed,      \* history: the tasks that failed, and whether ctx was done before
  signalled,   \* a signal is in the channel, or was taken out of it
  code         \* how the process ended: 0, 1, Killed, or NoCode

bootVars == <<process, sec, clients, key, userInfo>>
groupVars == <<task, server, calls, done, err, failed>>
vars == <<bootVars, stage, groupVars, signalled, code>>

cfg == process.cfg

Init ==
  /\ process \in Processes
  /\ stage = "secrets"
  /\ sec = NoSecrets
  /\ clients = {}
  /\ key = NoKey
  /\ userInfo = FALSE
  /\ task = [t \in Tasks |-> "off"]
  /\ server = "none"
  /\ calls = {}
  /\ done = FALSE
  /\ err = NoError
  /\ failed = {}
  /\ signalled = FALSE
  /\ code = NoCode

-----------------------------------------------------------------------------
(* main, up to the errgroup.  os.Exit ends the process where it stands. *)
Exit(c) == stage' = "ended" /\ code' = c

GiveUp ==
  /\ \/ stage = "secrets" /\ ResolveFails(process.env)
     \/ stage = "client"          \* LOG_LEVEL, the cluster's configuration
     \/ stage = "permissions" /\ (Refused(cfg) \/ cfg.permFile)     \* and Load may fail
  /\ Exit(1)
  /\ UNCHANGED <<bootVars, groupVars, signalled>>

Resolve ==
  /\ stage = "secrets"
  /\ ~ResolveFails(process.env)
  /\ sec' = ResolveSecrets(process.env)
  /\ process' = [process EXCEPT !.cfg.jwt = @ \cup JWTSources(ResolveSecrets(process.env))]
  /\ stage' = "client"
  /\ UNCHANGED <<clients, key, userInfo, groupVars, signalled, code>>

NewClient ==
  /\ stage = "client"
  /\ sec' = IF NeedsDevKey(cfg.dev, sec) THEN [sec EXCEPT !.MASTER_KEY = MadeUp] ELSE sec
  /\ stage' = "key"
  /\ UNCHANGED <<process, clients, key, userInfo, groupVars, signalled, code>>

(* Unlock takes the key or refuses it, which is the subject of Vault. *)
OpenVault ==
  /\ stage = "key"
  /\ \E built, answers \in SUBSET process.tags :
       /\ clients' = built
       /\ key' \in {NoKey, GetMasterKey(resolveKeyProvider(sec, built), sec, answers)}
  /\ stage' = "permissions"
  /\ UNCHANGED <<process, sec, userInfo, groupVars, signalled, code>>

LoadPermissions ==
  /\ stage = "permissions"
  /\ ~Refused(cfg)
  /\ userInfo' \in {FALSE, cfg.permFile /\ cfg.issuer # ""}     \* discovery may fail
  /\ stage' = "start"
  /\ UNCHANGED <<process, sec, clients, key, groupVars, signalled, code>>

Start ==
  /\ stage = "start"
  /\ task' = [t \in Tasks |-> IF t = "watch" /\ ~cfg.permFile THEN "off" ELSE "starting"]
  /\ stage' = "notify"
  /\ UNCHANGED <<bootVars, server, calls, done, err, failed, signalled, code>>

Notify ==
  /\ stage = "notify"
  /\ stage' = "select"
  /\ UNCHANGED <<bootVars, groupVars, signalled, code>>

-----------------------------------------------------------------------------
(* A task returns e to the errgroup, which keeps the first error and ends  *)
(* ctx with it.                                                            *)
Running == stage \in {"notify", "select", "wait"}

(* Mutant of Return: the group keeps the last error. *)
ReturnLast(t, e) ==
  /\ Running
  /\ task' = [task EXCEPT ![t] = "returned"]
  /\ err' = IF e # NoError THEN e ELSE err
  /\ done' = (done \/ e # NoError)
  /\ failed' = IF e = "failed" THEN failed \cup {<<t, done>>} ELSE failed
  /\ UNCHANGED <<bootVars, stage, calls, signalled, code>>

Return(t, e) ==
  /\ Running
  /\ task' = [task EXCEPT ![t] = "returned"]
  /\ err' = IF err = NoError THEN e ELSE err
  /\ done' = (done \/ e # NoError)
  /\ failed' = IF e = "failed" THEN failed \cup {<<t, done>>} ELSE failed
  /\ UNCHANGED <<bootVars, stage, calls, signalled, code>>

(* Nothing but the named part of the group changes. *)
Step == Running /\ UNCHANGED <<bootVars, stage, done, err, failed, signalled, code>>

(* The setup of a task or, later, its listener or its watch breaks. *)
Fail(t) ==
  /\ task[t] \in {"starting", "serving"}
  /\ t = "grpc" => server \in {"none", "open"}
  /\ Return(t, "failed")
  /\ UNCHANGED server

(* Watch and ListenAndServe get going. *)
Serve(t) ==
  /\ t \in {"watch", "http"}
  /\ task[t] = "starting"
  /\ task' = [task EXCEPT ![t] = "serving"]
  /\ Step /\ UNCHANGED <<server, calls>>

WatchReturns ==
  /\ task["watch"] = "serving"
  /\ done
  /\ Return("watch", NoError)
  /\ UNCHANGED server

(* ListenAndServe returns as soon as Shutdown has begun, which closes what *)
(* is idle and lets the rest go on; nobody waits for it.                   *)
HttpCloses ==
  /\ task["http"] \in {"starting", "serving"}
  /\ done
  /\ Return("http", "closed")
  /\ UNCHANGED server

-----------------------------------------------------------------------------
(* The CSI server, and the goroutine that stops it. *)
Listen ==
  /\ task["grpc"] = "starting"
  /\ server = "none"
  /\ server' = "new"
  /\ Step /\ UNCHANGED <<task, calls>>

GrpcServes ==
  /\ task["grpc"] = "starting"
  /\ server = "new"
  /\ server' = "open"
  /\ task' = [task EXCEPT !["grpc"] = "serving"]
  /\ Step /\ UNCHANGED calls

(* Serve after GracefulStop is an error, ErrServerStopped. *)
ServesTooLate ==
  /\ task["grpc"] = "starting"
  /\ server = "stopping"
  /\ Return("grpc", "stopped")
  /\ UNCHANGED server

GracefulStop ==
  /\ done
  /\ server \in {"new", "open"}
  /\ server' = "stopping"
  /\ Step /\ UNCHANGED <<task, calls>>

(* An open server serves its connections even if it accepts no new ones. *)
BeginMount(m) ==
  /\ server = "open"
  /\ m \notin calls
  /\ calls' = calls \cup {m}
  /\ Step /\ UNCHANGED <<task, server>>

EndMount(m) ==
  /\ m \in calls
  /\ calls' = calls \ {m}
  /\ Step /\ UNCHANGED <<task, server>>

(* Mutant of GrpcReturns: the server does not wait for its calls. *)
GrpcReturnsAtOnce ==
  /\ task["grpc"] = "serving"
  /\ server = "stopping"
  /\ Return("grpc", NoError)
  /\ UNCHANGED server

(* Serve waits for GracefulStop, which waits for every call. *)
GrpcReturns ==
  /\ task["grpc"] = "serving"
  /\ server = "stopping"
  /\ calls = {}
  /\ Return("grpc", NoError)
  /\ UNCHANGED server

-----------------------------------------------------------------------------
(* Until signal.Notify a signal kills, and after the first it is ignored. *)
Interrupt ==
  /\ stage # "ended"
  /\ \/ stage = "select" /\ ~signalled /\ signalled' = TRUE /\ UNCHANGED <<stage, code>>
     \/ stage \notin {"select", "wait"} /\ Exit(Killed) /\ UNCHANGED signalled
  /\ UNCHANGED <<bootVars, groupVars>>

(* Mutant of Select: a signal ends the wait but not ctx. *)
SelectWithoutCancel ==
  /\ stage = "select"
  /\ signalled \/ done
  /\ stage' = "wait"
  /\ UNCHANGED <<bootVars, groupVars, signalled, code>>

Select ==
  /\ stage = "select"
  /\ signalled \/ done
  /\ done' = TRUE
  /\ stage' = "wait"
  /\ UNCHANGED <<bootVars, task, server, calls, err, failed, signalled, code>>

Wait ==
  /\ stage = "wait"
  /\ \A t \in Tasks : task[t] \in {"off", "returned"}
  /\ Exit(IF err \in {NoError, "closed"} THEN 0 ELSE 1)
  /\ UNCHANGED <<bootVars, groupVars, signalled>>

Main ==
  \/ GiveUp \/ Resolve \/ NewClient \/ OpenVault \/ LoadPermissions \/ Start \/ Notify
  \/ Select \/ Wait

Watcher == Serve("watch") \/ WatchReturns
HTTP == Serve("http") \/ HttpCloses
GRPC == Listen \/ GrpcServes \/ ServesTooLate \/ GrpcReturns

Next ==
  \/ Main \/ Watcher \/ HTTP \/ GRPC \/ GracefulStop \/ Interrupt
  \/ \E t \in Tasks : Fail(t)
  \/ \E m \in Mounts : BeginMount(m) \/ EndMount(m)

(* Every goroutine that can go on does so, and every mount ends: it waits  *)
(* for one call of the API server and its caller gives up at a deadline.   *)
Fairness ==
  /\ WF_vars(Main) /\ WF_vars(Watcher) /\ WF_vars(HTTP) /\ WF_vars(GRPC)
  /\ WF_vars(GracefulStop)
  /\ \A m \in Mounts : WF_vars(EndMount(m))

Spec == Init /\ [][Next]_vars /\ Fairness

-----------------------------------------------------------------------------
(* The vault is opened at the start with the key of a cloud that is built  *)
(* in, set up and reachable, and with MASTER_KEY only without one; whether *)
(* the cloud decrypts decides if the vault is open, never with which key.  *)
(* A value in a file hides the one in the variable.                        *)
KeyFromRightSource ==
  key # NoKey =>
    LET Set(n) == IF process.env[n].file = NoFile THEN process.env[n].inline
                  ELSE process.env[n].file
        gcp == /\ "gcpkms" \in process.tags \cap clients
               /\ Set("GCP_KMS_CIPHERTEXT") # "" /\ Set("GCP_KMS_KEY_NAME") # ""
        aws == "kms" \in process.tags \cap clients /\ Set("KMS_CIPHERTEXT") # ""
        names == {"MASTER_KEY", "KMS_CIPHERTEXT", "GCP_KMS_CIPHERTEXT"}
    IN  \/ gcp /\ key = Set("GCP_KMS_CIPHERTEXT")
        \/ aws /\ key = Set("KMS_CIPHERTEXT")
        \/ ~gcp /\ ~aws /\ key = Set("MASTER_KEY")
        \/ cfg.dev /\ key = MadeUp /\ \A n \in names : Set(n) = ""

(* No mount is cut off by the end of the process, unless the CSI server is *)
(* what failed.                                                            *)
MountsDrain ==
  stage = "ended" /\ code # Killed => calls = {} \/ \E d \in BOOLEAN : <<"grpc", d>> \in failed

(* A task that breaks takes the process down with it, with exit code 1, for*)
(* kubelet to see, whatever the others return and whether a signal comes.  *)
FailureIsReported == (\E t \in Tasks : <<t, FALSE>> \in failed) ~> code \in {1, Killed}

(* A signal that main has asked for ends the process. *)
InterruptEnds == signalled ~> stage = "ended"
=============================================================================
