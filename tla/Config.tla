-------------------------------- MODULE Config --------------------------------
(***************************************************************************)
(* The settings of a provider process: secrets that come from a variable or*)
(* from a file, where the master key is taken from, and the settings with  *)
(* which main refuses to start.  A value is "" when it is not set.         *)
(***************************************************************************)
EXTENDS Naturals, FiniteSets

CONSTANTS
  NoFile,      \* the variable with the suffix _FILE is not set
  Unreadable,  \* it names a file that cannot be read
  NoKey        \* no master key, because there is none or because of an error

(***************************************************************************)
(* A secret is [inline, file], file being the content of the file.  The    *)
(* file wins, even if it is empty.                                         *)
(***************************************************************************)
resolveSecretValue(s) == IF s.file # NoFile THEN s.file ELSE s.inline

ResolveFails(env) == \E n \in DOMAIN env : resolveSecretValue(env[n]) = Unreadable
ResolveSecrets(env) == [n \in DOMAIN env |-> resolveSecretValue(env[n])]

-----------------------------------------------------------------------------
(***************************************************************************)
(* The key providers of the clouds that the build tags register.  clients: *)
(* the clouds that are built in and whose NewClient succeeds.  The first   *)
(* that is usable is taken, in the order of the files, and the last resort *)
(* is MASTER_KEY.                                                          *)
(***************************************************************************)
gcpKMSKeyProvider(sec, clients) ==
  /\ sec.GCP_KMS_CIPHERTEXT # "" /\ sec.GCP_KMS_KEY_NAME # ""
  /\ "gcpkms" \in clients

awsKMSKeyProvider(sec, clients) == sec.KMS_CIPHERTEXT # "" /\ "kms" \in clients

(* Mutant of resolveKeyProvider: MASTER_KEY is preferred to the cloud. *)
preferMasterKey(sec, clients) ==
  IF sec.MASTER_KEY # "" THEN "env"
  ELSE IF gcpKMSKeyProvider(sec, clients) THEN "gcpkms"
  ELSE IF awsKMSKeyProvider(sec, clients) THEN "kms" ELSE "env"

resolveKeyProvider(sec, clients) ==
  IF gcpKMSKeyProvider(sec, clients) THEN "gcpkms"
  ELSE IF awsKMSKeyProvider(sec, clients) THEN "kms" ELSE "env"

(***************************************************************************)
(* What the providers return.  A ciphertext stands for the key that it     *)
(* decrypts to; answers: the clouds that do so.  One that is not in it was *)
(* given no base64, refuses, or answers with nothing.                      *)
(***************************************************************************)
gcpGetAgeKey(sec, answers) == IF "gcpkms" \in answers THEN sec.GCP_KMS_CIPHERTEXT ELSE NoKey
awsGetAgeKey(sec, answers) == IF "kms" \in answers THEN sec.KMS_CIPHERTEXT ELSE NoKey
envGetMasterKey(sec) == IF sec.MASTER_KEY # "" THEN sec.MASTER_KEY ELSE NoKey

GetMasterKey(p, sec, answers) ==
  CASE p = "gcpkms" -> gcpGetAgeKey(sec, answers)
    [] p = "kms" -> awsGetAgeKey(sec, answers)
    [] p = "env" -> envGetMasterKey(sec)

(* In development mode, without any setting for a key, one is made up. *)
NeedsDevKey(dev, sec) ==
  dev /\ sec.MASTER_KEY = "" /\ sec.KMS_CIPHERTEXT = "" /\ sec.GCP_KMS_CIPHERTEXT = ""

-----------------------------------------------------------------------------
(***************************************************************************)
(* The settings of the authentication, and the combinations of them with   *)
(* which main or NewPermissionManagerWithJWTConfig gives up.               *)
(***************************************************************************)
Unguarded(cfg) == ~cfg.permFile /\ ~cfg.dev
EmptyAdminValue(cfg) == cfg.adminHeader /\ cfg.adminValue = ""

(* cfg.jwt: which of "pem", "url" and "json" are set as key sources, of    *)
(* which the first and the last can come from a file.                      *)
JWTSources(sec) ==
  {s \in {"pem", "json"} : IF s = "pem" THEN sec.JWT_PUBLIC_KEY # "" ELSE sec.JWT_JWKS # ""}

NoManager(cfg) ==
  /\ cfg.permFile
  /\ \/ Cardinality(cfg.jwt) > 1
     \/ "url" \in cfg.jwt /\ cfg.audience = ""

Refused(cfg) == Unguarded(cfg) \/ EmptyAdminValue(cfg) \/ NoManager(cfg)
=============================================================================
