------------------------------ MODULE MCLifecycle -----------------------------
(***************************************************************************)
(* A small instance of Lifecycle for TLC: the two clouds and MASTER_KEY, in*)
(* files and variables, with and without build tags, and settings with     *)
(* which main does not start.                                              *)
(***************************************************************************)
EXTENDS Lifecycle, TLC

Inline(v) == [inline |-> v, file |-> NoFile]
Unset == Inline("")
Nothing == [n \in {"MASTER_KEY", "JWT_PUBLIC_KEY", "JWT_JWKS", "KMS_CIPHERTEXT",
                   "GCP_KMS_KEY_NAME", "GCP_KMS_CIPHERTEXT"} |-> Unset]
InFile == [Nothing EXCEPT !["MASTER_KEY"] = [inline |-> "old", file |-> "master"]]
Clouds == [InFile EXCEPT !["KMS_CIPHERTEXT"] = Inline("aws"),
                         !["GCP_KMS_CIPHERTEXT"] = Inline("gcp"),
                         !["GCP_KMS_KEY_NAME"] = Inline("name")]
NoName == [Clouds EXCEPT !["GCP_KMS_KEY_NAME"] = Unset]

Plain == [dev |-> FALSE, permFile |-> TRUE, jwt |-> {}, audience |-> "", issuer |-> "",
          discovered |-> FALSE, userClaim |-> "sub", userHeader |-> FALSE,
          adminHeader |-> FALSE, adminValue |-> ""]
Dev == [Plain EXCEPT !.dev = TRUE, !.permFile = FALSE]
Google == [Plain EXCEPT !.jwt = {"url"}, !.audience = "us", !.issuer = "idp"]
Process(c, e, tags) == [cfg |-> c, env |-> e, tags |-> tags]

MCProcesses ==
  {Process(Plain, e, tags) : e \in {Clouds, NoName}, tags \in SUBSET {"kms", "gcpkms"}}
  \cup {Process(Dev, Nothing, {"kms"}), Process(Google, InFile, {}),
        Process(Google, [InFile EXCEPT !["JWT_JWKS"] = Inline("keys")], {}),
        Process(Plain, [Nothing EXCEPT !["MASTER_KEY"].file = Unreadable], {}),
        Process([Plain EXCEPT !.permFile = FALSE], InFile, {})}
=============================================================================
