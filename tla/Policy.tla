-------------------------------- MODULE Policy --------------------------------
(***************************************************************************)
(* The permissions file and the policy that the provider keeps of it: what *)
(* a file can say, what Load makes of it, and who may reach which path.    *)
(***************************************************************************)
EXTENDS VaultPath

CONSTANTS
  Users,      \* the names that the file and the tokens hold
  Subjects,   \* the keys of namespace_permissions, split at the slash
  NoEntry,    \* there is no entry for a key
  Bad         \* what is there is no list at all

-----------------------------------------------------------------------------
(* Mutant of matchPermission: a pattern without its slash matches nothing. *)
matchSlashed(pattern, vaultPath) ==
  /\ IsAbsolute(pattern)
  /\ LET vpath == Clean(normalizePath(vaultPath))
     IN  IF Last(pattern) = "*" THEN IsPrefix(Front(pattern), vpath) ELSE pattern = vpath

(* A path is compared after path.Clean, a pattern as it is written.  The   *)
(* pattern ".../*" covers the path before it and everything below.         *)
matchPermission(pattern, vaultPath) ==
  LET pat    == normalizePath(pattern)
      vpath  == Clean(normalizePath(vaultPath))
      prefix == Front(pat)
  IN  IF Last(pat) # "*" THEN pat = vpath
      ELSE \/ prefix = Root
           \/ vpath = prefix
           \/ IF Last(prefix) = ""     \* the prefix ends with a slash
                THEN Front(prefix) = Root \/ Under(vpath, Front(prefix))
                ELSE Under(vpath, prefix)

Has(policy, key) == key \in Subjects /\ policy.namespaces[key] # NoEntry
Allows(policy, key, vaultPath) ==
  \E pattern \in policy.namespaces[key] : matchPermission(pattern, vaultPath)

(* Mutant of CanAccess: the namespace is asked when the account is denied. *)
CanAccessFallsThrough(policy, ns, sa, vaultPath) ==
  \E key \in {ns \o sa, ns} : Has(policy, key) /\ Allows(policy, key, vaultPath)

(* Of the entries for the service account and for its namespace, the first *)
(* that is there decides.                                                  *)
CanAccess(policy, ns, sa, vaultPath) ==
  IF Has(policy, ns \o sa) THEN Allows(policy, ns \o sa, vaultPath)
  ELSE Has(policy, ns) /\ Allows(policy, ns, vaultPath)

(***************************************************************************)
(* The rights of a user of the admin UI: a copy of what the policy says at *)
(* the moment of the login.                                                *)
(***************************************************************************)
GetUserPermissions(policy, username) ==
  [user |-> username,
   isAdmin |-> username \in policy.admins,
   patterns |-> IF username \in Users /\ policy.users[username] # NoEntry
                  THEN policy.users[username] ELSE {}]

CanRead(up, vaultPath) ==
  up.isAdmin \/ \E pattern \in up.patterns : matchPermission(pattern, vaultPath)

(* Mutant of CanWrite: writing is for admins. *)
CanWriteAsAdmin(up, vaultPath) == up.isAdmin

CanWrite(up, vaultPath) == CanRead(up, vaultPath)
CanExport(up) == up.isAdmin

-----------------------------------------------------------------------------
(***************************************************************************)
(* What a pattern grants, for the properties.  The README: it is an exact  *)
(* path, or with a "*" at its end a prefix.  Here the prefix is a branch of*)
(* the tree, and a key counts as the path it stands for.  The README is    *)
(* silent on a doubled slash before the "*"; this follows the code, where  *)
(* it leaves out the branch itself.                                        *)
(***************************************************************************)
Branch(pat) == IF Last(Front(pat)) = "" THEN Front(Front(pat)) ELSE Front(pat)

Covers(pattern, p) ==
  LET pat    == normalizePath(pattern)
      branch == Branch(pat)
  IN  IF Last(pat) = "*"
        THEN \/ branch = Root
             \/ Under(Clean(p), branch)
             \/ Clean(p) = branch /\ branch = Front(pat)
        ELSE pat = Clean(p)

-----------------------------------------------------------------------------
(***************************************************************************)
(* A file that parses: the list of admins, a list for users and for        *)
(* namespaces, and whether there is a top-level key that Load does not     *)
(* know.  A list is [items, torn]: the elements that are strings, and      *)
(* whether there are others (a list or a map; yaml drops null without an   *)
(* error).  NoEntry: the key is missing.  A section that is no map decodes *)
(* like one in which everything is Bad.                                    *)
(***************************************************************************)
Sections == {"admin_users", "user_permissions", "namespace_permissions", "unknown"}

IsList(e) == e \notin {NoEntry, Bad}
Fails(e) == e = Bad \/ (IsList(e) /\ e.torn)

Broken(c) ==
  {s \in Sections :
     \/ s = "admin_users" /\ Fails(c.admins)
     \/ s = "user_permissions" /\ \E u \in Users : Fails(c.users[u])
     \/ s = "namespace_permissions" /\ \E k \in Subjects : Fails(c.namespaces[k])
     \/ s = "unknown" /\ c.unknown}

(* What yaml (external) stores of an entry, while it reports an error for a*)
(* torn list: the elements that decode.                                    *)
Given(e) == IF IsList(e) THEN e.items ELSE NoEntry

(* The state of the maps after Load emptied them and decoded the sections  *)
(* in seen, and the users in kept; old are the admins it had before.  Users*)
(* are decoded one by one into a list that is stored only when it is whole;*)
(* the admins and the namespaces are decoded in place.                     *)
Decoded(c, seen, kept, old) ==
  [admins |-> IF "admin_users" \in seen /\ IsList(c.admins) THEN c.admins.items ELSE old,
   users |-> [u \in Users |-> IF u \in kept THEN Given(c.users[u]) ELSE NoEntry],
   namespaces |-> [k \in Subjects |-> IF "namespace_permissions" \in seen
                                        THEN Given(c.namespaces[k]) ELSE NoEntry]]

(* The sets of users that may be decoded when Load fails in section bad,   *)
(* after the sections in seen.                                             *)
KeptUsers(c, bad, seen) ==
  CASE bad = "user_permissions" -> SUBSET {u \in Users : ~Fails(c.users[u])}
    [] "user_permissions" \in seen -> {Users}
    [] OTHER -> {{}}

(***************************************************************************)
(* What Load may leave behind after it parsed c.  It goes through the      *)
(* sections, and through the users, in Go's random map order, and returns  *)
(* at the first error with what it has decoded so far.                     *)
(***************************************************************************)
LoadOutcomes(c, old) ==
  IF Broken(c) = {} THEN {Decoded(c, Sections, Users, old)}
  ELSE UNION {{Decoded(c, seen \cup {bad}, kept, old) : kept \in KeptUsers(c, bad, seen)}
                : bad \in Broken(c), seen \in SUBSET (Sections \ Broken(c))}
=============================================================================
