------------------------------- MODULE MCAdmin --------------------------------
(***************************************************************************)
(* A small instance of Admin for TLC: a deployment with an identity        *)
(* provider, one behind a proxy that names the user, and development mode. *)
(***************************************************************************)
EXTENDS Admin, TLC

X == <<"/", "app", "x">>
Y == <<"/", "app", "d", "y">>
Z == <<"/", "z">>
Climb == <<"/", "app", "..", "z">>
RelX == <<"app", "x">>

MCPaths == {X, Y, Z, Climb, RelX}
Leaf1 == [value |-> "1", isFolder |-> FALSE]
Leaf2 == [value |-> "2", isFolder |-> FALSE]
Blank == [value |-> "", isFolder |-> FALSE]
Tree(entries) == entries @@ [p \in MCPaths |-> NoNode]
Tree1 == Tree(X :> Leaf1 @@ Y :> Leaf1 @@ Climb :> Leaf1)
Tree2 == Tree(RelX :> Leaf2 @@ Z :> Leaf1)

MCUsers == {"alice", "bob"}
Grant(admins, entries) == [admins |-> admins, users |-> entries @@ [u \in MCUsers |-> NoEntry],
                           namespaces |-> <<>>]
MCPolicies == {Grant({}, "alice" :> {<<"/", "app", "d", "*">>} @@ "bob" :> {<<"z">>}),
               Grant({"bob"}, "alice" :> {X})}

Op(kind, p, n) == [kind |-> kind, path |-> p, node |-> n]
Home == Op("view", <<>>, NoNode)
Unlocking == Op("unlock", <<>>, NoNode)
Exporting == Op("export", <<>>, NoNode)
Ask(token, op0) == [bearer |-> token, user |-> "", admin |-> "", op |-> op0]
Headed(token, user, admin, op0) == [bearer |-> token, user |-> user, admin |-> admin, op |-> op0]

(* An access token, one of an address that is not verified, a JWT that is  *)
(* good for a moment, not yet at the start, and one for another client.    *)
Opaque(user, verified) ==
  [jwt |-> FALSE, signed |-> FALSE, nbf |-> 0, exp |-> 0, aud |-> {}, iss |-> "", user |-> user,
   verified |-> verified, access |-> TRUE]
JWT(user, aud, nbf, exp) ==
  [jwt |-> TRUE, signed |-> TRUE, nbf |-> nbf, exp |-> exp, aud |-> aud, iss |-> "idp",
   user |-> user, verified |-> "true", access |-> FALSE]
MCClaims == "access" :> Opaque("alice", "none") @@ "unverified" :> Opaque("bob", "false")
            @@ "jwt" :> JWT("bob", {"us"}, 1, 2) @@ "foreign" :> JWT("bob", {"them"}, 0, 2)

Settings == [dev |-> FALSE, permFile |-> TRUE, jwt |-> {}, audience |-> "", issuer |-> "",
             discovered |-> FALSE, userClaim |-> "sub", userHeader |-> FALSE,
             adminHeader |-> FALSE, adminValue |-> ""]
OIDC == [Settings EXCEPT !.jwt = {"url"}, !.audience = "us", !.issuer = "idp",
                         !.discovered = TRUE, !.userClaim = "email"]
Proxy == [Settings EXCEPT !.userHeader = TRUE, !.adminHeader = TRUE, !.adminValue = "yes"]

MCDeployments ==
  { [cfg |-> OIDC, horizon |-> 3, trees |-> {Tree1},
     asks |-> {Ask("access", Exporting), Ask("unverified", Exporting)}],
    [cfg |-> [OIDC EXCEPT !.userHeader = TRUE, !.adminHeader = TRUE, !.adminValue = "yes"],
     horizon |-> 2, trees |-> {Tree1},
     asks |-> {Headed("jwt", "bob", "yes", Exporting),
               Headed("foreign", "alice", "", Op("update", Y, Leaf2))}],
    [cfg |-> Proxy, horizon |-> 0, trees |-> {Tree1, Tree2},
     asks |-> {Headed(NoToken, "alice", "", o) :
                 o \in {Home, Op("view", <<"/", "app">>, NoNode), Op("entry", X, NoNode),
                        Op("update", <<"app", "d", "y">>, Leaf2), Op("update", Climb, Leaf2),
                        Op("update", X, Blank), Op("delete", Climb, NoNode), Unlocking}}
              \cup {Headed(NoToken, "bob", "yes", o) : o \in {Unlocking, Exporting}}
              \cup {Headed(NoToken, "bob", "no", Unlocking),
                    Headed(NoToken, "", "yes", Unlocking)}],
    [cfg |-> [Settings EXCEPT !.dev = TRUE, !.permFile = FALSE], horizon |-> 0,
     trees |-> {Tree1, Tree2},
     asks |-> {Ask(NoToken, o) : o \in {Home, Unlocking, Exporting, Op("delete", X, NoNode)}}],
    [cfg |-> [Proxy EXCEPT !.adminValue = ""], horizon |-> 0, trees |-> {Tree1, Tree2},
     asks |-> {Ask(NoToken, Exporting)}],
    [cfg |-> [Settings EXCEPT !.permFile = FALSE], horizon |-> 0, trees |-> {Tree1, Tree2},
     asks |-> {Ask(NoToken, Exporting)}],
    [cfg |-> [OIDC EXCEPT !.audience = ""], horizon |-> 0, trees |-> {Tree1, Tree2},
     asks |-> {Ask("foreign", Exporting)}] }

Symmetry == Permutations(Requests)
=============================================================================
