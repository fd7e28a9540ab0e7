---------------------------- MODULE MCPermissions -----------------------------
(***************************************************************************)
(* Small instances of Permissions for TLC.                                 *)
(***************************************************************************)
EXTENDS Permissions, TLC

MCUsers == {"ann", "bob"}
MCSubjects == {<<"ns">>, <<"ns", "sa">>}

All == {<<"/", "*">>}
App == {<<"/", "app", "*">>}

Doc(admins, users, namespaces, unknown) ==
  [admins |-> admins,
   users |-> users @@ [u \in MCUsers |-> NoEntry],
   namespaces |-> namespaces @@ [k \in MCSubjects |-> NoEntry],
   unknown |-> unknown]

List(items) == [items |-> items, torn |-> FALSE]
Torn(items) == [items |-> items, torn |-> TRUE]

(* A full file; one with less in every section; one without an admin list  *)
(* and with a key that Load rejects; one with an error in every section:   *)
(* lists that decode in part, and what is no list.                         *)
Full == Doc(List({"ann"}), "ann" :> List(All) @@ "bob" :> List(App),
            <<"ns">> :> List(All) @@ <<"ns", "sa">> :> List(App), FALSE)
Less == Doc(NoEntry, "bob" :> List(All), <<"ns", "sa">> :> List(App), FALSE)
Odd == Doc(NoEntry, "ann" :> List(App), <<"ns">> :> List(All), TRUE)
Half == Doc(Torn({"bob"}), "ann" :> Torn(App) @@ "bob" :> List(All),
            <<"ns">> :> Torn(App) @@ <<"ns", "sa">> :> Bad, FALSE)

MCContents == {Full, Less, Odd, Half}
=============================================================================
