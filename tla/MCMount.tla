------------------------------- MODULE MCMount --------------------------------
(***************************************************************************)
(* A small instance of Mount for TLC.                                      *)
(***************************************************************************)
EXTENDS Mount, TLC

X == <<"/", "app", "x">>
Y == <<"/", "app", "y">>
Climb == <<"/", "app", "..", "z">>
RelY == <<"app", "y">>

Keys == {X, Y, Climb, RelY}
Tree(entries) == entries @@ [p \in Keys |-> NoNode]
Leaf1 == [value |-> "1", isFolder |-> FALSE]
Leaf2 == [value |-> "2", isFolder |-> FALSE]
MCTrees == {Tree(X :> Leaf1 @@ Y :> Leaf1 @@ Climb :> Leaf1),
            Tree(X :> Leaf2 @@ Y :> Leaf2),
            Tree(X :> Leaf1 @@ Y :> Leaf1 @@ RelY :> Leaf2)}

MCSubjects == {<<"ns">>, <<"ns", "sa">>}
Grant(entries) == [admins |-> {}, users |-> <<>>,
                   namespaces |-> entries @@ [k \in MCSubjects |-> NoEntry]]
App == {<<"/", "app", "*">>}
MCPolicies == {Grant(<<"ns">> :> App @@ <<"ns", "sa">> :> {X}),
               Grant(<<"ns", "sa">> :> {<<"app", "y">>}),
               Grant(<<"ns">> :> App)}

Account(ns, sa) == [ns |-> ns, sa |-> sa]
MCAccounts == {Account(<<"ns">>, <<"sa">>), Account(<<"ns">>, <<"other">>),
               Account(<<"ns", "sa">>, <<"x">>), Account(<<>>, <<"sa">>)}

Get(f, p) == [file |-> f, path |-> p]
MCRequested == {<<Get("f", X), Junk, Get("g", RelY)>>, <<Get("f", Climb)>>, <<Get("bad", X)>>,
                <<Get("f", X), Get("g", <<"none">>)>>}
=============================================================================
