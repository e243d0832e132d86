------------------------------ MODULE MCVersions ------------------------------
(***************************************************************************)
(* Instances of ChartVersions.                                             *)
(***************************************************************************)
EXTENDS ChartVersions

Line == [uid |-> <<"s", "a", "b">>, edges |-> {<<"s", "a">>, <<"a", "b">>}]
Loop == [uid |-> <<"s", "a">>, edges |-> {<<"s", "a">>, <<"a", "s">>}]
Fork == [uid |-> <<"s", "b", "c", "a">>, edges |-> {<<"s", "b">>, <<"s", "c">>, <<"c", "a">>}]
Imported == {Line, Loop, Fork}

\* Patches that connect nodes in another way, and one that adds a node.
Turned == [uid |-> <<"a">>, edges |-> {<<"a", "s">>}]
Cut == [uid |-> <<"s", "a">>, edges |-> {<<"s", "a">>}]
Grown == [uid |-> <<"a", "n">>, edges |-> {<<"a", "n">>}]
Reconnecting == {Turned, Cut}
Growing == {Grown}
=============================================================================
