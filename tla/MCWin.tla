------------------------------- MODULE MCWin --------------------------------
(* Small graphs for TLC. *)
EXTENDS WinRun

(* A distributor deals strings to a batch node, which joins its own, and to a
   filter, which reads what the batch node makes of them as well.           *)
MixOrder == <<"distro", "cmd", "filter">>
MixEdge  == {<<"distro", "cmd">>, <<"distro", "filter">>, <<"cmd", "filter">>}
MixKind  == [distro |-> "distro", cmd |-> "command", filter |-> "filter"]

(* What two nodes write is put together again. *)
JoinOrder == <<"root", "a", "b", "join">>
JoinEdge  == {<<"root", "a">>, <<"root", "b">>, <<"a", "join">>, <<"b", "join">>}
JoinKind  == [n \in Node |-> "stream"]

Lines   == {1, 2, 9}
TwoArgs == <<1, 2>>
MixArgs == <<2, 2, 1, 1>>
=============================================================================
