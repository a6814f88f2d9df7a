------------------------------ MODULE MCWatch -------------------------------
(* An input directory d with a file in it, perhaps with a subdirectory, and
   an input file f, which may be renamed.                                   *)
EXTENDS WatchNode

MCDir     == {<<"d">>, <<"d", "s">>, <<"d", "s", "t">>}
MCFile    == {<<"f">>, <<"d", "x">>, <<"d", "s", "x">>}
MCPresent == {<<"d">>, <<"d", "x">>, <<"d", "s">>, <<"d", "s", "x">>, <<"f">>}
MCInputs  == <<<<"f">>, <<"d">>>>
=============================================================================
