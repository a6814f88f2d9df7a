----------------------------- MODULE MCPipeline -----------------------------
(***************************************************************************)
(* Small graphs for TLC.  Line 0 is "EOF", the other lines are inputs.     *)
(***************************************************************************)
EXTENDS PipelineProps

\* What a filter that accepts the lines of S writes.
Accept(S) == [l \in Line |-> IF l \in S THEN <<<<l>>>> ELSE <<>>]

(* A command, which may fail, names two files, one of them empty; their lines
   are listed and sorted by a batch command; the last command runs on every
   line of the result.                                                      *)
ChainNode    == {"src", "list", "sort", "cmd"}
ChainOutputs == [src |-> <<"list">>, list |-> <<"sort">>, sort |-> <<"cmd">>, cmd |-> <<>>]
ChainKind    == [src |-> "command", list |-> "filelist", sort |-> "command",
                 cmd |-> "command"]
ChainTable   == [n \in ChainNode |-> [l \in Line |-> IF l = 1 THEN <<<<3>>, <<1>>>> ELSE <<>>]]
ChainArgs    == <<1, 2>>

(* A distributor, its workers, one of them a filter, and the node that merges
   their results.                                                           *)
DistroNode    == {"distro", "w1", "w2", "join"}
DistroOutputs == [distro |-> <<"w1", "w2">>, w1 |-> <<"join">>, w2 |-> <<"join">>,
                  join |-> <<>>]
DistroKind    == [distro |-> "distro", w1 |-> "filter", w2 |-> "command",
                  join |-> "command"]
DistroTable   == [n \in DistroNode |-> Accept({1})]
DistroArgs    == <<1, 2, 2>>

(* Whatever can go wrong: a batch root whose command may fail, a filter that
   does not compile, a batch node behind both, a distributor without outputs. *)
FaultsNode    == {"src", "filter", "batch", "distro"}
FaultsOutputs == [src |-> <<"filter", "batch">>, filter |-> <<"batch">>,
                  batch |-> <<"distro">>, distro |-> <<>>]
FaultsKind    == [src |-> "command", filter |-> "filter", batch |-> "command",
                  distro |-> "distro"]
FaultsTable   == [n \in FaultsNode |-> [l \in Line |-> <<<<2>>, <<1>>>>]]
FaultsArgs    == <<2, 1>>

(* A distributor that is not a root. *)
DropNode    == {"src", "distro", "cmd"}
DropOutputs == [src |-> <<"distro">>, distro |-> <<"cmd">>, cmd |-> <<>>]
DropKind    == [src |-> "concat", distro |-> "distro", cmd |-> "command"]
DropTable   == [n \in DropNode |-> Accept({})]
DropArgs    == <<1, 2>>
=============================================================================
