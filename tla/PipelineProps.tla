--------------------------- MODULE PipelineProps ----------------------------
(***************************************************************************)
(* Properties of an execution that count lines: what a node has run on is  *)
(* compared with what its parents have written.                            *)
(***************************************************************************)
EXTENDS Pipeline, SequencesExt, FiniteSetsExt

DataOf(s) == SelectSeq(s, LAMBDA l : l # EOF)

(* How often node n has run on l, and how often l was written for it. *)
Runs(n, l)      == Copies(l, handled[n])
WrittenTo(n, l) == Copies(l, [e \in In(n) |-> sent[e]])

(* "A node will execute once per token until all tokens have been received":
   a node that returns true has run exactly once on every line its parents
   wrote, "EOF" excepted.                                                   *)
RunsOnEveryToken ==
  \A n \in Node : ~Root(n) /\ pc[n] = "exited" /\ stat[n] =>
    \A l \in Line \ {EOF} : Runs(n, l) = WrittenTo(n, l)

(* At no time has a node run on a line more often than it was written. *)
RunsOncePerToken ==
  \A n \in Node : ~Root(n) =>
    \A l \in Line : Runs(n, l) <= WrittenTo(n, l)

(* A node with one parent that is not a batch node runs on the lines one by
   one, in the order they were written ("EOF" being the last of them),
   whatever way ReadInputs cuts the stream up.                              *)
InOrder ==
  \A n \in Node \ Batch : \A e \in Edge : In(n) = {e} =>
    /\ Len(handled[n]) <= Len(sent[e])
    /\ \A i \in DOMAIN handled[n] : handled[n][i] = <<sent[e][i]>>

(* The execution as the abstract specification sees it: the lines on the
   pipes without "EOF", a stream ended once "EOF" is on it.                 *)
Flow == INSTANCE TokenFlow WITH
  Deals  <- {n \in Node : Kind[n] = "distro"},
  ran    <- handled,
  stream <- [e \in Edge |-> DataOf(sent[e])],
  ended  <- {e \in Edge : EndsWithEof(sent[e])},
  failed <- {n \in Node : ~stat[n]},
  gone   <- {n \in Node : pc[n] = "exited"}

(* The processes, their pipes and the counting of "EOF"s implement the flow
   of tokens: no token is lost, repeated, misdirected or, behind a single
   parent, overtaken; a batch node runs once, on all its tokens, sorted; a
   distributor deals its tokens out in turn; a stream ends when it is
   complete; and every node stops in the end (the loops of every Execute,
   Node::ReadInputs, Node::WriteOutputs, DistroNode::WriteNextOutput).      *)
ImplementsFlow == Flow!Spec

(* The same but for the end, for executions in which a process may be killed
   by SIGPIPE: until then, and in all that goes on, no token is lost,
   repeated, misdirected or overtaken.                                      *)
FollowsFlow == Flow!Safe
=============================================================================
