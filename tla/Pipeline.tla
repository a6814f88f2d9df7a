------------------------------ MODULE Pipeline ------------------------------
(***************************************************************************)
(* One execution of a graph on a POSIX system.  Graph::Execute forks one   *)
(* process per node; the processes share nothing but named pipes, one for  *)
(* each edge.  A root node is handed the graph's input, any other node     *)
(* reads strings from the pipes of its parents; a node runs once per       *)
(* string, writes what comes out of it to its children and, when it has    *)
(* seen one "EOF" from every parent, sends "EOF" itself and exits.         *)
(*                                                                         *)
(* A string is modelled as the sequence of its lines: a write appends the  *)
(* lines to the pipe, and the reader splits what it reads at the newlines  *)
(* again and drops empty lines.  "EOF" is an ordinary line that the code   *)
(* compares with.  A write never exceeds PIPE_BUF, so it is atomic.        *)
(***************************************************************************)
EXTENDS Strings

CONSTANTS
  Node,       \* the nodes of the graph
  Outputs,    \* Node::outputs_: the children, in the order of connection
  Kind,       \* the node's type
  Batch,      \* the nodes whose "batch" flag is set
  Args,       \* the graph's input, already split
  Echo,       \* the commands whose OUTPUT is their INPUT
  Table,      \* what the other commands, the filters and the file lists
              \* write for an input
  MayFail,    \* the commands that may return an error
  BadRegex,   \* the filters whose regular expression does not compile
  Capacity,   \* how many lines a pipe holds
  MaxEofs     \* bound on eofs_ (an unbounded counter in the code)

Kinds == {"command", "filter", "concat", "distro", "filelist"}

Edge    == {e \in Node \X Node :
              \E i \in DOMAIN Outputs[e[1]] : Outputs[e[1]][i] = e[2]}
In(n)   == {e \in Edge : e[2] = n}
Out(n)  == {e \in Edge : e[1] = n}
NIn(n)  == Cardinality(In(n))
Root(n) == In(n) = {}

(* The edges of outputs_, in the order of the list. *)
OutList(n) == [i \in DOMAIN Outputs[n] |-> <<n, Outputs[n][i]>>]

ASSUME GraphAssumption ==
  /\ IsFiniteSet(Node)
  /\ Outputs \in [Node -> Seq(Node)]
  /\ Kind \in [Node -> Kinds]
  /\ \A n \in Batch \cup Echo \cup MayFail : n \in Node /\ Kind[n] = "command"
  /\ \A n \in BadRegex : n \in Node /\ Kind[n] = "filter"

ASSUME DataAssumption ==
  /\ Args \in Seq(Line)
  /\ \A n \in Node, l \in Line : Table[n][l] \in Seq(String)

ASSUME BoundAssumption ==
  /\ Capacity \in Nat \ {0}
  /\ MaxEofs \in Nat
  /\ \A n \in Node : NIn(n) < MaxEofs

VARIABLES
  pc,       \* where each process is
  fifo,     \* the lines in each pipe
  readers,  \* the pipes the child holds open (OpenInputs .. CloseInputs)
  inputs,   \* the strings a node has read and not processed yet
  buf,      \* what the ReadInputs call under way has read so far
  eofs,     \* eofs_
  called,   \* whether the node's own Execute has been entered
  outq,     \* the strings still to be written for the current input
  toOpen,   \* the pipes OpenOutputs has still to open
  opened,   \* fd_out_: the pipes open for writing
  pending,  \* the pipes the string being written has not gone to
  ready,    \* the pipes the last poll reported
  next,     \* DistroNode::output_it_, as an index of Outputs
  closing,  \* whether the node is sending its final "EOF"
  stat,     \* what Execute will return
  sent,     \* history: all lines written to each pipe
  handled   \* history: the strings each node has run on

ctl     == <<pc, called, closing, stat>>
pipes   == <<fifo, readers>>
reading == <<inputs, buf, eofs>>
writing == <<outq, toOpen, opened, pending, next>>
history == <<sent, handled>>
vars    == <<ctl, pipes, reading, writing, ready, history>>

PCs == {"begin", "poll", "read", "enter", "join", "work", "open", "pollout",
        "write", "wrote", "end", "exited", "killed"}

Stopped(n) == pc[n] \in {"exited", "killed"}

(* The type invariant. *)
TypeOK ==
  /\ pc       \in [Node -> PCs]
  /\ fifo     \in [Edge -> Seq(Line)]
  /\ readers  \in [Edge -> BOOLEAN]
  /\ inputs   \in [Node -> Seq(String)]
  /\ buf      \in [Node -> Seq(Line)]
  /\ eofs     \in [Node -> 0..MaxEofs]
  /\ called   \in [Node -> BOOLEAN]
  /\ outq     \in [Node -> Seq(String)]
  /\ toOpen   \in [Node -> Seq(Edge)]
  /\ opened   \in [Node -> SUBSET Edge]
  /\ pending  \in [Node -> SUBSET Edge]
  /\ ready    \in [Node -> SUBSET Edge]
  /\ next     \in [Node -> Nat]
  /\ closing  \in [Node -> BOOLEAN]
  /\ stat     \in [Node -> BOOLEAN]
  /\ sent     \in [Edge -> Seq(Line)]
  /\ handled  \in [Node -> Seq(String)]

Init ==
  /\ pc = [n \in Node |-> "begin"]
  /\ fifo = [e \in Edge |-> <<>>]
  /\ readers = [e \in Edge |-> FALSE]
  /\ inputs = [n \in Node |-> <<>>]
  /\ buf = [n \in Node |-> <<>>]
  /\ eofs = [n \in Node |-> 0]
  /\ called = [n \in Node |-> FALSE]
  /\ outq = [n \in Node |-> <<>>]
  /\ toOpen = [n \in Node |-> <<>>]
  /\ opened = [n \in Node |-> {}]
  /\ pending = [n \in Node |-> {}]
  /\ ready = [n \in Node |-> {}]
  /\ next = [n \in Node |-> 1]
  /\ closing = [n \in Node |-> FALSE]
  /\ stat = [n \in Node |-> TRUE]
  /\ sent = [e \in Edge |-> <<>>]
  /\ handled = [n \in Node |-> <<>>]

-----------------------------------------------------------------------------
(* Node n's input side. *)

GoTo(n, l) == pc' = [pc EXCEPT ![n] = l]

(* The leader forks the node: a root is handed the graph's input, any other
   node opens its pipes, for reading and writing, without blocking.         *)
Begin(n) ==
  /\ pc[n] = "begin"
  /\ IF Root(n)
       THEN /\ inputs' = [inputs EXCEPT ![n] = AsStrings(Args)]
            /\ GoTo(n, "enter")
            /\ UNCHANGED readers
       ELSE /\ readers' = [e \in Edge |-> readers[e] \/ e \in In(n)]
            /\ GoTo(n, "poll")
            /\ UNCHANGED inputs
  /\ UNCHANGED <<called, closing, stat, fifo, buf, eofs, writing, ready, history>>

(* poll() on the input pipes reports those that hold data. *)
Poll(n) ==
  LET some == {e \in In(n) : fifo[e] # <<>>} IN
  /\ pc[n] = "poll"
  /\ some # {}
  /\ ready' = [ready EXCEPT ![n] = some]
  /\ GoTo(n, "read")
  /\ UNCHANGED <<called, closing, stat, pipes, reading, writing, history>>

(* Mutant: every loop stops, like the distributor's, when ReadInputs returns
   -1, and forgets what came with the last "EOF".                           *)
Collect_Drop(n, new) ==
  LET sum == eofs[n] + EofsIn(AsStrings(new)) IN
  /\ inputs' = [inputs EXCEPT ![n] = AsStrings(new)]
  /\ buf' = [buf EXCEPT ![n] = <<>>]
  /\ eofs' = [eofs EXCEPT ![n] = sum]
  /\ GoTo(n, IF ~called[n] THEN "enter" ELSE IF sum = NIn(n) THEN "end" ELSE "work")

(* The rest of ReadInputs: the new strings go in front of those kept from
   earlier calls, the "EOF"s among ALL of them are added to eofs_, and the
   caller decides what comes next.  Node::Execute calls ReadInputs once, or
   until it returns -1 in a batch node; the loop of the node's own Execute
   tests eofs_ <= fd_in_.size() before it looks at the strings, and
   DistroNode's stops when the call returns -1.                             *)
Collect(n, new) ==
  LET strs == AsStrings(new) \o inputs[n]
      sum  == eofs[n] + EofsIn(strs)
      all  == sum = NIn(n)
  IN
  /\ inputs' = [inputs EXCEPT ![n] = strs]
  /\ buf' = [buf EXCEPT ![n] = <<>>]
  /\ eofs' = [eofs EXCEPT ![n] = IF sum <= MaxEofs THEN sum ELSE MaxEofs]
  /\ \/ ~called[n] /\ n \in Batch /\ ~all /\ GoTo(n, "poll")
     \/ ~called[n] /\ n \in Batch /\ all /\ GoTo(n, "join")
     \/ ~called[n] /\ n \notin Batch /\ GoTo(n, "enter")
     \/ called[n] /\ (sum > NIn(n) \/ (all /\ Kind[n] = "distro")) /\ GoTo(n, "end")
     \/ called[n] /\ sum <= NIn(n) /\ ~(all /\ Kind[n] = "distro") /\ GoTo(n, "work")

(* One of the reported pipes is read until it is empty. *)
Read(n) ==
  /\ pc[n] = "read"
  /\ \E e \in ready[n] :
       /\ fifo' = [fifo EXCEPT ![e] = <<>>]
       /\ ready' = [ready EXCEPT ![n] = @ \ {e}]
       /\ IF ready[n] = {e}
            THEN Collect(n, buf[n] \o fifo[e])
            ELSE /\ buf' = [buf EXCEPT ![n] = @ \o fifo[e]]
                 /\ UNCHANGED <<pc, inputs, eofs>>
  /\ UNCHANGED <<called, closing, stat, readers, writing, history>>

(* poll() times out.  The call goes through all the same, with nothing new:
   the first of a node that is not a batch node leads to its own Execute, a
   batch node's counts the "EOF"s it has kept again.  The other calls lead
   back to the same poll and are no steps of the model.                     *)
Timeout(n) ==
  /\ pc[n] = "poll"
  /\ \A e \in In(n) : fifo[e] = <<>>
  /\ IF called[n] \/ n \in Batch
       THEN EofsIn(inputs[n]) > 0 /\ eofs[n] < MaxEofs
       ELSE TRUE
  /\ Collect(n, <<>>)
  /\ UNCHANGED <<called, closing, stat, pipes, writing, ready, history>>

(* concat_inputs: the strings but for "EOF", sorted, become one; p lists
   their positions in that order.                                           *)
Join(n) ==
  LET strs == inputs[n]
      data == {i \in DOMAIN strs : strs[i] # <<EOF>>}
  IN
  /\ pc[n] = "join"
  /\ \E k \in 0..Len(strs) : \E p \in [1..k -> data] :
       /\ \A i \in data : \E j \in 1..k : p[j] = i
       /\ \A i, j \in 1..k : i # j => p[i] # p[j]
       /\ Sorted(strs, p)
       /\ inputs' = [inputs EXCEPT ![n] =
            IF k = 0 THEN <<<<EOF>>>> ELSE <<[j \in 1..k |-> strs[p[j]][1]], <<EOF>>>>]
  /\ GoTo(n, IF Root(n) THEN "work" ELSE "enter")
  /\ UNCHANGED <<called, closing, stat, pipes, buf, eofs, writing, ready, history>>

-----------------------------------------------------------------------------
(* Node n's own Execute: the loop over its inputs. *)

CloseReads(n) == readers' = [e \in Edge |-> readers[e] /\ e \notin In(n)]

Exit(n) ==
  /\ GoTo(n, "exited")
  /\ CloseReads(n)
  /\ opened' = [opened EXCEPT ![n] = {}]

(* A distributor without outputs returns at once; a filter that cannot
   compile its expression only sends "EOF".                                 *)
Enter(n) ==
  /\ pc[n] = "enter"
  /\ called' = [called EXCEPT ![n] = TRUE]
  /\ IF Kind[n] = "distro" /\ Outputs[n] = <<>>
       THEN Exit(n) /\ UNCHANGED stat
       ELSE /\ GoTo(n, CASE n \in BadRegex -> "end"
                         [] Root(n) /\ n \in Batch -> "join"
                         [] ~Root(n) /\ eofs[n] > NIn(n) -> "end"
                         [] OTHER -> "work")
            /\ stat' = [stat EXCEPT ![n] = n \notin BadRegex]
            /\ UNCHANGED <<readers, opened>>
  /\ UNCHANGED <<closing, fifo, reading, outq, toOpen, pending, next, ready, history>>

(* An "EOF" among the inputs is passed over; a root that is not a command
   treats one it was given like any other input.                            *)
Skipped(n, i) == inputs[n][i] = <<EOF>> /\ (~Root(n) \/ Kind[n] = "command")

(* Mutant: the loop may pass over an input. *)
At_Any(n, i) == pc[n] = "work" /\ ~Skipped(n, i)

(* The loop has come to the i-th input. *)
At(n, i) ==
  /\ pc[n] = "work"
  /\ ~Skipped(n, i)
  /\ \A j \in 1..(i - 1) : Skipped(n, j)

Result(n, s) ==
  IF Kind[n] \in {"concat", "distro"} \/ n \in Echo THEN <<s>> ELSE Table[n][s[1]]

(* OpenOutputs opens every output, OpenNextOutput the distributor's next. *)
Targets(n) ==
  IF Kind[n] = "distro" THEN <<OutList(n)[next[n]]>> ELSE OutList(n)

(* Mutant: the input being processed stays in the list. *)
Rest_Again(n, i) == SubSeq(inputs[n], i, Len(inputs[n]))

(* The inputs after the i-th. *)
Rest(n, i) == SubSeq(inputs[n], i + 1, Len(inputs[n]))

(* The node runs on the next input.  A command opens its outputs even when
   it has nothing to write.                                                 *)
Run(n) == \E i \in DOMAIN inputs[n] :
  LET s   == inputs[n][i]
      out == Result(n, s)
  IN
  /\ At(n, i)
  /\ inputs' = [inputs EXCEPT ![n] = Rest(n, i)]
  /\ handled' = [handled EXCEPT ![n] = Append(@, s)]
  /\ outq' = [outq EXCEPT ![n] = out]
  /\ IF Kind[n] = "command" \/ out # <<>>
       THEN toOpen' = [toOpen EXCEPT ![n] = Targets(n)] /\ GoTo(n, "open")
       ELSE UNCHANGED <<toOpen, pc>>
  /\ UNCHANGED <<called, closing, stat, pipes, buf, eofs, opened, pending, next, ready, sent>>

(* Mutant: a command that fails ends the process at once. *)
Fail_Exit(n) == \E i \in DOMAIN inputs[n] :
  /\ At(n, i)
  /\ n \in MayFail
  /\ stat' = [stat EXCEPT ![n] = FALSE]
  /\ Exit(n)
  /\ UNCHANGED <<called, closing, fifo, reading, outq, toOpen, pending, next, ready, history>>

(* A command that fails breaks the loop. *)
Fail(n) == \E i \in DOMAIN inputs[n] :
  /\ At(n, i)
  /\ n \in MayFail
  /\ stat' = [stat EXCEPT ![n] = FALSE]
  /\ GoTo(n, "end")
  /\ UNCHANGED <<called, closing, pipes, reading, writing, ready, history>>

(* Mutant: the loop ends at the first "EOF". *)
AllEofs_First(n) == eofs[n] > 0

(* eofs_ == fd_in_.size() *)
AllEofs(n) == eofs[n] = NIn(n)

(* All inputs are processed: stop after the last "EOF", else read on. *)
LoopEnd(n) ==
  /\ pc[n] = "work"
  /\ \A i \in DOMAIN inputs[n] : Skipped(n, i)
  /\ inputs' = [inputs EXCEPT ![n] = <<>>]
  /\ GoTo(n, IF Root(n) \/ AllEofs(n) THEN "end" ELSE "poll")
  /\ UNCHANGED <<called, closing, stat, pipes, buf, eofs, writing, ready, history>>

(* Mutants: no output is told, or the node does not remember that it was the
   last thing to send.                                                      *)
SendEof_To(n, list, last) ==
  /\ pc[n] = "end"
  /\ CloseReads(n)
  /\ closing' = [closing EXCEPT ![n] = last]
  /\ outq' = [outq EXCEPT ![n] = <<<<EOF>>>>]
  /\ toOpen' = [toOpen EXCEPT ![n] = list]
  /\ GoTo(n, "open")
  /\ UNCHANGED <<called, stat, fifo, reading, opened, pending, next, ready, history>>
SendEof_None(n)  == SendEof_To(n, <<>>, TRUE)
SendEof_Again(n) == SendEof_To(n, OutList(n), FALSE)

(* After the loop: CloseInputs, then "EOF" for every output. *)
SendEof(n) ==
  /\ pc[n] = "end"
  /\ IF n \in BadRegex THEN UNCHANGED readers ELSE CloseReads(n)
  /\ closing' = [closing EXCEPT ![n] = TRUE]
  /\ outq' = [outq EXCEPT ![n] = <<<<EOF>>>>]
  /\ toOpen' = [toOpen EXCEPT ![n] = OutList(n)]
  /\ GoTo(n, "open")
  /\ UNCHANGED <<called, stat, fifo, reading, opened, pending, next, ready, history>>

-----------------------------------------------------------------------------
(* Node n's output side. *)

(* The first string is to be written to all the pipes in fds; with nothing
   to write, or none open, WriteOutputs returns at once.                    *)
StartWrite(n, fds) ==
  IF outq[n] = <<>> \/ fds = {}
    THEN /\ outq' = [outq EXCEPT ![n] = <<>>]
         /\ GoTo(n, "wrote")
         /\ UNCHANGED pending
    ELSE /\ pending' = [pending EXCEPT ![n] = fds]
         /\ GoTo(n, "pollout")
         /\ UNCHANGED outq

(* open(O_WRONLY) returns only while somebody has the pipe open to read. *)
Open(n) ==
  LET fds == opened[n] \cup {Head(toOpen[n])} IN
  /\ pc[n] = "open" /\ toOpen[n] # <<>>
  /\ readers[Head(toOpen[n])]
  /\ opened' = [opened EXCEPT ![n] = fds]
  /\ toOpen' = [toOpen EXCEPT ![n] = Tail(@)]
  /\ IF Len(toOpen[n]) = 1 THEN StartWrite(n, fds) ELSE UNCHANGED <<pc, outq, pending>>
  /\ UNCHANGED <<called, closing, stat, pipes, reading, next, ready, history>>

(* A node without children has nothing to open. *)
OpenNone(n) ==
  /\ pc[n] = "open" /\ toOpen[n] = <<>>
  /\ StartWrite(n, {})
  /\ UNCHANGED <<called, closing, stat, pipes, reading, toOpen, opened, next, ready, history>>

(* poll() reports the outputs with room among those still pending, and
   every output that has lost its reader (POLLERR is not maskable).         *)
PollOut(n) ==
  LET room(e) == Len(fifo[e]) + Len(Head(outq[n])) <= Capacity
      some == {e \in opened[n] : ~readers[e] \/ (e \in pending[n] /\ room(e))}
  IN
  /\ pc[n] = "pollout"
  /\ some # {}
  /\ ready' = [ready EXCEPT ![n] = some]
  /\ GoTo(n, "write")
  /\ UNCHANGED <<called, closing, stat, pipes, reading, writing, history>>

(* write() to one of the reported outputs.  When they are done the loop polls
   again while others are pending; a command goes on to its next string.    *)
Write(n) ==
  /\ pc[n] = "write"
  /\ \E e \in ready[n] :
       LET left == pending[n] \ {e} IN
       /\ readers[e]
       /\ fifo' = [fifo EXCEPT ![e] = @ \o Head(outq[n])]
       /\ sent' = [sent EXCEPT ![e] = @ \o Head(outq[n])]
       /\ ready' = [ready EXCEPT ![n] = @ \ {e}]
       /\ \/ ready[n] # {e} /\ pending' = [pending EXCEPT ![n] = left] /\ UNCHANGED <<pc, outq>>
          \/ /\ ready[n] = {e} /\ left # {}
             /\ pending' = [pending EXCEPT ![n] = left]
             /\ GoTo(n, "pollout")
             /\ UNCHANGED outq
          \/ /\ ready[n] = {e} /\ left = {}
             /\ outq' = [outq EXCEPT ![n] = Tail(@)]
             /\ IF Kind[n] = "command" /\ Len(outq[n]) > 1
                  THEN pending' = [pending EXCEPT ![n] = opened[n]] /\ GoTo(n, "pollout")
                  ELSE pending' = [pending EXCEPT ![n] = {}] /\ GoTo(n, "wrote")
  /\ UNCHANGED <<called, closing, stat, readers, reading, toOpen, opened, next, handled>>

(* write() to an output without a reader: SIGPIPE, which nobody catches. *)
BrokenPipe(n) ==
  /\ pc[n] = "write"
  /\ \E e \in ready[n] : ~readers[e]
  /\ GoTo(n, "killed")
  /\ CloseReads(n)
  /\ opened' = [opened EXCEPT ![n] = {}]
  /\ UNCHANGED <<called, closing, stat, fifo, reading, outq, toOpen, pending, next, ready, history>>

(* Mutant: ++output_it_ is forgotten. *)
NextOutput_Same(n) == next[n]

(* ++output_it_, which wraps in OpenNextOutput. *)
NextOutput(n) == IF Kind[n] = "distro" THEN (next[n] % Len(Outputs[n])) + 1 ELSE next[n]

(* CloseOutputs.  A command has written all its output by now, a file list
   opens the outputs again for its next line.                               *)
CloseOutputs(n) ==
  /\ pc[n] = "wrote"
  /\ IF closing[n]
       THEN Exit(n) /\ UNCHANGED <<toOpen, next>>
       ELSE /\ opened' = [opened EXCEPT ![n] = {}]
            /\ next' = [next EXCEPT ![n] = NextOutput(n)]
            /\ IF outq[n] = <<>>
                 THEN GoTo(n, "work") /\ UNCHANGED toOpen
                 ELSE GoTo(n, "open") /\ toOpen' = [toOpen EXCEPT ![n] = Targets(n)]
            /\ UNCHANGED readers
  /\ UNCHANGED <<called, closing, stat, fifo, reading, outq, pending, ready, history>>

Step(n) ==
  \/ Begin(n) \/ Poll(n) \/ Read(n) \/ Timeout(n) \/ Join(n)
  \/ Enter(n) \/ Run(n) \/ Fail(n) \/ LoopEnd(n) \/ SendEof(n)
  \/ Open(n) \/ OpenNone(n) \/ PollOut(n) \/ Write(n) \/ BrokenPipe(n)
  \/ CloseOutputs(n)

(* wait_() returns when every process is gone, and with it Graph::Execute. *)
Finished == \A n \in Node : Stopped(n)

Done == Finished /\ UNCHANGED vars

Next == (\E n \in Node : Step(n)) \/ Done

(* The scheduler of the operating system lets every process run. *)
Spec == Init /\ [][Next]_vars /\ \A n \in Node : WF_vars(Step(n))

-----------------------------------------------------------------------------
(* Safety. *)

(* A node that leaves its loop in good order has had an "EOF" from every
   parent and has left nothing behind in a pipe: the counting of "EOF"s in
   ReadInputs never closes the inputs early.                                *)
ClosesAfterEveryEof ==
  \A n \in Node : (pc[n] = "end" \/ closing[n]) /\ stat[n] =>
    \A e \in In(n) : fifo[e] = <<>> /\ EndsWithEof(sent[e])

(* The stream on a pipe is over once "EOF" has been written: an output gets
   its "EOF" once, and after everything else.                               *)
NothingAfterEof ==
  \A e \in Edge : \A i \in 1..(Len(sent[e]) - 1) : sent[e][i] # EOF

(* A process that gets to exit, even after a failure, has told all its
   children (the "EOF" comes after the loop in every Execute).              *)
EofBeforeExit ==
  \A n \in Node : pc[n] = "exited" => \A e \in Out(n) : EndsWithEof(sent[e])

(* An output that has been written stays in the poll set (WriteOutputs), so
   that a node may write to a child that has left, and die of SIGPIPE.  While
   no command fails this costs no data: such a node has run on all that came,
   is sending its "EOF", and one of its children has got it.                *)
KilledAtTheEnd ==
  \A n \in Node : pc[n] = "killed" =>
    /\ closing[n]
    /\ \E e \in Out(n) : EndsWithEof(sent[e])
    /\ \A e \in In(n) : fifo[e] = <<>> /\ EndsWithEof(sent[e])

-----------------------------------------------------------------------------
(* Liveness. *)

(* Unless one of them is killed by SIGPIPE, all processes exit and
   Graph::Execute returns from wait_() (graph.cpp:376): no full pipe, slow
   worker or blocked open() keeps them waiting for each other.              *)
ExitUnlessKilled == <>(Finished \/ \E n \in Node : pc[n] = "killed")

(* Whatever fails, an execution that does not end has a node that was killed,
   one that waits in open() for a child that has left (node.cpp:224), or a
   batch node that has counted more "EOF"s than it has parents
   (node.cpp:295): nothing else keeps a node from its end.                  *)
Abandoned(n) ==
  pc[n] = "open" /\ toOpen[n] # <<>> /\ Stopped(Head(toOpen[n])[2])
Overshot(n) == n \in Batch /\ ~called[n] /\ eofs[n] > NIn(n)
HangsNowhereElse ==
  <>(Finished \/ \E n \in Node : pc[n] = "killed" \/ Abandoned(n) \/ Overshot(n))

=============================================================================
