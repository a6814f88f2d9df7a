----------------------------- MODULE TokenFlow ------------------------------
(***************************************************************************)
(* What the execution of a graph promises, without processes, pipes or a   *)
(* terminating "EOF": tokens flow along the connections.  A node runs on   *)
(* what its parents have made, puts what it makes on the streams to its    *)
(* children, in order, and ends a stream when it has run on everything and *)
(* its parents have ended theirs.  Pipeline implements this specification. *)
(***************************************************************************)
EXTENDS Integers, Sequences, SequencesExt, FiniteSetsExt

CONSTANTS
  Node,            \* the nodes of the graph
  Outputs,         \* Node::outputs_: the children, in the order of connection
  Deals,           \* the nodes that deal their tokens out to their children
  Batch,           \* the nodes that run once, on all their tokens
  Args,            \* the graph's input: the tokens of the roots
  Result(_, _)     \* what a node makes of a string: a sequence of strings

VARIABLES
  ran,      \* the strings each node has run on
  stream,   \* the tokens on each connection
  ended,    \* the connections whose stream is complete
  failed,   \* the nodes that have given up
  gone      \* the nodes that have stopped

vars == <<ran, stream, ended, failed, gone>>

Edge   == {e \in Node \X Node : e[2] \in Range(Outputs[e[1]])}
In(n)  == {e \in Edge : e[2] = n}
Out(n) == {e \in Edge : e[1] = n}

Init ==
  /\ ran = [n \in Node |-> <<>>]
  /\ stream = [e \in Edge |-> <<>>]
  /\ ended = {} /\ failed = {} /\ gone = {}

Copies(l, s) == Cardinality({i \in DOMAIN s : s[i] = l})

(* The tokens on their way to node n, in order if it has one parent. *)
Supply(n) ==
  IF In(n) = {} THEN Args ELSE FoldSet(LAMBDA e, s : stream[e] \o s, <<>>, In(n))

(* The tokens node n has run on, and those it has made of them. *)
Taken(n) == FlattenSeq(ran[n])
Made(n)  == FlattenSeq(FlattenSeq([i \in DOMAIN ran[n] |-> Result(n, ran[n][i])]))

(* What of it belongs on connection e: all, or every so many-th token. *)
Due(e) ==
  LET n == e[1]
      turn(i) == Outputs[n][((i - 1) % Len(Outputs[n])) + 1]
      mine    == SelectSeq([i \in DOMAIN Made(n) |-> i], LAMBDA i : turn(i) = e[2])
  IN  IF n \in Deals THEN [j \in DOMAIN mine |-> Made(n)[mine[j]]] ELSE Made(n)

(* Nothing has come, or will come, that node n has not run on. *)
Complete(n) == In(n) \subseteq ended /\ Len(Taken(n)) = Len(Supply(n))

(* A token is taken once; with one parent, in the order of its stream. *)
Take(n) == \E l \in Range(Supply(n)) :
  /\ n \notin Batch
  /\ IF Cardinality(In(n)) <= 1
       THEN Len(Taken(n)) < Len(Supply(n)) /\ l = Supply(n)[Len(Taken(n)) + 1]
       ELSE Copies(l, Taken(n)) < Copies(l, Supply(n))
  /\ ran' = [ran EXCEPT ![n] = Append(@, <<l>>)]

TakeAll(n) ==
  /\ n \in Batch
  /\ ran[n] = <<>> /\ In(n) \subseteq ended /\ Supply(n) # <<>>
  /\ ran' = [ran EXCEPT ![n] = <<SortSeq(Supply(n), <)>>]

Run(n) ==
  /\ n \notin failed \cup gone
  /\ Take(n) \/ TakeAll(n)
  /\ UNCHANGED <<stream, ended, failed, gone>>

(* Some more of what is due goes onto a stream that has not ended. *)
Give(e) ==
  /\ e \notin ended /\ e[1] \notin gone
  /\ \E k \in Len(stream[e]) + 1 .. Len(Due(e)) :
       stream' = [stream EXCEPT ![e] = SubSeq(Due(e), 1, k)]
  /\ UNCHANGED <<ran, ended, failed, gone>>

(* A node that has not failed ends a stream when all of it is there. *)
End(e) ==
  /\ e \notin ended /\ e[1] \notin gone
  /\ e[1] \in failed \/ (Complete(e[1]) /\ stream[e] = Due(e))
  /\ ended' = ended \cup {e}
  /\ UNCHANGED <<ran, stream, failed, gone>>

Fail(n) ==
  /\ n \notin failed \cup gone
  /\ failed' = failed \cup {n}
  /\ UNCHANGED <<ran, stream, ended, gone>>

(* A node stops when it has ended its streams, or has nobody to deal to. *)
Stop(n) ==
  /\ n \notin gone
  /\ Out(n) \subseteq ended
  /\ n \in failed \/ Complete(n) \/ (n \in Deals /\ Out(n) = {})
  /\ gone' = gone \cup {n}
  /\ UNCHANGED <<ran, stream, ended, failed>>

Next ==
  \/ \E n \in Node : Run(n) \/ Fail(n) \/ Stop(n)
  \/ \E e \in Edge : Give(e) \/ End(e)

(* What a graph promises at all times, and that it finishes. *)
Safe == Init /\ [][Next]_vars
Spec == Safe /\ <>(gone = Node)
=============================================================================
