------------------------------- MODULE Graph --------------------------------
(***************************************************************************)
(* The editing of a graph.  The class keeps every connection four times:   *)
(* in Graph::edges_ (from which the pipes are made), in outputs_ of the    *)
(* parent and inputs_ of the child (from which the processes open them),   *)
(* and in adjacencylist_ (from which cycles are detected and the order of  *)
(* execution is computed).  The lists may hold a connection several times: *)
(* a Concat node has several ports.  What is kept of a list here is how    *)
(* often each connection occurs in it.                                     *)
(*                                                                         *)
(* Operations are called as the GUI calls them: the node editor takes a    *)
(* node's connections away before it deletes the node.                     *)
(***************************************************************************)
EXTENDS Integers, FiniteSets

CONSTANTS
  Id,           \* the UUIDs nodes may get
  MaxParallel,  \* bound on how often two nodes are connected
  MaxSaved      \* bound on the nodes of a graph that is saved

ASSUME GraphBounds == MaxParallel \in Nat /\ MaxSaved \in Nat

VARIABLES
  nodes,   \* the keys of nodes_
  edges,   \* edges[p][c]: how often (p, c) is in edges_
  outs,    \* outs[p][c]: how often "p.c" is in outputs_ of p
  ins,     \* ins[c][p]: how often "p.c" is in inputs_ of c
  adj,     \* adj[p][c]: how often c is in adjacencylist_[p]
  isroot,  \* isroot_ of each node
  file     \* a graph saved earlier, or copied to the clipboard

vars == <<nodes, edges, outs, ins, adj, isroot, file>>

Counts == [Id -> [Id -> Nat]]
Zero   == [i \in Id |-> 0]
None   == [i \in Id |-> Zero]

TypeOK ==
  /\ nodes \in SUBSET Id
  /\ edges \in Counts
  /\ outs \in Counts
  /\ ins \in Counts
  /\ adj \in Counts
  /\ isroot \in [Id -> BOOLEAN]
  /\ file \in [nodes : SUBSET Id, edges : Counts]

Plus(f, x, y) == [f EXCEPT ![x][y] = @ + 1]      \* push_back
Drop(f, x, y) == [f EXCEPT ![x][y] = 0]          \* remove: all copies

(* A directed graph has a cycle iff some nodes each have a successor among
   them.                                                                    *)
Cyclic(f) ==
  \E S \in SUBSET Id : S # {} /\ \A x \in S : \E y \in S : f[x][y] > 0

Init ==
  /\ nodes = {}
  /\ edges = None /\ outs = None /\ ins = None /\ adj = None
  /\ isroot = [i \in Id |-> TRUE]
  /\ file = [nodes |-> {}, edges |-> None]

(* A new node object: no inputs, no outputs, a root. *)
AddNode(i) ==
  /\ i \notin nodes
  /\ nodes' = nodes \cup {i}
  /\ outs' = [outs EXCEPT ![i] = Zero]
  /\ ins' = [ins EXCEPT ![i] = Zero]
  /\ isroot' = [isroot EXCEPT ![i] = TRUE]
  /\ UNCHANGED <<edges, adj, file>>

(* Mutant: a node is deleted while it is connected. *)
RemoveNode_Connected(i) ==
  /\ i \in nodes
  /\ nodes' = nodes \ {i}
  /\ adj' = [p \in Id |-> IF p = i THEN Zero ELSE [adj[p] EXCEPT ![i] = 0]]
  /\ outs' = [outs EXCEPT ![i] = Zero]
  /\ ins' = [ins EXCEPT ![i] = Zero]
  /\ UNCHANGED <<edges, isroot, file>>

(* The node goes, with its lists, from nodes_ and adjacencylist_; edges_ and
   the lists of other nodes are not touched.                                *)
RemoveNode(i) ==
  /\ i \in nodes
  /\ \A j \in Id : edges[i][j] = 0 /\ edges[j][i] = 0
  /\ nodes' = nodes \ {i}
  /\ adj' = [p \in Id |-> IF p = i THEN Zero ELSE [adj[p] EXCEPT ![i] = 0]]
  /\ outs' = [outs EXCEPT ![i] = Zero]
  /\ ins' = [ins EXCEPT ![i] = Zero]
  /\ UNCHANGED <<edges, isroot, file>>

(* Mutant: detect_cycle finds self-loops and two-node cycles only. *)
Creates_Short(p, c) == p = c \/ adj[c][p] > 0

(* Mutant: detect_cycle takes a second way to a node for a cycle. *)
Creates_Visited(p, c) == Cyclic(Plus(adj, p, c)) \/ adj[p][c] > 0

(* detect_cycle, called with the new connection already in adjacencylist_. *)
Creates(p, c) == Cyclic(Plus(adj, p, c))

ConnectAccepted(p, c) ==
  /\ p \in nodes /\ c \in nodes
  /\ edges[p][c] < MaxParallel
  /\ ~Creates(p, c)
  /\ edges' = Plus(edges, p, c)
  /\ outs' = Plus(outs, p, c)
  /\ ins' = Plus(ins, c, p)
  /\ isroot' = [isroot EXCEPT ![c] = FALSE]
  /\ adj' = Plus(adj, p, c)
  /\ UNCHANGED <<nodes, file>>

(* Mutant: RemoveInput does not look whether inputs_ is empty now. *)
WithoutInput_Flag(flag, list) == flag

(* isroot_ after RemoveInput has left list in inputs_. *)
WithoutInput(flag, list) == (\A p \in Id : list[p] = 0) \/ flag

(* A connection that closes a cycle has been entered everywhere and is
   taken out again by Disconnect.                                           *)
ConnectRefused(p, c) ==
  LET left == Drop(Plus(ins, c, p), c, p) IN
  /\ p \in nodes /\ c \in nodes
  /\ edges' = Drop(Plus(edges, p, c), p, c)
  /\ outs' = Drop(Plus(outs, p, c), p, c)
  /\ ins' = left
  /\ isroot' = [isroot EXCEPT ![c] = WithoutInput(FALSE, left[c])]
  /\ adj' = Drop(Plus(adj, p, c), p, c)
  /\ UNCHANGED <<nodes, file>>
  /\ Creates(p, c)

Connect(p, c) == ConnectAccepted(p, c) \/ ConnectRefused(p, c)

(* Mutant: one copy leaves edges_, whether there is one or not. *)
Disconnect_Blind(p, c) ==
  /\ edges' = [edges EXCEPT ![p][c] = @ - 1]
  /\ outs' = Drop(outs, p, c) /\ ins' = Drop(ins, c, p) /\ adj' = Drop(adj, p, c)
  /\ isroot' = [isroot EXCEPT ![c] = WithoutInput(isroot[c], ins'[c])]
  /\ UNCHANGED <<nodes, file>>

(* All copies of the connection go (list::remove). *)
Disconnect(p, c) ==
  /\ edges[p][c] > 0
  /\ edges' = Drop(edges, p, c)
  /\ outs' = IF p \in nodes THEN Drop(outs, p, c) ELSE outs
  /\ ins' = IF c \in nodes THEN Drop(ins, c, p) ELSE ins
  /\ isroot' = IF c \in nodes
                 THEN [isroot EXCEPT ![c] = WithoutInput(isroot[c], ins'[c])]
                 ELSE isroot
  /\ adj' = Drop(adj, p, c)
  /\ UNCHANGED <<nodes, file>>

(* Serialize: nodes_ and edges_. *)
Save ==
  /\ Cardinality(nodes) <= MaxSaved
  /\ file' = [nodes |-> nodes, edges |-> edges]
  /\ UNCHANGED <<nodes, edges, outs, ins, adj, isroot>>

(* Initialize: everything is cleared, then the file, if one is given, is
   parsed.  No Connect of a graph saved by this program is refused.         *)
Clear ==
  /\ nodes' = {}
  /\ edges' = None /\ outs' = None /\ ins' = None /\ adj' = None
  /\ UNCHANGED <<isroot, file>>

Flip(f) == [c \in Id |-> [p \in Id |-> f[p][c]]]

Load ==
  /\ nodes' = file.nodes
  /\ edges' = file.edges /\ outs' = file.edges /\ adj' = file.edges
  /\ ins' = Flip(file.edges)
  /\ isroot' = [c \in Id |-> \A p \in Id : file.edges[p][c] = 0]
  /\ UNCHANGED file

(* Mutant: a node's key is kept even when the graph has it already. *)
Renames_Keep(r) == \A x \in file.nodes : r[x] = x

(* oldkeynew: a new UUID for a key that is taken, the same one otherwise. *)
Renames(r) ==
  /\ \A x \in file.nodes :
       r[x] = x \/ (x \in nodes /\ r[x] \notin nodes \cup file.nodes)
  /\ \A x \in file.nodes \cap nodes : r[x] # x
  /\ \A x, y \in file.nodes : x # y => r[x] # r[y]

(* Parse of a graph into one that is open: paste, or a file dropped on it. *)
Import == \E r \in [file.nodes -> Id] :
  LET new     == {r[x] : x \in file.nodes}
      old(i)  == CHOOSE x \in file.nodes : r[x] = i
      add(i, j) == IF i \in new /\ j \in new THEN file.edges[old(i)][old(j)] ELSE 0
      merge(f)  == [i \in Id |-> [j \in Id |-> f[i][j] + add(i, j)]]
  IN
  /\ Renames(r)
  /\ nodes' = nodes \cup new
  /\ edges' = merge(edges)
  /\ outs' = merge([i \in Id |-> IF i \in new THEN Zero ELSE outs[i]])
  /\ ins' = [i \in Id |-> IF i \in new THEN [j \in Id |-> add(j, i)] ELSE ins[i]]
  /\ isroot' = [i \in Id |-> IF i \in new THEN \A j \in Id : add(j, i) = 0 ELSE isroot[i]]
  /\ adj' = merge(adj)
  /\ UNCHANGED file

Next ==
  \/ \E i \in Id : AddNode(i) \/ RemoveNode(i)
  \/ \E p, c \in Id : Connect(p, c) \/ Disconnect(p, c)
  \/ Save \/ Clear \/ Load \/ Import

Spec == Init /\ [][Next]_vars

-----------------------------------------------------------------------------
(* The four copies of the connections agree, and no connection leads to or
   from a node that is not there: every pipe a process will open is made by
   PrepareFileSystem and has a process at its other end.                    *)
Agreement ==
  \A p, c \in Id :
    /\ outs[p][c] = edges[p][c]
    /\ ins[c][p] = edges[p][c]
    /\ adj[p][c] = edges[p][c]
    /\ edges[p][c] > 0 => p \in nodes /\ c \in nodes

(* A node is handed the graph's input exactly if nobody writes to it. *)
RootFlag ==
  \A c \in nodes : isroot[c] <=> \A p \in Id : edges[p][c] = 0

(* No sequence of edits closes a cycle. *)
Acyclic == ~Cyclic(edges)

(* A refused connection leaves the graph as it was: the rollback, which
   removes ALL copies of the connection, never removes one that was there
   before.                                                                  *)
RefusalChangesNothing ==
  [][\A p, c \in Id : ConnectRefused(p, c) => UNCHANGED vars]_vars

(* Importing leaves the connections of the open graph alone. *)
ImportKeepsGraph ==
  [][Import => \A p, c \in nodes : edges'[p][c] = edges[p][c]]_vars
=============================================================================
