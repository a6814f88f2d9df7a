-------------------------- MODULE GraphAlgorithms ---------------------------
(***************************************************************************)
(* The two depth-first searches of Graph, step by step: detect_cycle, with *)
(* which Connect decides whether a connection stays, and sort_, which      *)
(* gives the order in which Execute starts the nodes.  A recursive call of *)
(* a visitor is an entry of path.  The hash map adjacencylist_ may list    *)
(* its vertices in any order.                                              *)
(***************************************************************************)
EXTENDS Integers, Sequences, FiniteSets, SequencesExt

CONSTANTS Ids,     \* the nodes
          MaxOut   \* bound on the connections that leave a node

ASSUME SizeAssumption == IsFiniteSet(Ids) /\ MaxOut \in Nat

VARIABLES
  adj,      \* adjacencylist_: the children, in order of connection
  op,       \* what Graph is doing
  edge,     \* the connection that Connect is about
  todo,     \* the vertices the loop of detect_cycle or sort_ has not come to
  path,     \* the visitors under way: each was called for a neighbour of the one before
  at,       \* how far the loop over the neighbours of each vertex is
  visited,
  stacked,  \* of detect_cycle: the set of vertices on the recursion stack
  found,    \* a cycle_visitor_ has returned true, and so do all that wait for it
  pushed,   \* of sort_: its stack of vertices, the top last
  ordered   \* ordered_

calls == <<path, at, visited>>
vars  == <<adj, op, edge, todo, calls, stacked, found, pushed, ordered>>

TypeOK ==
  /\ adj \in [Ids -> Seq(Ids)]
  /\ op \in {"idle", "cycle", "sort", "execute"}
  /\ edge \in {<<>>} \cup (Ids \X Ids)
  /\ todo \in SUBSET Ids /\ path \in Seq(Ids) /\ at \in [Ids -> Nat \ {0}]
  /\ visited \in SUBSET Ids /\ stacked \in SUBSET Ids /\ found \in BOOLEAN
  /\ pushed \in Seq(Ids) /\ ordered \in Seq(Ids)

Init ==
  /\ adj = [v \in Ids |-> <<>>]
  /\ op = "idle" /\ edge = <<>> /\ todo = {}
  /\ path = <<>> /\ at = [v \in Ids |-> 1] /\ visited = {}
  /\ stacked = {} /\ found = FALSE /\ pushed = <<>> /\ ordered = <<>>

(* The locals of a search that begins or is over. *)
Fresh ==
  /\ path' = <<>> /\ at' = [v \in Ids |-> 1] /\ visited' = {}
  /\ stacked' = {} /\ found' = FALSE /\ pushed' = <<>>

Top == Last(path)
Neighbor == adj[Top][at[Top]]
More == path # <<>> /\ at[Top] <= Len(adj[Top])
Done == path # <<>> /\ at[Top] > Len(adj[Top])

(* A visitor is called. *)
Call(v) ==
  /\ visited' = visited \cup {v}
  /\ path' = Append(path, v)
  /\ at' = [at EXCEPT ![v] = 1]

(* The loop that waits for a call, if one does, goes on. *)
Advance(rest) == at' = IF rest = <<>> THEN at ELSE [at EXCEPT ![Last(rest)] = @ + 1]

Return == path' = Front(path) /\ Advance(Front(path)) /\ UNCHANGED visited

-----------------------------------------------------------------------------
(* Connect enters the connection and looks for a cycle. *)
Connect(p, c) ==
  /\ op = "idle" /\ Len(adj[p]) < MaxOut
  /\ adj' = [adj EXCEPT ![p] = Append(@, c)]
  /\ edge' = <<p, c>>
  /\ op' = "cycle" /\ todo' = Ids
  /\ Fresh /\ UNCHANGED ordered

(* Mutant: a node met before counts as a cycle, finished or not. *)
OnPath_Visited(v) == v \in visited

(* stacked.find (v) != stacked.end() *)
OnPath(v) == v \in stacked

(* cycle_visitor_, up to its loop. *)
CycleVisitor(v) ==
  \/ /\ OnPath(v)
     /\ found' = TRUE
     /\ UNCHANGED <<calls, stacked>>
  \/ /\ ~OnPath(v) /\ v \in visited
     /\ Advance(path)
     /\ UNCHANGED <<path, visited, stacked, found>>
  \/ /\ ~OnPath(v) /\ v \notin visited
     /\ Call(v)
     /\ stacked' = stacked \cup {v}
     /\ UNCHANGED found

(* The loop of detect_cycle over the vertices. *)
DetectCycle(v) ==
  /\ op = "cycle" /\ ~found /\ path = <<>> /\ v \in todo
  /\ todo' = todo \ {v}
  /\ CycleVisitor(v)
  /\ UNCHANGED <<adj, op, edge, pushed, ordered>>

(* The loop over adjacencylist_[v]. *)
CycleNeighbor ==
  /\ op = "cycle" /\ ~found /\ More
  /\ CycleVisitor(Neighbor)
  /\ UNCHANGED <<adj, op, edge, todo, pushed, ordered>>

CycleReturn ==
  /\ op = "cycle" /\ ~found /\ Done
  /\ stacked' = stacked \ {Top}
  /\ Return
  /\ UNCHANGED <<adj, op, edge, todo, found, pushed, ordered>>

(* Every copy of the connection goes, the others stay in their order. *)
Removed(p, c) ==
  LET kept == {i \in DOMAIN adj[p] : adj[p][i] # c} IN
  \E k \in 0..Len(adj[p]) : \E s \in [1..k -> kept] :
    /\ \A i \in kept : \E j \in 1..k : s[j] = i
    /\ \A i, j \in 1..k : i < j => s[i] < s[j]
    /\ adj' = [adj EXCEPT ![p] = [i \in 1..k |-> adj[p][s[i]]]]

CycleOver == found \/ (path = <<>> /\ todo = {})

(* Connect: a connection that closes a cycle is taken out again. *)
Connected ==
  /\ op = "cycle" /\ CycleOver
  /\ IF found THEN Removed(edge[1], edge[2]) ELSE UNCHANGED adj
  /\ op' = "idle" /\ edge' = <<>> /\ todo' = {}
  /\ Fresh /\ UNCHANGED ordered

Disconnect(p, c) ==
  /\ op = "idle" /\ Contains(adj[p], c)
  /\ Removed(p, c)
  /\ UNCHANGED <<op, edge, todo, calls, stacked, found, pushed, ordered>>

-----------------------------------------------------------------------------
(* Execute begins with sort_. *)
Sort ==
  /\ op = "idle"
  /\ op' = "sort" /\ todo' = Ids
  /\ Fresh /\ UNCHANGED <<adj, edge, ordered>>

(* The loop of sort_ over the vertices. *)
SortVertex(v) ==
  /\ op = "sort" /\ path = <<>> /\ v \in todo
  /\ todo' = todo \ {v}
  /\ IF v \in visited THEN UNCHANGED calls ELSE Call(v)
  /\ UNCHANGED <<adj, op, edge, stacked, found, pushed, ordered>>

(* The loop of sort_visitor_ over adjacencylist_[v]. *)
SortNeighbor ==
  /\ op = "sort" /\ More
  /\ IF Neighbor \in visited THEN Advance(path) /\ UNCHANGED <<path, visited>> ELSE Call(Neighbor)
  /\ UNCHANGED <<adj, op, edge, todo, stacked, found, pushed, ordered>>

(* stacked.push (v), after the loop. *)
SortReturn ==
  /\ op = "sort" /\ Done
  /\ pushed' = Append(pushed, Top)
  /\ Return
  /\ UNCHANGED <<adj, op, edge, todo, stacked, found, ordered>>

(* Mutant: the stack is read from its bottom. *)
TopDown_Up == pushed

(* The stack is emptied into ordered_. *)
TopDown == Reverse(pushed)

Sorted ==
  /\ op = "sort" /\ path = <<>> /\ todo = {}
  /\ ordered' = TopDown
  /\ op' = "execute"
  /\ Fresh /\ UNCHANGED <<adj, edge, todo>>

(* The nodes have been started in that order, and have come to their end. *)
Executed ==
  /\ op = "execute"
  /\ op' = "idle"
  /\ UNCHANGED <<adj, edge, todo, calls, stacked, found, pushed, ordered>>

Next ==
  \/ \E p, c \in Ids : Connect(p, c) \/ Disconnect(p, c)
  \/ \E v \in Ids : DetectCycle(v) \/ SortVertex(v)
  \/ CycleNeighbor \/ CycleReturn \/ Connected
  \/ Sort \/ SortNeighbor \/ SortReturn \/ Sorted \/ Executed

Spec == Init /\ [][Next]_vars

-----------------------------------------------------------------------------
(* The reference: some nodes each have a successor among them. *)
Cyclic(g) == \E S \in SUBSET Ids : S # {} /\ \A v \in S : \E w \in S : Contains(g[v], w)

(* detect_cycle is right: it finds a cycle exactly if the graph with the new
   connection has one, in whatever order the connections were made and the
   vertices are visited.                                                    *)
DetectsExactly == op = "cycle" /\ CycleOver => (found <=> Cyclic(adj))

(* Execute starts every node once, and each before its children. *)
ParentsFirst ==
  op = "execute" =>
    /\ Len(ordered) = Cardinality(Ids)
    /\ \A v \in Ids : \E i \in DOMAIN ordered : ordered[i] = v
    /\ \A i, j \in DOMAIN ordered : Contains(adj[ordered[i]], ordered[j]) => i < j
=============================================================================
