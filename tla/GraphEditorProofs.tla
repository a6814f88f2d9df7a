------------------------- MODULE GraphEditorProofs --------------------------
(***************************************************************************)
(* First Graph alone, for every set of UUIDs and every bound; then the     *)
(* editor, which uses Graph as Graph expects to be used, so that what is   *)
(* proved of Graph holds while it is edited, and hides nothing.            *)
(***************************************************************************)
EXTENDS GraphEditor, TLAPS

(***************************************************************************)
(* Graph.  None of its invariants is inductive alone: that a refused       *)
(* connection changes nothing needs the graph to be acyclic (a connection  *)
(* that closes a cycle cannot be a copy of one that is there), acyclicity  *)
(* is decided on adjacencylist_ and stated of edges_ (so the copies must   *)
(* agree), and a graph that is loaded or imported must have been acyclic   *)
(* when it was saved (FileOK).                                             *)
(***************************************************************************)

(* The saved graph is acyclic and its connections are between its nodes. *)
FileOK ==
  /\ \A p, c \in Id : file.edges[p][c] > 0 => p \in file.nodes /\ c \in file.nodes
  /\ ~Cyclic(file.edges)

IInv == TypeOK /\ Agreement /\ RootFlag /\ Acyclic /\ FileOK

-----------------------------------------------------------------------------
(* push_back and remove on the lists of connections. *)

LEMMA NoneType == None \in Counts
BY DEF None, Zero, Counts

(* g is f but for the entry of x and y, which has the given value. *)
Differs(g, f, x, y, value) ==
  /\ g \in Counts
  /\ g[x][y] = value
  /\ \A i, j \in Id : i # x \/ j # y => g[i][j] = f[i][j]

LEMMA PlusType ==
  ASSUME NEW f \in Counts, NEW x \in Id, NEW y \in Id
  PROVE  Differs(Plus(f, x, y), f, x, y, f[x][y] + 1)
BY DEF Plus, Counts, Differs

LEMMA DropType ==
  ASSUME NEW f \in Counts, NEW x \in Id, NEW y \in Id
  PROVE  Differs(Drop(f, x, y), f, x, y, 0)
BY DEF Drop, Counts, Differs

(* Two tables of counts with the same entries are equal. *)
LEMMA CountsEqual ==
  ASSUME NEW f \in Counts, NEW g \in Counts,
         \A i, j \in Id : f[i][j] = g[i][j]
  PROVE  f = g
<1>1. \A i \in Id : f[i] \in [Id -> Nat] /\ g[i] \in [Id -> Nat]
  BY DEF Counts
<1>2. \A i \in Id : f[i] = g[i]
  BY <1>1
<1> QED
  BY <1>2 DEF Counts

(* Adding a connection that is not there and removing all its copies leaves
   the list as it was.                                                      *)
LEMMA DropPlus ==
  ASSUME NEW f \in Counts, NEW x \in Id, NEW y \in Id, f[x][y] = 0
  PROVE  Drop(Plus(f, x, y), x, y) = f
<1> DEFINE g == Plus(f, x, y)
<1>1. Differs(g, f, x, y, f[x][y] + 1)
  BY PlusType
<1> HIDE DEF g
<1>2. Differs(Drop(g, x, y), g, x, y, 0)
  BY <1>1, DropType DEF Differs
<1>3. \A i, j \in Id : Drop(g, x, y)[i][j] = f[i][j]
  BY <1>1, <1>2 DEF Differs
<1>4. Drop(g, x, y) = f
  BY <1>2, <1>3, CountsEqual DEF Differs
<1> QED
  BY <1>4 DEF g

(* Whatever has no connection that an acyclic graph has not is acyclic. *)
LEMMA CyclicMonotone ==
  ASSUME NEW f, NEW g,
         \A x, y \in Id : f[x][y] > 0 => g[x][y] > 0,
         Cyclic(f)
  PROVE  Cyclic(g)
<1>1. PICK S \in SUBSET Id : S # {} /\ \A x \in S : \E y \in S : f[x][y] > 0
  BY DEF Cyclic
<1>2. \A x \in S : \E y \in S : g[x][y] > 0
  BY <1>1
<1> QED
  BY <1>1, <1>2 DEF Cyclic

LEMMA NoneAcyclic == ~Cyclic(None)
BY DEF Cyclic, None, Zero

-----------------------------------------------------------------------------
LEMMA InitInv == Init => IInv
<1> SUFFICES ASSUME Init PROVE IInv
  OBVIOUS
<1>1. TypeOK
  BY NoneType DEF Init, TypeOK
<1>2. Agreement /\ RootFlag
  BY DEF Init, Agreement, RootFlag, None, Zero
<1>3. Acyclic /\ FileOK
  BY NoneAcyclic DEF Init, Acyclic, FileOK, None, Zero
<1> QED
  BY <1>1, <1>2, <1>3 DEF IInv

(* In an acyclic graph whose copies agree, a connection that would close a
   cycle is not there yet.                                                  *)
LEMMA RefusedIsNew ==
  ASSUME IInv, NEW p \in Id, NEW c \in Id, Creates(p, c)
  PROVE  edges[p][c] = 0
<1> SUFFICES ASSUME edges[p][c] # 0 PROVE FALSE
  OBVIOUS
<1>1. adj \in Counts /\ edges \in Counts /\ adj[p][c] = edges[p][c]
  BY DEF IInv, TypeOK, Agreement
<1>0. Differs(Plus(adj, p, c), adj, p, c, adj[p][c] + 1)
  BY <1>1, PlusType
<1>2. \A x, y \in Id : Plus(adj, p, c)[x][y] > 0 => edges[x][y] > 0
  <2> SUFFICES ASSUME NEW x \in Id, NEW y \in Id, Plus(adj, p, c)[x][y] > 0
               PROVE  edges[x][y] > 0
    OBVIOUS
  <2>1. CASE x = p /\ y = c
    BY <2>1, <1>1 DEF Counts
  <2>2. CASE x # p \/ y # c
    BY <2>2, <1>0 DEF IInv, Agreement, Differs
  <2> QED
    BY <2>1, <2>2
<1>3. Cyclic(edges)
  BY <1>2, CyclicMonotone DEF Creates
<1> QED
  BY <1>3 DEF IInv, Acyclic

(* A refused connection changes nothing: the rollback, which removes every
   copy, finds only the one that Connect has just entered.                  *)
LEMMA RefusedUnchanged ==
  ASSUME IInv, NEW p \in Id, NEW c \in Id, ConnectRefused(p, c)
  PROVE  UNCHANGED vars
<1>1. edges[p][c] = 0
  BY RefusedIsNew DEF ConnectRefused
<1>2. edges \in Counts /\ outs \in Counts /\ ins \in Counts /\ adj \in Counts
  BY DEF IInv, TypeOK
<1>3. outs[p][c] = 0 /\ ins[c][p] = 0 /\ adj[p][c] = 0
  BY <1>1 DEF IInv, Agreement
<1>4. edges' = edges /\ outs' = outs /\ ins' = ins /\ adj' = adj
  BY <1>1, <1>2, <1>3, DropPlus DEF ConnectRefused
<1>5. isroot' = isroot
  <2>1. isroot' = [isroot EXCEPT ![c] = WithoutInput(FALSE, ins[c])]
    BY <1>4 DEF ConnectRefused
  <2>2. c \in nodes /\ isroot \in [Id -> BOOLEAN]
    BY DEF ConnectRefused, IInv, TypeOK
  <2>3. isroot[c] <=> \A q \in Id : ins[c][q] = 0
    BY <2>2 DEF IInv, RootFlag, Agreement
  <2>4. isroot[c] = WithoutInput(FALSE, ins[c])
    BY <2>2, <2>3 DEF WithoutInput
  <2> QED
    BY <2>1, <2>2, <2>4
<1> QED
  BY <1>4, <1>5 DEF ConnectRefused, vars
-----------------------------------------------------------------------------
(* One lemma per operation: it preserves the invariant. *)

LEMMA AddNodeInv ==
  ASSUME IInv, NEW i \in Id, AddNode(i)
  PROVE  IInv'
<1>1. TypeOK'
  <2>1. Zero \in [Id -> Nat]
    BY DEF Zero
  <2> QED
    BY <2>1 DEF IInv, TypeOK, AddNode, Counts
<1>2. \A j \in Id : edges[i][j] = 0 /\ edges[j][i] = 0
  BY DEF IInv, TypeOK, Agreement, AddNode, Counts
<1>3. Agreement'
  <2> SUFFICES ASSUME NEW p \in Id, NEW c \in Id
               PROVE  /\ outs'[p][c] = edges[p][c]
                      /\ ins'[c][p] = edges[p][c]
                      /\ adj[p][c] = edges[p][c]
                      /\ edges[p][c] > 0 => p \in nodes' /\ c \in nodes'
    BY DEF Agreement, AddNode
  <2>1. outs'[p][c] = edges[p][c]
    BY <1>2 DEF IInv, TypeOK, Agreement, AddNode, Counts, Zero
  <2>2. ins'[c][p] = edges[p][c]
    BY <1>2 DEF IInv, TypeOK, Agreement, AddNode, Counts, Zero
  <2> QED
    BY <2>1, <2>2 DEF IInv, Agreement, AddNode
<1>4. RootFlag'
  BY <1>2 DEF IInv, TypeOK, RootFlag, AddNode
<1>5. Acyclic' /\ FileOK'
  BY DEF IInv, Acyclic, FileOK, AddNode, Cyclic
<1> QED
  BY <1>1, <1>3, <1>4, <1>5 DEF IInv

LEMMA RemoveNodeInv ==
  ASSUME IInv, NEW i \in Id, RemoveNode(i)
  PROVE  IInv'
<1>1. TypeOK'
  <2>1. Zero \in [Id -> Nat]
    BY DEF Zero
  <2> QED
    BY <2>1 DEF IInv, TypeOK, RemoveNode, Counts
<1>2. Agreement'
  <2> SUFFICES ASSUME NEW p \in Id, NEW c \in Id
               PROVE  /\ outs'[p][c] = edges[p][c]
                      /\ ins'[c][p] = edges[p][c]
                      /\ adj'[p][c] = edges[p][c]
                      /\ edges[p][c] > 0 => p \in nodes' /\ c \in nodes'
    BY DEF Agreement, RemoveNode
  <2>1. outs'[p][c] = edges[p][c]
    BY DEF IInv, TypeOK, Agreement, RemoveNode, Counts, Zero
  <2>2. ins'[c][p] = edges[p][c]
    BY DEF IInv, TypeOK, Agreement, RemoveNode, Counts, Zero
  <2>3. adj'[p][c] = edges[p][c]
    BY DEF IInv, TypeOK, Agreement, RemoveNode, Counts, Zero
  <2>4. edges[p][c] > 0 => p \in nodes' /\ c \in nodes'
    BY DEF IInv, Agreement, RemoveNode
  <2> QED
    BY <2>1, <2>2, <2>3, <2>4
<1>3. RootFlag'
  BY DEF IInv, RootFlag, RemoveNode
<1>4. Acyclic' /\ FileOK'
  BY DEF IInv, Acyclic, FileOK, RemoveNode, Cyclic
<1> QED
  BY <1>1, <1>2, <1>3, <1>4 DEF IInv

LEMMA ConnectAcceptedInv ==
  ASSUME IInv, NEW p \in Id, NEW c \in Id, ConnectAccepted(p, c)
  PROVE  IInv'
<1>0. edges \in Counts /\ outs \in Counts /\ ins \in Counts /\ adj \in Counts
  BY DEF IInv, TypeOK
<1>1. Differs(edges', edges, p, c, edges[p][c] + 1)
  BY <1>0, PlusType DEF ConnectAccepted
<1>2. Differs(outs', outs, p, c, outs[p][c] + 1)
  BY <1>0, PlusType DEF ConnectAccepted
<1>3. Differs(ins', ins, c, p, ins[c][p] + 1)
  BY <1>0, PlusType DEF ConnectAccepted
<1>4. Differs(adj', adj, p, c, adj[p][c] + 1)
  BY <1>0, PlusType DEF ConnectAccepted
<1>5. TypeOK'
  BY <1>1, <1>2, <1>3, <1>4 DEF IInv, TypeOK, ConnectAccepted, Differs
<1>6. Agreement'
  <2> SUFFICES ASSUME NEW i \in Id, NEW j \in Id
               PROVE  /\ outs'[i][j] = edges'[i][j]
                      /\ ins'[j][i] = edges'[i][j]
                      /\ adj'[i][j] = edges'[i][j]
                      /\ edges'[i][j] > 0 => i \in nodes' /\ j \in nodes'
    BY DEF Agreement
  <2>1. CASE i = p /\ j = c
    BY <2>1, <1>1, <1>2, <1>3, <1>4 DEF IInv, Agreement, ConnectAccepted, Differs
  <2>2. CASE i # p \/ j # c
    BY <2>2, <1>1, <1>2, <1>3, <1>4 DEF IInv, Agreement, ConnectAccepted, Differs
  <2> QED
    BY <2>1, <2>2
<1>7. RootFlag'
  <2> SUFFICES ASSUME NEW j \in nodes
               PROVE  isroot'[j] <=> \A i \in Id : edges'[i][j] = 0
    BY DEF RootFlag, ConnectAccepted
  <2>0. j \in Id /\ isroot \in [Id -> BOOLEAN]
    BY DEF IInv, TypeOK
  <2>1. CASE j = c
    <3>1. ~isroot'[j]
      BY <2>0, <2>1 DEF ConnectAccepted
    <3>2. edges'[p][j] # 0
      BY <2>1, <1>1, <1>0 DEF Counts, Differs
    <3> QED
      BY <3>1, <3>2
  <2>2. CASE j # c
    <3>1. isroot'[j] = isroot[j]
      BY <2>0, <2>2 DEF ConnectAccepted
    <3>2. \A i \in Id : edges'[i][j] = edges[i][j]
      BY <2>0, <2>2, <1>1 DEF Differs
    <3> QED
      BY <3>1, <3>2 DEF IInv, RootFlag
  <2> QED
    BY <2>1, <2>2
<1>8. Acyclic'
  <2>1. ~Cyclic(adj')
    BY DEF ConnectAccepted, Creates
  <2>2. \A i, j \in Id : edges'[i][j] > 0 => adj'[i][j] > 0
    BY <1>6 DEF Agreement
  <2> QED
    BY <2>1, <2>2, CyclicMonotone DEF Acyclic
<1>9. FileOK'
  BY DEF IInv, FileOK, ConnectAccepted, Cyclic
<1> QED
  BY <1>5, <1>6, <1>7, <1>8, <1>9 DEF IInv

LEMMA DisconnectInv ==
  ASSUME IInv, NEW p \in Id, NEW c \in Id, Disconnect(p, c)
  PROVE  IInv'
<1>0. edges \in Counts /\ outs \in Counts /\ ins \in Counts /\ adj \in Counts
  BY DEF IInv, TypeOK
<1>10. p \in nodes /\ c \in nodes
  BY DEF IInv, Agreement, Disconnect
<1>13. edges' = Drop(edges, p, c) /\ outs' = Drop(outs, p, c)
        /\ ins' = Drop(ins, c, p) /\ adj' = Drop(adj, p, c)
  BY <1>10 DEF Disconnect
<1>1. Differs(edges', edges, p, c, 0)
  BY <1>0, <1>13, DropType
<1>2. Differs(outs', outs, p, c, 0)
  BY <1>0, <1>13, DropType
<1>3. Differs(ins', ins, c, p, 0)
  BY <1>0, <1>13, DropType
<1>4. Differs(adj', adj, p, c, 0)
  BY <1>0, <1>13, DropType
<1>11. isroot' = [isroot EXCEPT ![c] = WithoutInput(isroot[c], ins'[c])]
  BY <1>10 DEF Disconnect
<1>12. isroot \in [Id -> BOOLEAN]
  BY DEF IInv, TypeOK
<1>5. TypeOK'
  <2>1. WithoutInput(isroot[c], ins'[c]) \in BOOLEAN
    BY <1>12 DEF WithoutInput
  <2> QED
    BY <2>1, <1>11, <1>12, <1>1, <1>2, <1>3, <1>4 DEF IInv, TypeOK, Disconnect, Differs
<1>6. Agreement'
  <2> SUFFICES ASSUME NEW i \in Id, NEW j \in Id
               PROVE  /\ outs'[i][j] = edges'[i][j]
                      /\ ins'[j][i] = edges'[i][j]
                      /\ adj'[i][j] = edges'[i][j]
                      /\ edges'[i][j] > 0 => i \in nodes' /\ j \in nodes'
    BY DEF Agreement
  <2>1. CASE i = p /\ j = c
    BY <2>1, <1>1, <1>2, <1>3, <1>4 DEF Differs
  <2>2. CASE i # p \/ j # c
    BY <2>2, <1>1, <1>2, <1>3, <1>4 DEF IInv, Agreement, Disconnect, Differs
  <2> QED
    BY <2>1, <2>2
<1>7. RootFlag'
  <2> SUFFICES ASSUME NEW j \in nodes
               PROVE  isroot'[j] <=> \A i \in Id : edges'[i][j] = 0
    BY DEF RootFlag, Disconnect
  <2>0. j \in Id
    BY DEF IInv, TypeOK
  <2>1. CASE j = c
    <3>1. isroot'[j] = WithoutInput(isroot[c], ins'[c])
      BY <2>0, <2>1, <1>11, <1>12
    <3>2. \A i \in Id : ins'[c][i] = edges'[i][c]
      BY <1>6 DEF Agreement
    <3>3. isroot[c] => \A i \in Id : edges[i][c] = 0
      BY <1>10 DEF IInv, RootFlag
    <3>4. ~isroot[c]
      BY <3>3, <1>0 DEF Disconnect, Counts
    <3> QED
      BY <2>1, <3>1, <3>2, <3>4 DEF WithoutInput
  <2>2. CASE j # c
    <3>1. isroot'[j] = isroot[j]
      BY <2>0, <2>2, <1>11, <1>12
    <3>2. \A i \in Id : edges'[i][j] = edges[i][j]
      BY <2>0, <2>2, <1>1 DEF Differs
    <3> QED
      BY <3>1, <3>2 DEF IInv, RootFlag
  <2> QED
    BY <2>1, <2>2
<1>8. Acyclic'
  <2>1. \A i, j \in Id : edges'[i][j] > 0 => edges[i][j] > 0
    BY <1>1 DEF Differs
  <2> QED
    BY <2>1, CyclicMonotone DEF IInv, Acyclic
<1>9. FileOK'
  BY DEF IInv, FileOK, Disconnect, Cyclic
<1> QED
  BY <1>5, <1>6, <1>7, <1>8, <1>9 DEF IInv

LEMMA RefusedInv ==
  ASSUME IInv, NEW p \in Id, NEW c \in Id, ConnectRefused(p, c)
  PROVE  IInv'
<1>1. UNCHANGED vars
  BY RefusedUnchanged
<1> QED
  BY <1>1 DEF IInv, TypeOK, Agreement, RootFlag, Acyclic, FileOK, Cyclic, vars

LEMMA SaveInv ==
  ASSUME IInv, Save
  PROVE  IInv'
<1>1. file'.nodes = nodes /\ file'.edges = edges
  BY DEF Save
<1>2. TypeOK'
  BY DEF IInv, TypeOK, Save
<1>3. Agreement' /\ RootFlag' /\ Acyclic'
  BY DEF IInv, Agreement, RootFlag, Acyclic, Save, Cyclic
<1>4. FileOK'
  BY <1>1 DEF IInv, FileOK, Agreement, Acyclic, Save, Cyclic
<1> QED
  BY <1>2, <1>3, <1>4 DEF IInv

LEMMA ClearInv ==
  ASSUME IInv, Clear
  PROVE  IInv'
<1>1. TypeOK'
  BY NoneType DEF IInv, TypeOK, Clear
<1>2. Agreement' /\ RootFlag'
  BY DEF Agreement, RootFlag, Clear, None, Zero
<1>3. Acyclic'
  BY NoneAcyclic DEF Acyclic, Clear
<1>4. FileOK'
  BY DEF IInv, FileOK, Clear, Cyclic
<1> QED
  BY <1>1, <1>2, <1>3, <1>4 DEF IInv

LEMMA LoadInv ==
  ASSUME IInv, Load
  PROVE  IInv'
<1>1. file.edges \in Counts /\ file.nodes \in SUBSET Id
  BY DEF IInv, TypeOK
<1>2. Flip(file.edges) \in Counts
  BY <1>1 DEF Flip, Counts
<1>3. TypeOK'
  BY <1>1, <1>2 DEF IInv, TypeOK, Load
<1>4. Agreement'
  BY <1>1 DEF IInv, FileOK, Agreement, Load, Flip
<1>5. RootFlag'
  BY <1>1 DEF RootFlag, Load
<1>6. Acyclic' /\ FileOK'
  BY DEF IInv, FileOK, Acyclic, Load, Cyclic
<1> QED
  BY <1>3, <1>4, <1>5, <1>6 DEF IInv
(* The imported nodes are all new to the graph, so no connection leads from
   the one part to the other: a set of nodes in which everybody has a
   successor has such a subset in the graph or in the file.                 *)
LEMMA ImportInv ==
  ASSUME IInv, Import
  PROVE  IInv' /\ \A p, c \in nodes : edges'[p][c] = edges[p][c]
<1> DEFINE new(r) == {r[x] : x \in file.nodes}
           old(r, i) == CHOOSE x \in file.nodes : r[x] = i
           add(r, i, j) == IF i \in new(r) /\ j \in new(r)
                             THEN file.edges[old(r, i)][old(r, j)] ELSE 0
           merge(r, f) == [i \in Id |-> [j \in Id |-> f[i][j] + add(r, i, j)]]
<1>1. PICK r \in [file.nodes -> Id] :
        /\ Renames(r)
        /\ nodes' = nodes \cup new(r)
        /\ edges' = merge(r, edges)
        /\ outs' = merge(r, [i \in Id |-> IF i \in new(r) THEN Zero ELSE outs[i]])
        /\ ins' = [i \in Id |-> IF i \in new(r) THEN [j \in Id |-> add(r, j, i)] ELSE ins[i]]
        /\ isroot' = [i \in Id |-> IF i \in new(r) THEN \A j \in Id : add(r, j, i) = 0
                                                  ELSE isroot[i]]
        /\ adj' = merge(r, adj)
        /\ file' = file
  BY DEF Import
<1>2. /\ edges \in Counts /\ outs \in Counts /\ ins \in Counts /\ adj \in Counts
      /\ file.edges \in Counts /\ file.nodes \in SUBSET Id /\ nodes \in SUBSET Id
      /\ isroot \in [Id -> BOOLEAN]
  BY DEF IInv, TypeOK
<1>3. \A x \in file.nodes : r[x] \in Id /\ r[x] \notin nodes
  BY <1>1 DEF Renames
<1>4. new(r) \subseteq Id /\ \A i \in new(r) : i \notin nodes
  BY <1>3
<1>5. \A i \in new(r) : old(r, i) \in file.nodes /\ r[old(r, i)] = i
  OBVIOUS
<1>6. \A i, j \in Id : /\ add(r, i, j) \in Nat
                       /\ add(r, i, j) # 0 => i \in new(r) /\ j \in new(r)
  <2> SUFFICES ASSUME NEW i \in Id, NEW j \in Id, i \in new(r), j \in new(r)
               PROVE  file.edges[old(r, i)][old(r, j)] \in Nat
    OBVIOUS
  <2>1. old(r, i) \in Id /\ old(r, j) \in Id
    BY <1>5, <1>2
  <2> HIDE DEF old
  <2> QED
    BY <2>1, <1>2 DEF Counts
<1>7. \A i, j \in Id : i \in new(r) \/ j \in new(r) => edges[i][j] = 0
  <2> SUFFICES ASSUME NEW i \in Id, NEW j \in Id, i \in new(r) \/ j \in new(r)
               PROVE  edges[i][j] = 0
    OBVIOUS
  <2>1. i \notin nodes \/ j \notin nodes
    BY <1>4
  <2>2. edges[i][j] \in Nat
    BY <1>2 DEF Counts
  <2> QED
    BY <2>1, <2>2 DEF IInv, Agreement
<1> DEFINE N == new(r)
           A(i, j) == add(r, i, j)
<1>8. /\ nodes' = nodes \cup N
      /\ edges' = [i \in Id |-> [j \in Id |-> edges[i][j] + A(i, j)]]
      /\ outs' = [i \in Id |-> [j \in Id |-> (IF i \in N THEN Zero ELSE outs[i])[j] + A(i, j)]]
      /\ ins' = [i \in Id |-> IF i \in N THEN [j \in Id |-> A(j, i)] ELSE ins[i]]
      /\ isroot' = [i \in Id |-> IF i \in N THEN \A j \in Id : A(j, i) = 0 ELSE isroot[i]]
      /\ adj' = [i \in Id |-> [j \in Id |-> adj[i][j] + A(i, j)]]
      /\ file' = file
  BY <1>1
<1>9. /\ N \subseteq Id /\ \A i \in N : i \notin nodes
      /\ \A i, j \in Id : A(i, j) \in Nat /\ (A(i, j) # 0 => i \in N /\ j \in N)
      /\ \A i, j \in Id : i \in N \/ j \in N => edges[i][j] = 0
  BY <1>4, <1>6, <1>7
<1>10. \A S \in SUBSET Id :
        S \cap N # {} /\ (\A x \in S : \E y \in S : edges'[x][y] > 0) => Cyclic(file.edges)
  <2> SUFFICES ASSUME NEW S \in SUBSET Id, S \cap N # {},
                      \A x \in S : \E y \in S : edges'[x][y] > 0
               PROVE  Cyclic(file.edges)
    OBVIOUS
  <2> DEFINE T == {old(r, i) : i \in S \cap N}
  <2>1. T # {} /\ T \in SUBSET Id
    BY <1>5, <1>2
  <2>2. \A x \in T : \E y \in T : file.edges[x][y] > 0
    <3> SUFFICES ASSUME NEW i \in S \cap N
                 PROVE  \E y \in T : file.edges[old(r, i)][y] > 0
      OBVIOUS
    <3>1. PICK j \in S : edges'[i][j] > 0
      OBVIOUS
    <3>2. i \in Id /\ j \in Id
      OBVIOUS
    <3>3. edges'[i][j] = A(i, j)
      <4>1. edges'[i][j] = edges[i][j] + A(i, j)
        BY <3>2, <1>8
      <4> HIDE DEF A, N
      <4>2. edges[i][j] = 0
        BY <3>2, <1>9
      <4>3. A(i, j) \in Nat
        BY <3>2, <1>9
      <4> QED
        BY <4>1, <4>2, <4>3
    <3>4. i \in N /\ j \in N
      <4>1. A(i, j) # 0
        BY <3>1, <3>3
      <4> QED
        BY <3>2, <1>9, <4>1
    <3>5. A(i, j) = file.edges[old(r, i)][old(r, j)]
      BY <3>4
    <3>6. old(r, j) \in T
      BY <3>4
    <3> QED
      BY <3>1, <3>3, <3>5, <3>6
  <2> QED
    BY <2>1, <2>2 DEF Cyclic
<1> HIDE DEF N, A
<1>11. TypeOK'
  <2>1. \A i \in Id : (IF i \in N THEN Zero ELSE outs[i]) \in [Id -> Nat]
    BY <1>2 DEF Zero, Counts
  <2>2. edges' \in Counts /\ adj' \in Counts
    BY <1>2, <1>8, <1>9 DEF Counts
  <2>3. outs' \in Counts
    BY <2>1, <1>8, <1>9 DEF Counts
  <2>4. ins' \in Counts
    BY <1>2, <1>8, <1>9 DEF Counts
  <2>5. isroot' \in [Id -> BOOLEAN]
    BY <1>2, <1>8
  <2> QED
    BY <2>2, <2>3, <2>4, <2>5, <1>2, <1>8, <1>9 DEF IInv, TypeOK
<1>12. Agreement'
  <2> SUFFICES ASSUME NEW i \in Id, NEW j \in Id
               PROVE  /\ outs'[i][j] = edges'[i][j]
                      /\ ins'[j][i] = edges'[i][j]
                      /\ adj'[i][j] = edges'[i][j]
                      /\ edges'[i][j] > 0 => i \in nodes' /\ j \in nodes'
    BY DEF Agreement
  <2>0. /\ edges[i][j] \in Nat /\ A(i, j) \in Nat
        /\ outs[i][j] = edges[i][j] /\ ins[j][i] = edges[i][j] /\ adj[i][j] = edges[i][j]
        /\ edges[i][j] > 0 => i \in nodes /\ j \in nodes
    BY <1>2, <1>9 DEF IInv, Agreement, Counts
  <2>1. edges'[i][j] = edges[i][j] + A(i, j) /\ adj'[i][j] = adj[i][j] + A(i, j)
    BY <1>8
  <2>2. outs'[i][j] = edges'[i][j]
    <3>1. outs'[i][j] = (IF i \in N THEN Zero ELSE outs[i])[j] + A(i, j)
      BY <1>8
    <3>2. (IF i \in N THEN Zero ELSE outs[i])[j] = edges[i][j]
      BY <1>9, <2>0 DEF Zero
    <3> QED
      BY <3>1, <3>2, <2>1
  <2>3. ins'[j][i] = edges'[i][j]
    <3>1. CASE j \in N
      <4>1. ins'[j][i] = A(i, j)
        BY <3>1, <1>8
      <4>2. edges[i][j] = 0
        BY <3>1, <1>9
      <4> QED
        BY <4>1, <4>2, <2>0, <2>1
    <3>2. CASE j \notin N
      <4>1. ins'[j][i] = ins[j][i]
        BY <3>2, <1>8
      <4>2. A(i, j) = 0
        BY <3>2, <1>9
      <4> QED
        BY <4>1, <4>2, <2>0, <2>1
    <3> QED
      BY <3>1, <3>2
  <2>4. edges'[i][j] > 0 => i \in nodes' /\ j \in nodes'
    <3>1. CASE A(i, j) = 0
      BY <3>1, <2>0, <2>1, <1>8
    <3>2. CASE A(i, j) # 0
      BY <3>2, <1>8, <1>9
    <3> QED
      BY <3>1, <3>2
  <2> QED
    BY <2>0, <2>1, <2>2, <2>3, <2>4
<1>13. \A p, c \in Id : edges'[p][c] = edges[p][c] + A(p, c)
  BY <1>8
<1>14. \A p, c \in Id : c \notin N => edges'[p][c] = edges[p][c]
  BY <1>13, <1>9, <1>2 DEF Counts
<1>15. RootFlag'
  <2> SUFFICES ASSUME NEW c \in nodes'
               PROVE  isroot'[c] <=> \A p \in Id : edges'[p][c] = 0
    BY DEF RootFlag
  <2>0. c \in Id
    BY <1>2, <1>8, <1>9
  <2>1. CASE c \in N
    <3>1. isroot'[c] = \A p \in Id : A(p, c) = 0
      BY <2>0, <2>1, <1>8
    <3>2. \A p \in Id : edges'[p][c] = A(p, c)
      BY <2>0, <2>1, <1>9, <1>13
    <3> QED
      BY <3>1, <3>2
  <2>2. CASE c \notin N
    <3>1. c \in nodes /\ isroot'[c] = isroot[c]
      BY <2>0, <2>2, <1>8
    <3>2. \A p \in Id : edges'[p][c] = edges[p][c]
      BY <2>0, <2>2, <1>14
    <3> QED
      BY <3>1, <3>2 DEF IInv, RootFlag
  <2> QED
    BY <2>1, <2>2
<1>16. Acyclic'
  <2> SUFFICES ASSUME Cyclic(edges') PROVE FALSE
    BY DEF Acyclic
  <2>1. PICK S \in SUBSET Id : S # {} /\ \A x \in S : \E y \in S : edges'[x][y] > 0
    BY DEF Cyclic
  <2>2. CASE S \cap N = {}
    <3>1. \A x \in S : \E y \in S : edges[x][y] > 0
      BY <2>1, <2>2, <1>14
    <3> QED
      BY <3>1, <2>1 DEF Cyclic, IInv, Acyclic
  <2>3. CASE S \cap N # {}
    BY <2>1, <2>3, <1>10 DEF IInv, FileOK
  <2> QED
    BY <2>2, <2>3
<1>17. FileOK'
  BY <1>8 DEF IInv, FileOK, Cyclic
<1>18. \A p, c \in nodes : edges'[p][c] = edges[p][c]
  BY <1>14, <1>9, <1>2
<1> QED
  BY <1>11, <1>12, <1>15, <1>16, <1>17, <1>18 DEF IInv

-----------------------------------------------------------------------------
LEMMA NextInv == IInv /\ [Next]_vars => IInv'
<1> SUFFICES ASSUME IInv, [Next]_vars PROVE IInv'
  OBVIOUS
<1>1. CASE UNCHANGED vars
  BY <1>1 DEF IInv, TypeOK, Agreement, RootFlag, Acyclic, FileOK, Cyclic, vars
<1>2. ASSUME NEW i \in Id, AddNode(i) \/ RemoveNode(i)
      PROVE  IInv'
  BY <1>2, AddNodeInv, RemoveNodeInv
<1>3. ASSUME NEW p \in Id, NEW c \in Id, Connect(p, c) \/ Disconnect(p, c)
      PROVE  IInv'
  BY <1>3, ConnectAcceptedInv, RefusedInv, DisconnectInv DEF Connect
<1>4. CASE Save \/ Clear \/ Load \/ Import
  BY <1>4, SaveInv, ClearInv, LoadInv, ImportInv
<1> QED
  BY <1>1, <1>2, <1>3, <1>4 DEF Next

(* Everything below rests on this: the conjunction is inductive. *)
THEOREM Invariance == Spec => []IInv
<1>1. Init => IInv
  BY InitInv
<1>2. IInv /\ [Next]_vars => IInv'
  BY NextInv
<1> QED
  BY <1>1, <1>2, PTL DEF Spec

(* The lists only ever hold nodes, and only ever a natural number of copies
   of a connection.                                                         *)
THEOREM TypeCorrect == Spec => []TypeOK
<1>1. IInv => TypeOK
  BY DEF IInv
<1> QED
  BY <1>1, Invariance, PTL

(* The copies of the connections always agree: every pipe a process will
   open exists and has a process at its other end.                          *)
THEOREM CopiesAgree == Spec => []Agreement
<1>1. IInv => Agreement
  BY DEF IInv
<1> QED
  BY <1>1, Invariance, PTL

(* isroot_ always says whether anybody writes to the node. *)
THEOREM RootFlagRight == Spec => []RootFlag
<1>1. IInv => RootFlag
  BY DEF IInv
<1> QED
  BY <1>1, Invariance, PTL

(* No sequence of edits, loads and imports closes a cycle. *)
THEOREM StaysAcyclic == Spec => []Acyclic
<1>1. IInv => Acyclic
  BY DEF IInv
<1> QED
  BY <1>1, Invariance, PTL

(* A refused connection never changes anything. *)
THEOREM RefusalIsHarmless == Spec => RefusalChangesNothing
<1>1. IInv /\ [Next]_vars => [\A p, c \in Id : ConnectRefused(p, c) => UNCHANGED vars]_vars
  BY RefusedUnchanged
<1> QED
  BY <1>1, Invariance, PTL DEF Spec, RefusalChangesNothing

(* An import never touches the connections that were there. *)
THEOREM ImportIsHarmless == Spec => ImportKeepsGraph
<1>1. IInv /\ [Next]_vars => [Import => \A p, c \in nodes : edges'[p][c] = edges[p][c]]_vars
  BY ImportInv
<1> QED
  BY <1>1, Invariance, PTL DEF Spec, ImportKeepsGraph

-----------------------------------------------------------------------------
(***************************************************************************)
(* The editor.  Both results need to know that connections of the editor   *)
(* join nodes that are shown (Joined); that it hides nothing also needs    *)
(* that an edge of Graph leads from node to node (Agreement), since a load *)
(* shows the edges between nodes only, and that no load is under way while *)
(* a node is deleted (OneAtATime).                                         *)
(***************************************************************************)

QCounts == [QNode -> [QNode -> Nat]]

Joined == \A q, r \in QNode : cons[q][r] > 0 => q \in Shown /\ r \in Shown

OneAtATime == doomed # NoNode => unshown = {}

EInv == IInv /\ EditorTypeOK /\ Joined /\ OneAtATime /\ NothingHidden

LEMMA EditorInitInv == EditorInit => EInv
<1> SUFFICES ASSUME EditorInit PROVE EInv
  OBVIOUS
<1>1. IInv
  BY InitInv DEF EditorInit
<1>2. EditorTypeOK
  BY <1>1, EditorAssumption DEF IInv, EditorTypeOK, EditorInit, NoCons
<1>3. Joined
  BY DEF EditorInit, Joined, NoCons
<1>4. NothingHidden
  BY DEF EditorInit, Init, NothingHidden, None, Zero
<1>5. OneAtATime
  BY DEF EditorInit, OneAtATime
<1> QED
  BY <1>1, <1>2, <1>3, <1>4, <1>5 DEF EInv

(* A shown node stands for a UUID. *)
LEMMA ShownId ==
  ASSUME EditorTypeOK, NEW q \in QNode, q \in Shown
  PROVE  shows[q] \in Id
BY DEF EditorTypeOK, Shown

-----------------------------------------------------------------------------
(* Every step of the editor is a step of Graph, or none. *)

LEMMA SlotImplements ==
  ASSUME EInv, NEW q \in QNode, NEW r \in QNode, Unlink(q, r)
  PROVE  /\ shows[q] \in Id /\ shows[r] \in Id
         /\ Disconnect(shows[q], shows[r]) \/ UNCHANGED vars
<1>1. shows[q] \in Id /\ shows[r] \in Id
  BY ShownId DEF EInv, Joined, Unlink
<1> QED
  BY <1>1 DEF Unlink, DisconnectSlot

LEMMA StepImplements == EInv /\ [EditorNext]_evars => [Next]_vars
<1> SUFFICES ASSUME EInv, EditorNext PROVE [Next]_vars
  BY DEF evars
<1>1. ASSUME NEW q \in QNode, NEW i \in Id, CreateNode(q, i)
      PROVE  [Next]_vars
  BY <1>1 DEF CreateNode, Next
<1>2. ASSUME NEW q \in QNode, NEW r \in QNode, Link(q, r)
      PROVE  [Next]_vars
  <2>1. shows[q] \in Id /\ shows[r] \in Id
    BY <1>2, ShownId DEF EInv, Link
  <2> QED
    BY <1>2, <2>1 DEF Link, Next, Connect
<1>3. ASSUME NEW q \in QNode, NEW r \in QNode, Unlink(q, r)
      PROVE  [Next]_vars
  BY <1>3, SlotImplements DEF Next
<1>4. ASSUME NEW q \in QNode, BeginDelete(q) \/ Edit(q)
      PROVE  [Next]_vars
  BY <1>4 DEF BeginDelete, Edit
<1>5. ASSUME NEW q \in QNode, FinishDelete(q)
      PROVE  [Next]_vars
  <2>1. RemoveNode(shows[q]) => shows[q] \in Id
    BY DEF EInv, EditorTypeOK, TypeOK, RemoveNode
  <2> QED
    BY <1>5, <2>1 DEF FinishDelete, Next
<1>6. CASE SaveGraph \/ ClearGraph \/ OpenGraph \/ MergeGraph
  BY <1>6 DEF SaveGraph, ClearGraph, OpenGraph, MergeGraph, Next
<1>7. ASSUME NEW p \in Id, NEW c \in Id, Settle(p, c)
      PROVE  [Next]_vars
  BY <1>7 DEF Settle, DisconnectSlot, Next
<1> QED
  BY <1>1, <1>2, <1>3, <1>4, <1>5, <1>6, <1>7 DEF EditorNext

LEMMA GraphInv == EInv /\ [EditorNext]_evars => IInv'
BY StepImplements, NextInv DEF EInv

-----------------------------------------------------------------------------
(* The invariant of the editor. *)

(* What is to be shown of an invariant of the view when a step is done. *)
ViewInv == EditorTypeOK /\ Joined /\ OneAtATime /\ NothingHidden

LEMMA CreateNodeInv ==
  ASSUME EInv, TypeOK', NEW q \in QNode, NEW i \in Id, CreateNode(q, i)
  PROVE  ViewInv'
<1> USE DEF EInv, CreateNode
<1>1. EditorTypeOK'
  BY DEF EditorTypeOK, editing
<1>2. Joined'
  BY DEF Joined, Shown, editing, EditorTypeOK
<1>3. OneAtATime'
  BY DEF OneAtATime, editing
<1>4. shows[q] = NoNode /\ NoNode \notin Id
  BY EditorAssumption DEF Shown
<1>5. NothingHidden'
  <2>1. nodes' = nodes \cup {i} /\ edges' = edges
    BY DEF AddNode
  <2>2. \A j \in nodes' : \E t \in QNode : shows'[t] = j
    <3> SUFFICES ASSUME NEW j \in nodes' PROVE \E t \in QNode : shows'[t] = j
      OBVIOUS
    <3>1. CASE j = i
      BY <3>1 DEF EditorTypeOK
    <3>2. CASE j \in nodes
      BY <3>2, <1>4 DEF NothingHidden, EditorTypeOK, TypeOK
    <3> QED
      BY <2>1, <3>1, <3>2
  <2>3. \A p \in Id : \A t \in QNode : shows[t] = p => shows'[t] = p
    BY <1>4 DEF EditorTypeOK
  <2> QED
    BY <2>1, <2>2, <2>3 DEF NothingHidden, editing
<1> QED
  BY <1>1, <1>2, <1>3, <1>5 DEF ViewInv

LEMMA LinkInv ==
  ASSUME EInv, TypeOK', NEW q \in QNode, NEW r \in QNode, Link(q, r)
  PROVE  ViewInv'
<1> USE DEF EInv
<1>0. q \in Shown /\ r \in Shown /\ shows[q] \in Id /\ shows[r] \in Id
  BY ShownId DEF Link
<1>1. CASE ConnectAccepted(shows[q], shows[r]) /\ cons' = Plus(cons, q, r)
           /\ UNCHANGED <<shows, editing>>
  <2>1. cons' \in [QNode -> [QNode -> Nat]]
    BY <1>1 DEF EditorTypeOK, Plus
  <2>2. \A t, u \in QNode : cons'[t][u] = IF t = q /\ u = r THEN cons[t][u] + 1
                                          ELSE cons[t][u]
    BY <1>1 DEF EditorTypeOK, Plus
  <2>3. EditorTypeOK'
    BY <1>1, <2>1 DEF EditorTypeOK, editing
  <2>4. Joined'
    BY <1>0, <1>1, <2>2 DEF Joined, Shown
  <2>5. cons'[q][r] > 0 /\ \A t, u \in QNode : cons[t][u] > 0 => cons'[t][u] > 0
    <3>1. \A t, u \in QNode : cons[t][u] \in Nat
      BY DEF EditorTypeOK
    <3> QED
      BY <2>2, <3>1
  <2>6. \A p, c \in Id : edges'[p][c] > 0 =>
          edges[p][c] > 0 \/ (p = shows[q] /\ c = shows[r])
    BY <1>0, <1>1 DEF ConnectAccepted, Plus, TypeOK, Counts, IInv
  <2>7. NothingHidden'
    BY <1>1, <2>5, <2>6 DEF NothingHidden, ConnectAccepted, editing
  <2> QED
    BY <1>1, <2>3, <2>4, <2>7 DEF OneAtATime, editing, ViewInv
<1>2. ASSUME UNCHANGED vars, UNCHANGED <<view, doomed, unshown>>, broken' \in BOOLEAN
      PROVE  ViewInv'
  BY <1>2 DEF ViewInv, EditorTypeOK, Joined, OneAtATime, NothingHidden, Shown, vars, view
<1>3. CASE ConnectRefused(shows[q], shows[r]) /\ UNCHANGED <<view, editing>>
  BY <1>0, <1>2, <1>3, RefusedUnchanged DEF editing, EditorTypeOK
<1>4. CASE broken' = TRUE /\ UNCHANGED <<vars, view, doomed, unshown>>
  BY <1>2, <1>4
<1> QED
  BY <1>1, <1>3, <1>4 DEF Link

(* A connection Graph loses, by Disconnect, is one between two given nodes. *)
LEMMA SlotEdges ==
  ASSUME EInv, NEW p \in Id, NEW c \in Id, DisconnectSlot(p, c)
  PROVE  /\ nodes' = nodes
         /\ \A i, j \in Id : edges'[i][j] > 0 =>
              edges[i][j] > 0 /\ ~(i = p /\ j = c)
<1>1. CASE Disconnect(p, c)
  BY <1>1 DEF Disconnect, Drop, EInv, IInv, TypeOK, Counts
<1>2. CASE edges[p][c] = 0 /\ UNCHANGED vars
  BY <1>2 DEF vars
<1> QED
  BY <1>1, <1>2 DEF DisconnectSlot

LEMMA UnlinkInv ==
  ASSUME EInv, TypeOK', NEW q \in QNode, NEW r \in QNode, Unlink(q, r)
  PROVE  ViewInv'
<1> USE DEF EInv
<1>0. shows[q] \in Id /\ shows[r] \in Id
  BY SlotImplements
<1>1. DisconnectSlot(shows[q], shows[r])
  BY DEF Unlink
<1>2. /\ cons[q][r] > 0 /\ cons[q][r] \in Nat
      /\ cons' = [cons EXCEPT ![q][r] = @ - 1]
      /\ UNCHANGED <<shows, doomed, unshown, broken>> /\ unshown = {}
  BY DEF Unlink, editing, EditorTypeOK
<1>3. cons' \in [QNode -> [QNode -> Nat]]
  BY <1>2 DEF EditorTypeOK
<1>4. \A t, u \in QNode : cons'[t][u] = IF t = q /\ u = r THEN cons[t][u] - 1 ELSE cons[t][u]
  BY <1>2 DEF EditorTypeOK
<1>5. EditorTypeOK'
  BY <1>2, <1>3 DEF EditorTypeOK
<1>6. Joined'
  BY <1>2, <1>4 DEF Joined, Shown
<1>7. NothingHidden'
  <2>1. \A i \in nodes' : \E t \in QNode : shows'[t] = i
    BY <1>0, <1>1, <1>2, SlotEdges DEF NothingHidden
  <2>2. ASSUME NEW p \in Id, NEW c \in Id, edges'[p][c] > 0
        PROVE  \E t, u \in QNode : shows'[t] = p /\ shows'[u] = c /\ cons'[t][u] > 0
    <3>1. edges[p][c] > 0 /\ ~(p = shows[q] /\ c = shows[r])
      BY <1>0, <1>1, <2>2, SlotEdges
    <3>2. PICK t, u \in QNode : shows[t] = p /\ shows[u] = c /\ cons[t][u] > 0
      BY <1>2, <3>1 DEF NothingHidden
    <3> QED
      BY <1>2, <1>4, <3>1, <3>2
  <2> QED
    BY <2>1, <2>2 DEF NothingHidden
<1> QED
  BY <1>2, <1>5, <1>6, <1>7 DEF OneAtATime, ViewInv

(* The editor takes the connections of a node away before the node, so what
   is hidden with it is not in the graph.                                   *)
LEMMA FinishDeleteInv ==
  ASSUME EInv, TypeOK', NEW q \in QNode, FinishDelete(q)
  PROVE  ViewInv'
<1> USE DEF EInv
<1>1. /\ shows' = [shows EXCEPT ![q] = NoNode]
      /\ cons' = [r \in QNode |-> IF r = q THEN [t \in QNode |-> 0]
                                  ELSE [cons[r] EXCEPT ![q] = 0]]
      /\ doomed' = NoNode /\ unshown' = unshown /\ broken' \in BOOLEAN
      /\ doomed = q /\ Disconnected(q)
  BY DEF FinishDelete, EditorTypeOK
<1>2. cons' \in [QNode -> [QNode -> Nat]]
  <2>1. \A r \in QNode : [cons[r] EXCEPT ![q] = 0] \in [QNode -> Nat]
    BY DEF EditorTypeOK
  <2> QED
    BY <1>1, <2>1
<1>3. \A t, u \in QNode : cons'[t][u] = IF t = q \/ u = q THEN 0 ELSE cons[t][u]
  BY <1>1 DEF EditorTypeOK
<1>4. EditorTypeOK'
  BY <1>1, <1>2 DEF EditorTypeOK
<1>5. \A t \in QNode : t # q => shows'[t] = shows[t]
  BY <1>1 DEF EditorTypeOK
<1>6. Joined'
  BY <1>3, <1>5 DEF Joined, Shown
<1>7. unshown = {}
  BY <1>1, EditorAssumption DEF OneAtATime
<1>8. edges' = edges
  BY DEF FinishDelete, RemoveNode, vars
<1>9. ASSUME NEW p \in Id, NEW c \in Id, edges[p][c] > 0
      PROVE  \E t, u \in QNode : /\ t # q /\ u # q
                                 /\ shows[t] = p /\ shows[u] = c /\ cons[t][u] > 0
  <2>1. PICK t, u \in QNode : shows[t] = p /\ shows[u] = c /\ cons[t][u] > 0
    BY <1>7, <1>9 DEF NothingHidden
  <2> QED
    BY <1>1, <2>1 DEF Disconnected
<1>10. \A j \in nodes' : \E t \in QNode : t # q /\ shows[t] = j
  <2> SUFFICES ASSUME NEW j \in nodes' PROVE \E t \in QNode : t # q /\ shows[t] = j
    OBVIOUS
  <2>1. j \in nodes /\ j \in Id
    BY DEF FinishDelete, RemoveNode, vars, TypeOK, IInv
  <2>2. CASE j # shows[q]
    BY <2>1, <2>2 DEF NothingHidden
  <2>3. CASE j = shows[q]
    <3>1. PICK k \in Id : edges[j][k] + edges[k][j] > 0
      BY <2>1, <2>3 DEF FinishDelete, RemoveNode
    <3>2. edges[j][k] \in Nat /\ edges[k][j] \in Nat
      BY <2>1 DEF IInv, TypeOK, Counts
    <3>3. edges[j][k] > 0 \/ edges[k][j] > 0
      BY <3>1, <3>2
    <3> QED
      BY <1>9, <2>1, <3>3
  <2> QED
    BY <2>2, <2>3
<1>11. NothingHidden'
  BY <1>3, <1>5, <1>8, <1>9, <1>10 DEF NothingHidden
<1> QED
  BY <1>1, <1>4, <1>6, <1>11 DEF OneAtATime, ViewInv

(* A load shows the new graph: its nodes are new in the editor, each one
   stands for another node of the graph, and every connection is shown, as
   often as the graph has it, or is in unshown.                             *)
LEMMA DisplayInv ==
  ASSUME TypeOK', Agreement', NEW kept \in SUBSET QNode, Display(kept),
         EditorTypeOK, Joined, doomed = NoNode,
         \A q \in kept : shows[q] \in Id,
         \A p, c \in Id : edges'[p][c] > 0 => p \in nodes' /\ c \in nodes'
  PROVE  ViewInv'
<1> DEFINE id(f, q) == CHOOSE i \in ToShow : f[i] = q
           copies(lost, some, p, c) == IF <<p, c>> \in lost THEN some[<<p, c>>] ELSE edges'[p][c]
<1>1. PICK f \in Injection(ToShow, QNode \ kept), lost \in SUBSET Crowded(edges') :
        \E some \in [lost -> 0..MaxParallel] :
          /\ shows' = [q \in QNode |-> IF q \in Range(f) THEN id(f, q)
                                       ELSE IF q \in kept THEN shows[q] ELSE NoNode]
          /\ cons' = [q \in QNode |-> [r \in QNode |->
                        IF q \in Range(f) /\ r \in Range(f)
                          THEN copies(lost, some, id(f, q), id(f, r))
                        ELSE IF q \in kept /\ r \in kept THEN cons[q][r] ELSE 0]]
          /\ unshown' = lost
          /\ UNCHANGED <<doomed, broken>>
  BY ZenonT(60) DEF Display
<1>2. PICK some \in [lost -> 0..MaxParallel] :
          /\ shows' = [q \in QNode |-> IF q \in Range(f) THEN id(f, q)
                                       ELSE IF q \in kept THEN shows[q] ELSE NoNode]
          /\ cons' = [q \in QNode |-> [r \in QNode |->
                        IF q \in Range(f) /\ r \in Range(f)
                          THEN copies(lost, some, id(f, q), id(f, r))
                        ELSE IF q \in kept /\ r \in kept THEN cons[q][r] ELSE 0]]
          /\ unshown' = lost
          /\ UNCHANGED <<doomed, broken>>
  BY <1>1
<1>3. /\ f \in [nodes' -> QNode \ kept]
      /\ \A i, j \in nodes' : f[i] = f[j] => i = j
      /\ Range(f) = {f[i] : i \in nodes'}
  BY DEF Injection, IsInjective, Range, ToShow
<1>4. nodes' \subseteq Id
  BY DEF TypeOK
<1>5. \A i \in nodes' : id(f, f[i]) = i
  BY <1>3 DEF ToShow
<1>6. \A q \in Range(f) : q \in QNode /\ id(f, q) \in nodes' /\ q \notin kept
  <2> SUFFICES ASSUME NEW q \in Range(f)
               PROVE  q \in QNode /\ id(f, q) \in nodes' /\ q \notin kept
    OBVIOUS
  <2>1. PICK i \in nodes' : q = f[i]
    BY <1>3
  <2> HIDE DEF id
  <2> QED
    BY <1>3, <1>5, <2>1
<1>7. lost \in SUBSET (Id \X Id)
  BY DEF Crowded
<1>8. \A p, c \in nodes' : copies(lost, some, p, c) \in Nat
  BY <1>2, <1>4, GraphBounds DEF TypeOK, Counts
<1> HIDE DEF id, copies
<1>9. shows' \in [QNode -> Id \cup {NoNode}]
  BY <1>2, <1>4, <1>6 DEF EditorTypeOK
<1>10. cons' \in [QNode -> [QNode -> Nat]]
  <2>1. \A q, r \in QNode :
          (IF q \in Range(f) /\ r \in Range(f) THEN copies(lost, some, id(f, q), id(f, r))
           ELSE IF q \in kept /\ r \in kept THEN cons[q][r] ELSE 0) \in Nat
    BY <1>6, <1>8 DEF EditorTypeOK
  <2> QED
    BY <1>2, <2>1
<1>11. EditorTypeOK'
  BY <1>2, <1>7, <1>9, <1>10 DEF EditorTypeOK
<1>12. Joined'
  <2> SUFFICES ASSUME NEW q \in QNode, NEW r \in QNode, cons'[q][r] > 0
               PROVE  shows'[q] # NoNode /\ shows'[r] # NoNode
    BY DEF Joined, Shown
  <2>1. CASE q \in Range(f) /\ r \in Range(f)
    BY <1>2, <1>4, <1>6, <2>1, EditorAssumption
  <2>2. CASE ~(q \in Range(f) /\ r \in Range(f))
    <3>1. q \in kept /\ r \in kept
      BY <1>2, <2>2
    <3> QED
      BY <1>2, <1>6, <3>1, EditorAssumption
  <2> QED
    BY <2>1, <2>2
<1>13. \A i \in nodes' : f[i] \in QNode /\ f[i] \in Range(f) /\ shows'[f[i]] = i
  BY <1>2, <1>3, <1>5
<1>14. ASSUME NEW p \in Id, NEW c \in Id, edges'[p][c] > 0, <<p, c>> \notin unshown'
       PROVE  \E q, r \in QNode : shows'[q] = p /\ shows'[r] = c /\ cons'[q][r] > 0
  <2>1. p \in nodes' /\ c \in nodes'
    BY <1>14
  <2>2. cons'[f[p]][f[c]] = copies(lost, some, id(f, f[p]), id(f, f[c]))
    BY <1>2, <1>13, <2>1
  <2>3. cons'[f[p]][f[c]] = copies(lost, some, p, c)
    BY <1>5, <2>1, <2>2
  <2>4. copies(lost, some, p, c) = edges'[p][c]
    BY <1>2, <1>14 DEF copies
  <2> QED
    BY <1>13, <1>14, <2>1, <2>3, <2>4
<1>15. NothingHidden'
  BY <1>13, <1>14 DEF NothingHidden
<1>16. OneAtATime'
  BY <1>2 DEF OneAtATime
<1> QED
  BY <1>11, <1>12, <1>15, <1>16 DEF ViewInv

LEMMA LoadsInv ==
  ASSUME EInv, IInv', OpenGraph \/ MergeGraph
  PROVE  ViewInv'
<1>1. TypeOK' /\ Agreement' /\ doomed = NoNode
  BY DEF IInv, OpenGraph, MergeGraph, Idle
<1>2. \A p, c \in Id : edges'[p][c] > 0 => p \in nodes' /\ c \in nodes'
  BY <1>1 DEF Agreement
<1>3. \A q \in Shown : shows[q] \in Id
  BY ShownId DEF EInv, Shown
<1>4. Shown \in SUBSET QNode /\ {} \in SUBSET QNode
  BY DEF Shown
<1>5. CASE OpenGraph
  BY <1>1, <1>2, <1>4, <1>5, DisplayInv DEF EInv, OpenGraph
<1>6. CASE MergeGraph
  BY <1>1, <1>2, <1>3, <1>4, <1>6, DisplayInv DEF EInv, MergeGraph
<1> QED
  BY <1>5, <1>6

LEMMA SettleInv ==
  ASSUME EInv, TypeOK', NEW p \in Id, NEW c \in Id, Settle(p, c)
  PROVE  ViewInv'
<1> USE DEF EInv
<1>1. /\ nodes' = nodes
      /\ \A i, j \in Id : edges'[i][j] > 0 => edges[i][j] > 0 /\ ~(i = p /\ j = c)
  BY SlotEdges DEF Settle
<1>2. /\ UNCHANGED <<shows, cons, doomed>> /\ broken' \in BOOLEAN
      /\ unshown' = unshown \ {<<p, c>>}
  BY DEF Settle, view
<1>3. EditorTypeOK' /\ Joined' /\ OneAtATime'
  BY <1>2 DEF EditorTypeOK, Joined, OneAtATime, Shown
<1>4. NothingHidden'
  BY <1>1, <1>2 DEF NothingHidden
<1> QED
  BY <1>3, <1>4 DEF ViewInv

LEMMA ClearInvView ==
  ASSUME EInv, TypeOK', ClearGraph
  PROVE  ViewInv'
<1>1. /\ shows' = [q \in QNode |-> NoNode] /\ cons' = NoCons
      /\ UNCHANGED <<doomed, unshown, broken>> /\ nodes' = {} /\ edges' = None
  BY DEF ClearGraph, Clear, editing
<1>2. EditorTypeOK'
  BY <1>1 DEF EInv, EditorTypeOK, NoCons
<1>3. Joined' /\ NothingHidden'
  BY <1>1 DEF Joined, NothingHidden, NoCons, None, Zero
<1> QED
  BY <1>1, <1>2, <1>3 DEF ViewInv, EInv, OneAtATime

LEMMA EditorNextInv == EInv /\ [EditorNext]_evars => EInv'
<1> SUFFICES ASSUME EInv, [EditorNext]_evars PROVE EInv'
  OBVIOUS
<1>1. IInv' /\ TypeOK'
  BY GraphInv DEF IInv
<1> SUFFICES ViewInv'
  BY <1>1 DEF EInv, ViewInv
<1>2. CASE UNCHANGED evars
  BY <1>1, <1>2 DEF EInv, ViewInv, evars, vars, view, editing, EditorTypeOK, Joined,
                    OneAtATime, NothingHidden, Shown
<1>3. ASSUME NEW q \in QNode, NEW i \in Id, CreateNode(q, i)
      PROVE  ViewInv'
  BY <1>1, <1>3, CreateNodeInv
<1>4. ASSUME NEW q \in QNode, NEW r \in QNode, Link(q, r) \/ Unlink(q, r)
      PROVE  ViewInv'
  BY <1>1, <1>4, LinkInv, UnlinkInv
<1>5. ASSUME NEW q \in QNode, BeginDelete(q)
      PROVE  ViewInv'
  BY <1>1, <1>5 DEF BeginDelete, Idle, EInv, ViewInv, vars, view, EditorTypeOK, Joined,
                    OneAtATime, NothingHidden, Shown
<1>6. ASSUME NEW q \in QNode, FinishDelete(q)
      PROVE  ViewInv'
  BY <1>1, <1>6, FinishDeleteInv
<1>7. ASSUME NEW q \in QNode, Edit(q)
      PROVE  ViewInv'
  BY <1>1, <1>7 DEF Edit, EInv, ViewInv, vars, view, EditorTypeOK, Joined,
                    OneAtATime, NothingHidden, Shown
<1>8. CASE SaveGraph
  BY <1>1, <1>8 DEF SaveGraph, Save, EInv, ViewInv, view, editing, EditorTypeOK, Joined,
                    OneAtATime, NothingHidden, Shown
<1>9. CASE ClearGraph
  BY <1>1, <1>9, ClearInvView
<1>10. CASE OpenGraph \/ MergeGraph
  BY <1>1, <1>10, LoadsInv
<1>11. ASSUME NEW p \in Id, NEW c \in Id, Settle(p, c)
       PROVE  ViewInv'
  BY <1>1, <1>11, SettleInv
<1> QED
  BY <1>2, <1>3, <1>4, <1>5, <1>6, <1>7, <1>8, <1>9, <1>10, <1>11 DEF EditorNext

-----------------------------------------------------------------------------
(* When the view goes wrong, and what can come of it. *)

(* What a faithful view shows of a node that is connected: the node itself,
   the node at the other end and the connection between them.               *)
LEMMA ShownConnection ==
  ASSUME EInv, Faithful, NEW p \in Id, NEW c \in Id, edges[p][c] > 0
  PROVE  \E q, r \in Shown : shows[q] = p /\ shows[r] = c /\ cons[q][r] = edges[p][c]
<1>1. p \in nodes /\ c \in nodes
  BY DEF EInv, IInv, Agreement
<1>2. PICK q, r \in QNode : shows[q] = p /\ shows[r] = c
  BY <1>1 DEF Faithful
<1>3. q \in Shown /\ r \in Shown
  BY <1>2, EditorAssumption DEF Shown
<1> QED
  BY <1>2, <1>3 DEF Faithful

LEMMA DeleteBreaks ==
  ASSUME EInv, Faithful, NEW q \in QNode, FinishDelete(q)
  PROVE  UNCHANGED broken
<1> DEFINE i == shows[q]
<1> SUFFICES ASSUME i \in nodes, NEW j \in Id, edges[i][j] + edges[j][i] > 0 PROVE FALSE
  BY DEF FinishDelete
<1>1. i \in Id /\ edges[i][j] \in Nat /\ edges[j][i] \in Nat
  BY DEF EInv, IInv, TypeOK, Counts
<1>2. CASE edges[i][j] > 0
  BY <1>1, <1>2, ShownConnection DEF FinishDelete, Disconnected, Faithful, Shown
<1>3. CASE edges[j][i] > 0
  BY <1>1, <1>3, ShownConnection DEF FinishDelete, Disconnected, Faithful, Shown
<1> QED
  BY <1>1, <1>2, <1>3

LEMMA BreaksMisled ==
  ASSUME EInv, EditorNext, Faithful
  PROVE  ~broken'
<1>0. ~broken /\ unshown = {} /\ \A q \in Shown : shows[q] \in nodes
  BY DEF Faithful
<1> SUFFICES broken' = broken
  BY <1>0
<1>1. ASSUME NEW q \in QNode, NEW i \in Id, CreateNode(q, i) PROVE broken' = broken
  BY <1>1 DEF CreateNode, editing
<1>2. ASSUME NEW q \in QNode, NEW r \in QNode, Link(q, r) PROVE broken' = broken
  BY <1>0, <1>2 DEF Link, editing
<1>3. ASSUME NEW q \in QNode, NEW r \in QNode, Unlink(q, r) PROVE broken' = broken
  BY <1>3 DEF Unlink, editing
<1>4. ASSUME NEW q \in QNode, BeginDelete(q) PROVE broken' = broken
  BY <1>4 DEF BeginDelete
<1>5. ASSUME NEW q \in QNode, FinishDelete(q) PROVE broken' = broken
  BY <1>5, DeleteBreaks
<1>6. ASSUME NEW q \in QNode, Edit(q) PROVE broken' = broken
  BY <1>0, <1>6 DEF Edit
<1>7. CASE SaveGraph \/ ClearGraph
  BY <1>7 DEF SaveGraph, ClearGraph, editing
<1>8. CASE OpenGraph \/ MergeGraph
  BY <1>8 DEF OpenGraph, MergeGraph, Display
<1>9. ASSUME NEW p \in Id, NEW c \in Id, Settle(p, c) PROVE broken' = broken
  BY <1>0, <1>9 DEF Settle
<1> QED
  BY <1>1, <1>2, <1>3, <1>4, <1>5, <1>6, <1>7, <1>8, <1>9 DEF EditorNext

(* A load into an empty view shows the graph as it is, if every connection
   finds a port.                                                            *)
LEMMA DisplayFaithful ==
  ASSUME EditorTypeOK, TypeOK', NEW kept \in SUBSET QNode, Display(kept)
  PROVE  kept = {} /\ unshown' = {} /\ ~broken => Faithful'
<1> DEFINE id(f, q) == CHOOSE i \in ToShow : f[i] = q
           copies(lost, some, p, c) == IF <<p, c>> \in lost THEN some[<<p, c>>] ELSE edges'[p][c]
<1>0. PICK f \in Injection(ToShow, QNode \ kept), lost \in SUBSET Crowded(edges') :
        \E some \in [lost -> 0..MaxParallel] :
          /\ shows' = [q \in QNode |-> IF q \in Range(f) THEN id(f, q)
                                       ELSE IF q \in kept THEN shows[q] ELSE NoNode]
          /\ cons' = [q \in QNode |-> [r \in QNode |->
                        IF q \in Range(f) /\ r \in Range(f)
                          THEN copies(lost, some, id(f, q), id(f, r))
                        ELSE IF q \in kept /\ r \in kept THEN cons[q][r] ELSE 0]]
          /\ unshown' = lost
          /\ UNCHANGED <<doomed, broken>>
  BY ZenonT(60) DEF Display
<1> HAVE kept = {} /\ unshown' = {} /\ ~broken
<1>1. /\ f \in Injection(ToShow, QNode)
      /\ shows' = [q \in QNode |-> IF q \in Range(f) THEN id(f, q) ELSE NoNode]
      /\ \A q, r \in Range(f) \cap QNode : cons'[q][r] = edges'[id(f, q)][id(f, r)]
      /\ ~broken'
  <2> HIDE DEF id
  <2> QED
    BY <1>0
<1>2. /\ f \in [nodes' -> QNode]
      /\ \A i, j \in nodes' : f[i] = f[j] => i = j
      /\ Range(f) = {f[i] : i \in nodes'}
  BY DEF Injection, IsInjective, Range, ToShow
<1>3. \A i \in nodes' : id(f, f[i]) = i /\ f[i] \in QNode /\ i # NoNode
  BY <1>2, EditorAssumption DEF ToShow, TypeOK
<1> HIDE DEF id
<1>4. \A i \in nodes' : f[i] \in QNode /\ shows'[f[i]] = i
  BY <1>1, <1>2, <1>3
<1>5. \A q \in Shown' : q \in QNode /\ \E i \in nodes' : q = f[i]
  BY <1>1, <1>2 DEF Shown
<1>6. \A q \in Shown' : shows'[q] \in nodes' /\ f[shows'[q]] = q /\ id(f, q) = shows'[q]
  BY <1>3, <1>4, <1>5
<1>7. \A q, r \in Shown' : cons'[q][r] = edges'[shows'[q]][shows'[r]]
  BY <1>1, <1>2, <1>5, <1>6
<1>8. \A q, r \in Shown' : shows'[q] = shows'[r] => q = r
  BY <1>6
<1> QED
  BY <1>1, <1>4, <1>6, <1>7, <1>8 DEF Faithful

(* What is to be shown of a step that leaves unshown and broken alone. *)
SameView ==
  /\ \A q \in Shown : shows[q] \in nodes
  /\ \A i \in nodes : \E q \in QNode : shows[q] = i
  /\ \A q, r \in Shown : shows[q] = shows[r] => q = r
  /\ \A q, r \in Shown : cons[q][r] = edges[shows[q]][shows[r]]

LEMMA CreateFaithful ==
  ASSUME EInv, SameView, NEW q \in QNode, NEW i \in Id, CreateNode(q, i)
  PROVE  SameView'
<1> USE DEF EInv, SameView
<1>1. /\ nodes' = nodes \cup {i} /\ edges' = edges /\ cons' = cons /\ i \notin nodes
      /\ shows' = [shows EXCEPT ![q] = i] /\ i \notin {shows[t] : t \in Shown}
      /\ q \notin Shown
  BY DEF CreateNode, AddNode, Used
<1>2. shows'[q] = i /\ \A t \in QNode : t # q => shows'[t] = shows[t]
  BY <1>1 DEF EditorTypeOK
<1>3. i # NoNode /\ shows[q] = NoNode /\ \A j \in nodes : j # NoNode
  BY <1>1, EditorAssumption DEF Shown, IInv, TypeOK
<1>4. Shown' = Shown \cup {q}
  BY <1>2, <1>3 DEF Shown
<1>5. \A t \in Shown : t # q /\ t \in QNode /\ shows'[t] = shows[t] /\ shows[t] # i
  BY <1>1, <1>2 DEF Shown
<1>6. \A j \in nodes' : \E t \in QNode : shows'[t] = j
  BY <1>1, <1>2, <1>3
<1>7. \A t \in QNode : cons[q][t] = 0 /\ cons[t][q] = 0
  <2>1. \A t, u \in QNode : cons[t][u] \in Nat
    BY DEF EditorTypeOK
  <2> QED
    BY <1>1, <2>1 DEF Joined
<1>8. \A j \in Id : edges[i][j] = 0 /\ edges[j][i] = 0
  <2>1. \A j, k \in Id : edges[j][k] \in Nat
    BY DEF IInv, TypeOK, Counts
  <2> QED
    BY <1>1, <2>1 DEF IInv, Agreement
<1>9. \A t \in Shown : shows[t] \in Id
  BY ShownId DEF Shown
<1>10. \A t, u \in Shown' : cons'[t][u] = edges'[shows'[t]][shows'[u]]
  BY <1>1, <1>2, <1>4, <1>5, <1>7, <1>8, <1>9
<1> QED
  BY <1>1, <1>2, <1>4, <1>5, <1>6, <1>10

LEMMA LinkFaithful ==
  ASSUME EInv, SameView, NEW q \in QNode, NEW r \in QNode, Link(q, r), ~broken'
  PROVE  SameView'
<1> USE DEF EInv, SameView
<1>0. q \in Shown /\ r \in Shown /\ shows[q] \in Id /\ shows[r] \in Id
  BY ShownId DEF Link
<1>1. CASE ConnectAccepted(shows[q], shows[r]) /\ cons' = Plus(cons, q, r)
           /\ UNCHANGED <<shows, editing>>
  <2>1. \A t, u \in QNode : cons'[t][u] = IF t = q /\ u = r THEN cons[t][u] + 1
                                          ELSE cons[t][u]
    BY <1>1 DEF EditorTypeOK, Plus
  <2>2. \A p, c \in Id : edges'[p][c] = IF p = shows[q] /\ c = shows[r]
                                          THEN edges[p][c] + 1 ELSE edges[p][c]
    BY <1>0, <1>1 DEF ConnectAccepted, Plus, TypeOK, Counts, IInv
  <2>3. nodes' = nodes /\ shows' = shows /\ Shown' = Shown
    BY <1>1 DEF ConnectAccepted, Shown
  <2>4. \A t \in Shown : t \in QNode /\ shows[t] \in Id
    BY ShownId DEF Shown
  <2>5. \A t, u \in Shown : cons'[t][u] = edges'[shows[t]][shows[u]]
    BY <1>0, <2>1, <2>2, <2>4
  <2> QED
    BY <2>3, <2>5
<1>2. CASE ConnectRefused(shows[q], shows[r]) /\ UNCHANGED <<view, editing>>
  BY <1>0, <1>2, RefusedUnchanged DEF view, vars, Shown
<1> QED
  BY <1>1, <1>2 DEF Link

LEMMA UnlinkFaithful ==
  ASSUME EInv, SameView, NEW q \in QNode, NEW r \in QNode, Unlink(q, r), ~(cons[q][r] > 1)
  PROVE  SameView'
<1> USE DEF EInv, SameView
<1>0. q \in Shown /\ r \in Shown /\ shows[q] \in Id /\ shows[r] \in Id
  BY ShownId DEF Unlink, Joined
<1>1. cons[q][r] = 1
  <2>1. cons[q][r] > 0 /\ cons[q][r] \in Nat
    BY DEF Unlink, EditorTypeOK
  <2> QED
    BY <2>1
<1>2. edges[shows[q]][shows[r]] = 1
  BY <1>0, <1>1
<1>3. Disconnect(shows[q], shows[r])
  BY <1>2 DEF Unlink, DisconnectSlot
<1>4. \A t, u \in QNode : cons'[t][u] = IF t = q /\ u = r THEN 0 ELSE cons[t][u]
  BY <1>1 DEF Unlink, EditorTypeOK
<1>5. \A p, c \in Id : edges'[p][c] = IF p = shows[q] /\ c = shows[r] THEN 0 ELSE edges[p][c]
  BY <1>0, <1>3 DEF Disconnect, Drop, IInv, TypeOK, Counts
<1>6. nodes' = nodes /\ shows' = shows /\ Shown' = Shown
  BY <1>3 DEF Disconnect, Unlink, Shown
<1>7. \A t \in Shown : t \in QNode /\ shows[t] \in Id
  BY ShownId DEF Shown
<1>8. \A t, u \in Shown : cons'[t][u] = edges'[shows[t]][shows[u]]
  BY <1>0, <1>4, <1>5, <1>7
<1> QED
  BY <1>6, <1>8

LEMMA DeleteFaithful ==
  ASSUME EInv, SameView, NEW q \in QNode, FinishDelete(q), ~broken'
  PROVE  SameView'
<1> USE DEF EInv, SameView
<1> DEFINE i == shows[q]
<1>1. /\ shows'[q] = NoNode /\ \A t \in QNode : t # q => shows'[t] = shows[t]
      /\ \A t, u \in QNode : t # q /\ u # q => cons'[t][u] = cons[t][u]
  BY DEF FinishDelete, EditorTypeOK
<1>2. edges' = edges /\ nodes' = nodes \ {i}
  <2>1. CASE RemoveNode(i)
    BY <2>1 DEF RemoveNode
  <2>2. CASE i \notin nodes /\ UNCHANGED vars
    BY <2>2 DEF vars
  <2> QED
    BY <2>1, <2>2 DEF FinishDelete
<1>3. Shown' = Shown \ {q}
  BY <1>1 DEF Shown
<1>4. \A t \in Shown' : t \in QNode /\ t # q /\ t \in Shown /\ shows'[t] = shows[t]
  BY <1>1, <1>3 DEF Shown
<1>5. \A t \in Shown' : shows'[t] \in nodes'
  <2> SUFFICES ASSUME NEW t \in Shown' PROVE shows[t] \in nodes /\ shows[t] # i
    BY <1>2, <1>4
  <2>1. shows[t] \in nodes /\ shows[t] # NoNode
    BY <1>4 DEF Shown
  <2>2. i # NoNode => q \in Shown
    BY DEF Shown
  <2> QED
    BY <1>4, <2>1, <2>2
<1>6. \A j \in nodes' : \E t \in QNode : shows'[t] = j
  <2> SUFFICES ASSUME NEW j \in nodes' PROVE \E t \in QNode : shows'[t] = j
    OBVIOUS
  <2>1. PICK t \in QNode : shows[t] = j
    BY <1>2
  <2> QED
    BY <1>1, <1>2, <2>1
<1>7. \A t, u \in Shown' : cons'[t][u] = edges'[shows'[t]][shows'[u]]
  BY <1>1, <1>2, <1>4
<1>8. \A t, u \in Shown' : shows'[t] = shows'[u] => t = u
  BY <1>4
<1> QED
  BY <1>5, <1>6, <1>7, <1>8

LEMMA StepFaithful ==
  ASSUME EInv, IInv', EditorNext, Faithful, ~Misleads
  PROVE  Faithful'
<1>1. SameView /\ unshown = {} /\ ~broken /\ ~broken'
  BY BreaksMisled DEF Faithful, SameView
<1>2. unshown' = {}
  BY <1>1 DEF Misleads
<1>3. SameView' => Faithful'
  BY <1>1, <1>2 DEF Faithful, SameView
<1>4. ASSUME NEW q \in QNode, NEW i \in Id, CreateNode(q, i) PROVE Faithful'
  BY <1>1, <1>3, <1>4, CreateFaithful
<1>5. ASSUME NEW q \in QNode, NEW r \in QNode, Link(q, r) PROVE Faithful'
  BY <1>1, <1>3, <1>5, LinkFaithful
<1>6. ASSUME NEW q \in QNode, NEW r \in QNode, Unlink(q, r) PROVE Faithful'
  BY <1>1, <1>3, <1>6, UnlinkFaithful DEF Misleads
<1>7. ASSUME NEW q \in QNode, BeginDelete(q) PROVE Faithful'
  BY <1>1, <1>3, <1>7 DEF BeginDelete, vars, view, SameView, Shown
<1>8. ASSUME NEW q \in QNode, FinishDelete(q) PROVE Faithful'
  BY <1>1, <1>3, <1>8, DeleteFaithful
<1>9. ASSUME NEW q \in QNode, Edit(q) PROVE Faithful'
  BY <1>1, <1>9 DEF Edit
<1>10. CASE SaveGraph
  BY <1>1, <1>3, <1>10 DEF SaveGraph, Save, view, SameView, Shown
<1>11. CASE ClearGraph
  BY <1>1, <1>3, <1>11 DEF ClearGraph, Clear, SameView, Shown
<1>12. CASE OpenGraph
  BY <1>1, <1>2, <1>12, DisplayFaithful, {} \in SUBSET QNode DEF OpenGraph, EInv, IInv
<1>13. CASE MergeGraph
  <2>1. nodes = {}
    BY <1>13 DEF Misleads
  <2>2. Shown = {}
    BY <1>1, <2>1 DEF SameView
  <2> QED
    BY <1>1, <1>2, <1>13, <2>2, DisplayFaithful DEF MergeGraph, EInv, IInv, Shown
<1>14. ASSUME NEW p \in Id, NEW c \in Id, Settle(p, c) PROVE Faithful'
  BY <1>1, <1>14 DEF Settle
<1> QED
  BY <1>4, <1>5, <1>6, <1>7, <1>8, <1>9, <1>10, <1>11, <1>12, <1>13, <1>14 DEF EditorNext

-----------------------------------------------------------------------------
(* The invariant holds of every behaviour of the editor. *)
THEOREM EditorInvariance == EditorSpec => []EInv
<1>1. EditorInit => EInv
  BY EditorInitInv
<1>2. EInv /\ [EditorNext]_evars => EInv'
  BY EditorNextInv
<1> QED
  BY <1>1, <1>2, PTL DEF EditorSpec

(* A slot of GraphModel is a step of Graph, or none: the editor implements
   the specification of Graph, with Graph's own variables as refinement.    *)
THEOREM EditorUsesGraph == EditorSpec => UsesGraph
<1>1. EditorInit => Init
  BY DEF EditorInit
<1>2. EInv /\ [EditorNext]_evars => [Next]_vars
  BY StepImplements
<1> QED
  BY <1>1, <1>2, EditorInvariance, PTL DEF EditorSpec, UsesGraph, Spec

(* What the editor keeps of its nodes and connections is well-formed. *)
THEOREM EditorTypeCorrect == EditorSpec => []EditorTypeOK
<1>1. EInv => EditorTypeOK
  BY DEF EInv
<1> QED
  BY <1>1, EditorInvariance, PTL

(* Nothing is executed that the editor does not show. *)
THEOREM EverythingShown == EditorSpec => []NothingHidden
<1>1. EInv => NothingHidden
  BY DEF EInv
<1> QED
  BY <1>1, EditorInvariance, PTL

(* Edited through the editor, the copies of the connections agree, isroot_
   is right and the graph stays acyclic.                                    *)
THEOREM EditedGraphIsSound == EditorSpec => [](Agreement /\ RootFlag /\ Acyclic)
<1>1. EInv => Agreement /\ RootFlag /\ Acyclic
  BY DEF EInv, IInv
<1> QED
  BY <1>1, EditorInvariance, PTL

(* The program comes to grief only if the view has gone wrong before. *)
THEOREM BrokenByMisleading == EditorSpec => BreaksOnlyMisled
<1>1. EInv /\ [EditorNext]_evars => [(broken' /\ ~broken) => ~Faithful]_evars
  BY BreaksMisled DEF evars, editing
<1> QED
  BY <1>1, EditorInvariance, PTL DEF EditorSpec, BreaksOnlyMisled

(* A view that shows the graph as it is stays so, but for the three edits
   that mislead (Misleads).                                                 *)
THEOREM ViewStaysFaithful == EditorSpec => StaysFaithful
<1>1. EInv /\ [EditorNext]_evars => [(Faithful /\ EditorNext /\ ~Misleads) => Faithful']_evars
  BY GraphInv, StepFaithful
<1> QED
  BY <1>1, EditorInvariance, PTL DEF EditorSpec, StaysFaithful
=============================================================================
