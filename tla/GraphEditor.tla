---------------------------- MODULE GraphEditor -----------------------------
(***************************************************************************)
(* The graph as the node editor shows it.  The editor, a library, has      *)
(* nodes and connections of its own and emits a signal for each that       *)
(* appears or disappears; GraphModel's slots repeat the change in Graph,   *)
(* and its load functions build the editor's nodes from those of Graph.    *)
(* Nothing but these slots keeps the two alike.  Several nodes of the      *)
(* editor may come to stand for one node of the graph.                     *)
(*                                                                         *)
(* A slot is a step of Graph together with what it does to the view.       *)
(* Deleting a node is one step per signal: its connections go first.       *)
(***************************************************************************)
EXTENDS Graph, Functions

CONSTANTS
  QNode,    \* QtNodes::NodeId
  NoNode,   \* stands for no node
  Ports     \* Ports[i]: the input ports of the nodes of i's type

ASSUME EditorAssumption ==
  /\ IsFiniteSet(Id) /\ IsFiniteSet(QNode)
  /\ NoNode \notin Id /\ NoNode \notin QNode
  /\ Ports \in [Id -> Nat \ {0}]

VARIABLES
  shows,    \* ChainModel::id_ (and nodeid2uuid_) of the editor's nodes
  cons,     \* cons[q][r]: how often output q is connected to ports of r
  doomed,   \* the node the editor is deleting
  unshown,  \* connections of a loaded graph that found no port
  broken    \* whether the program has crashed, or Graph kept a connection
            \* of a node it has removed; not followed further

view    == <<shows, cons>>
editing == <<doomed, unshown, broken>>
gvars   == <<nodes, edges, outs, ins, adj, isroot>>
evars   == <<vars, view, editing>>

NoCons == [q \in QNode |-> [r \in QNode |-> 0]]

EditorTypeOK ==
  /\ TypeOK
  /\ shows \in [QNode -> Id \cup {NoNode}]
  /\ cons \in [QNode -> [QNode -> Nat]]
  /\ doomed \in QNode \cup {NoNode}
  /\ unshown \in SUBSET (Id \X Id)
  /\ broken \in BOOLEAN

EditorInit ==
  /\ Init
  /\ shows = [q \in QNode |-> NoNode]
  /\ cons = NoCons
  /\ doomed = NoNode /\ unshown = {} /\ broken = FALSE

Shown == {q \in QNode : shows[q] # NoNode}
Used  == nodes \cup {shows[q] : q \in Shown} \cup file.nodes

Idle == doomed = NoNode /\ unshown = {} /\ ~broken

-----------------------------------------------------------------------------
(* Slots for changes made in the editor. *)

(* addDaisyNode: a node object with a new UUID. *)
CreateNode(q, i) ==
  /\ Idle
  /\ q \notin Shown /\ i \notin Used
  /\ AddNode(i)
  /\ shows' = [shows EXCEPT ![q] = i]
  /\ UNCHANGED <<cons, editing>>

(* The editor draws a connection only to a port that is free. *)
PortFree(r) == SumFunction([q \in QNode |-> cons[q][r]]) < Ports[shows[r]]

(* connectDaisyNode.  A connection that Connect refuses is deleted again in
   the editor, and the slot for that finds nothing left to disconnect.
   nodes_[id] is a null pointer for a node the graph does not have.         *)
Link(q, r) ==
  /\ Idle
  /\ q \in Shown /\ r \in Shown /\ PortFree(r)
  /\ \/ /\ ConnectAccepted(shows[q], shows[r])
        /\ cons' = Plus(cons, q, r)
        /\ UNCHANGED <<shows, editing>>
     \/ ConnectRefused(shows[q], shows[r]) /\ UNCHANGED <<view, editing>>
     \/ /\ {shows[q], shows[r]} \ nodes # {}
        /\ broken' = TRUE
        /\ UNCHANGED <<vars, view, doomed, unshown>>

(* Mutant: the signal that a connection is gone reaches nobody. *)
DisconnectSlot_Lost(p, c) == UNCHANGED vars

(* disconnectDaisyNode: Disconnect, which passes over what is not there. *)
DisconnectSlot(p, c) ==
  \/ Disconnect(p, c)
  \/ edges[p][c] = 0 /\ UNCHANGED vars

Unlink(q, r) ==
  /\ unshown = {} /\ ~broken
  /\ doomed \in {NoNode, q, r}
  /\ cons[q][r] > 0
  /\ cons' = [cons EXCEPT ![q][r] = @ - 1]
  /\ DisconnectSlot(shows[q], shows[r])
  /\ UNCHANGED <<shows, editing>>

BeginDelete(q) ==
  /\ Idle
  /\ q \in Shown
  /\ doomed' = q
  /\ UNCHANGED <<vars, view, unshown, broken>>

(* Mutant: the editor does not wait for the connections to be gone. *)
Disconnected_Not(q) == TRUE

(* The library deletes the connections of a node before the node. *)
Disconnected(q) == \A r \in QNode : cons[q][r] = 0 /\ cons[r][q] = 0

(* removeDaisyNode.  If the same node of the graph is connected elsewhere in
   the editor, edges_ still leads to the node that is gone.                 *)
FinishDelete(q) ==
  LET i == shows[q] IN
  /\ doomed = q /\ ~broken
  /\ Disconnected(q)
  /\ \/ RemoveNode(i) /\ UNCHANGED broken
     \/ i \notin nodes /\ UNCHANGED <<vars, broken>>
     \/ i \in nodes /\ (\E j \in Id : edges[i][j] + edges[j][i] > 0)
          /\ broken' = TRUE /\ UNCHANGED vars
  /\ shows' = [shows EXCEPT ![q] = NoNode]
  /\ cons' = [r \in QNode |-> IF r = q THEN [t \in QNode |-> 0] ELSE [cons[r] EXCEPT ![q] = 0]]
  /\ doomed' = NoNode
  /\ UNCHANGED unshown

(* updateDaisyNode and the like: nodes().at (id) throws out_of_range. *)
Edit(q) ==
  /\ Idle
  /\ q \in Shown /\ shows[q] \notin nodes
  /\ broken' = TRUE
  /\ UNCHANGED <<vars, view, doomed, unshown>>

-----------------------------------------------------------------------------
(* Slots of the window: save, clear, open, and the import of a graph that is
   dropped or pasted.                                                       *)

SaveGraph == Idle /\ Save /\ UNCHANGED <<view, editing>>

ClearGraph ==
  /\ Idle
  /\ Clear
  /\ shows' = [q \in QNode |-> NoNode]
  /\ cons' = NoCons
  /\ UNCHANGED editing

(* The connections of E to nodes that do not have a port for each. *)
Crowded(E) == {e \in Id \X Id : E[e[1]][e[2]] > 0
                 /\ SumFunction([p \in Id |-> E[p][e[2]]]) > Ports[e[2]]}

(* The connections in lost do not, or not all, find a port: some[e] of e's
   copies do.  The ports go to the first connections in inputs_.            *)
FirstServed(E, lost, some) ==
  /\ \A e \in lost : some[e] < E[e[1]][e[2]]
  /\ \A c \in {e[2] : e \in Crowded(E)} :
       SumFunction([p \in Id |-> IF <<p, c>> \in lost THEN some[<<p, c>>] ELSE E[p][c]])
         = Ports[c]

(* Mutant: createNodeFromNode skips the nodes that nobody is connected to. *)
ToShow_Connected == {i \in nodes' : \E j \in Id : edges'[i][j] + edges'[j][i] > 0}

(* createNodeFromNode is called for every node of the graph. *)
ToShow == nodes'

(* The rest of loadGraph and loadGraphJSON, after Parse: a new node in the
   editor for EVERY node of the graph, beside the nodes in kept, and the
   connections between the new ones.                                        *)
Display(kept) ==
  \E f \in Injection(ToShow, QNode \ kept), lost \in SUBSET Crowded(edges') :
  \E some \in [lost -> 0..MaxParallel] :
    LET id(q) == CHOOSE i \in ToShow : f[i] = q
        new   == Range(f)
        copies(p, c) == IF <<p, c>> \in lost THEN some[<<p, c>>] ELSE edges'[p][c]
    IN
    /\ FirstServed(edges', lost, some)
    /\ shows' = [q \in QNode |-> IF q \in new THEN id(q)
                                 ELSE IF q \in kept THEN shows[q] ELSE NoNode]
    /\ cons' = [q \in QNode |-> [r \in QNode |->
                  IF q \in new /\ r \in new THEN copies(id(q), id(r))
                  ELSE IF q \in kept /\ r \in kept THEN cons[q][r] ELSE 0]]
    /\ unshown' = lost
    /\ UNCHANGED <<doomed, broken>>

OpenGraph  == Idle /\ Load /\ Display({})

MergeGraph == Idle /\ file.nodes # {} /\ Import /\ Display(Shown)

(* A connection that is not shown is disconnected inside the loop over
   edges_; the loop then goes on from a list node that has been freed.      *)
Settle(p, c) ==
  /\ <<p, c>> \in unshown /\ ~broken
  /\ DisconnectSlot(p, c)
  /\ unshown' = unshown \ {<<p, c>>}
  /\ broken' \in BOOLEAN
  /\ UNCHANGED <<view, doomed>>

EditorNext ==
  \/ \E q \in QNode, i \in Id : CreateNode(q, i)
  \/ \E q, r \in QNode : Link(q, r) \/ Unlink(q, r)
  \/ \E q \in QNode : BeginDelete(q) \/ FinishDelete(q) \/ Edit(q)
  \/ SaveGraph \/ ClearGraph \/ OpenGraph \/ MergeGraph
  \/ \E p, c \in Id : Settle(p, c)

EditorSpec == EditorInit /\ [][EditorNext]_evars

-----------------------------------------------------------------------------
(* The editor drives Graph only as Graph expects to be driven: every slot is
   a step of Graph or leaves it alone, until the program is broken.         *)
UsesGraph == Spec

(* Nothing is executed that cannot be seen: every node of the graph, and
   every connection, is shown somewhere in the editor.                      *)
NothingHidden ==
  /\ \A i \in nodes : \E q \in QNode : shows[q] = i
  /\ \A p, c \in Id : edges[p][c] > 0 =>
       \/ <<p, c>> \in unshown
       \/ \E q, r \in QNode : shows[q] = p /\ shows[r] = c /\ cons[q][r] > 0

(* The editor shows the graph: each node once, each connection as often as
   Graph has it.                                                            *)
Faithful ==
  /\ unshown = {} /\ ~broken
  /\ \A q \in Shown : shows[q] \in nodes
  /\ \A i \in nodes : \E q \in QNode : shows[q] = i
  /\ \A q, r \in Shown : shows[q] = shows[r] => q = r
  /\ \A q, r \in Shown : cons[q][r] = edges[shows[q]][shows[r]]

(* A faithful view stays so through every edit and every load but three: the
   deletion of one of several connections between the same two nodes (after
   which Graph has none), an import into a graph that is not empty, and the
   loading of a graph with more connections than ports.                     *)
Misleads ==
  \/ \E q, r \in QNode : cons[q][r] > 1 /\ Unlink(q, r)
  \/ MergeGraph /\ nodes # {}
  \/ unshown = {} /\ unshown' # {}

StaysFaithful ==
  [][(Faithful /\ EditorNext /\ ~Misleads) => Faithful']_evars

(* The program does not come to grief as long as the view is faithful. *)
BreaksOnlyMisled ==
  [][(broken' /\ ~broken) => ~Faithful]_evars
=============================================================================
