------------------------ MODULE GraphAlgorithmsProofs -----------------------
(***************************************************************************)
(* The depth-first searches of Graph are right, for every set of nodes and *)
(* every history of connections.                                           *)
(*                                                                         *)
(* Both walk alike: what is on the path was visited, each vertex of it is  *)
(* a neighbour of the one before, and what has been visited and left       *)
(* (Finished) leads only to what has been left.  A back edge of the path   *)
(* closes a cycle; and no cycle lies within what has been left, since the  *)
(* last vertex of it to be left would have led to one still on the path.   *)
(***************************************************************************)
EXTENDS GraphAlgorithms, SequenceTheorems, FiniteSetTheorems, TLAPS

Finished == visited \ Range(path)

Leads(g, v, w) == Contains(g[v], w)

WalkOK ==
  /\ \A i, j \in 1..Len(path) : path[i] = path[j] => i = j
  /\ \A i \in 1..Len(path) - 1 :
       /\ at[path[i]] \in 1..Len(adj[path[i]])
       /\ adj[path[i]][at[path[i]]] = path[i + 1]
  /\ Range(path) \subseteq visited
  /\ \A v \in visited : \A j \in 1..Len(adj[v]) :
       j < at[v] \/ v \notin Range(path) => adj[v][j] \in Finished

(* Nodes of S that each lead to one of S. *)
Circular(g, S) == S # {} /\ \A v \in S : \E w \in S : Leads(g, v, w)

(* The loop over the vertices leaves none out. *)
LoopOK == op \in {"cycle", "sort"} => Ids \subseteq todo \cup visited

CycleOK ==
  op = "cycle" =>
    /\ stacked = Range(path)
    /\ \A S \in SUBSET Finished : ~Circular(adj, S)
    /\ found => Cyclic(adj)

(* What the connection was added to had no cycle. *)
BeforeOK ==
  op = "cycle" =>
    /\ edge # <<>>
    /\ \A S \in SUBSET Ids : S # {} =>
         \E v \in S : \A w \in S : Leads(adj, v, w) => v = edge[1] /\ w = edge[2]

SortOK ==
  op = "sort" =>
    /\ Range(pushed) = Finished
    /\ \A i, j \in 1..Len(pushed) : pushed[i] = pushed[j] => i = j
    /\ \A i \in 1..Len(pushed) : \A w \in Ids :
         Leads(adj, pushed[i], w) => \E j \in 1..i - 1 : pushed[j] = w

NoCycle == op # "cycle" => ~Cyclic(adj)

IdleOK == op \in {"idle", "execute"} => path = <<>> /\ visited = {}

Inv == TypeOK /\ WalkOK /\ IdleOK /\ LoopOK /\ CycleOK /\ BeforeOK /\ SortOK /\ NoCycle /\ ParentsFirst

-----------------------------------------------------------------------------
(* Sequences. *)

LEMMA RangeOf ==
  ASSUME NEW S, NEW s \in Seq(S)
  PROVE  /\ Len(s) \in Nat /\ DOMAIN s = 1..Len(s)
         /\ Range(s) = {s[i] : i \in 1..Len(s)} /\ Range(s) \subseteq S
BY DEF Range

LEMMA AppendTo ==
  ASSUME NEW S, NEW s \in Seq(S), NEW v \in S
  PROVE  /\ Append(s, v) \in Seq(S) /\ Len(Append(s, v)) = Len(s) + 1
         /\ Append(s, v)[Len(s) + 1] = v
         /\ \A i \in 1..Len(s) : Append(s, v)[i] = s[i]
         /\ Range(Append(s, v)) = Range(s) \cup {v}
         /\ Append(s, v) # <<>> /\ Last(Append(s, v)) = v
<1> DEFINE t == Append(s, v)   n == Len(s)
<1>1. /\ t \in Seq(S) /\ Len(t) = n + 1 /\ n \in Nat /\ t[n + 1] = v /\ \A i \in 1..n : t[i] = s[i]
      /\ t # <<>>
  BY AppendProperties
<1>2. Range(t) = {t[i] : i \in 1..Len(t)} /\ Range(s) = {s[i] : i \in 1..n}
  BY <1>1, RangeOf
<1>3. Last(t) = v
  BY <1>1 DEF Last
<1> HIDE DEF t, n
<1>4. Range(t) = Range(s) \cup {v}
  BY <1>1, <1>2
<1> QED
  BY <1>1, <1>3, <1>4 DEF t, n

LEMMA FrontOf ==
  ASSUME NEW S, NEW s \in Seq(S), s # <<>>
  PROVE  /\ Len(s) \in Nat \ {0} /\ Last(s) = s[Len(s)] /\ Last(s) \in Range(s)
         /\ Front(s) \in Seq(S) /\ Len(Front(s)) = Len(s) - 1
         /\ \A i \in 1..Len(s) - 1 : Front(s)[i] = s[i]
         /\ Range(s) = Range(Front(s)) \cup {Last(s)}
         /\ Front(s) # <<>> => Len(s) > 1 /\ Last(Front(s)) = s[Len(s) - 1]
<1> DEFINE t == Front(s)   n == Len(s)
<1>1. n \in Nat \ {0} /\ \A i \in 1..n : s[i] \in S
  BY EmptySeq
<1>2. t \in Seq(S) /\ Len(t) = n - 1 /\ \A i \in 1..n - 1 : t[i] = s[i]
  <2>1. t = SubSeq(s, 1, n - 1)
    BY DEF Front
  <2>2. 1 \in Int /\ n - 1 \in Int /\ \A i \in 1..n - 1 : s[i] \in S
    BY <1>1
  <2>3. /\ SubSeq(s, 1, n - 1) \in Seq(S)
        /\ Len(SubSeq(s, 1, n - 1)) = IF 1 <= n - 1 THEN n - 1 - 1 + 1 ELSE 0
        /\ \A i \in 1..n - 1 - 1 + 1 : SubSeq(s, 1, n - 1)[i] = s[1 + i - 1]
    BY <2>2, SubSeqProperties
  <2> HIDE DEF t, n
  <2> QED
    BY <1>1, <2>1, <2>3
<1>3. Last(s) = s[n] /\ Last(t) = t[Len(t)]
  BY DEF Last
<1>4. t # <<>> => Len(t) \in Nat \ {0}
  BY <1>2, EmptySeq
<1>5. Range(t) = {t[i] : i \in 1..Len(t)} /\ Range(s) = {s[i] : i \in 1..n}
  BY <1>2, RangeOf
<1> HIDE DEF t, n
<1>6. Range(s) = Range(t) \cup {s[n]} /\ s[n] \in Range(s)
  BY <1>1, <1>2, <1>5
<1> QED
  BY <1>1, <1>2, <1>3, <1>4, <1>6 DEF t, n

-----------------------------------------------------------------------------
(* Cycles. *)

LEMMA CyclicDef ==
  ASSUME NEW g
  PROVE  Cyclic(g) <=> \E S \in SUBSET Ids : Circular(g, S)
BY DEF Cyclic, Circular, Leads

(* A vertex on the path to which its top leads closes a cycle. *)
LEMMA BackEdge ==
  ASSUME TypeOK, WalkOK, path # <<>>, NEW w \in Range(path), Leads(adj, Top, w)
  PROVE  Cyclic(adj)
<1> DEFINE S == Range(path)   n == Len(path)
<1>1. path \in Seq(Ids) /\ S \in SUBSET Ids /\ S = {path[i] : i \in 1..n} /\ n \in Nat
  BY RangeOf DEF TypeOK
<1>2. Top = path[n] /\ n # 0
  BY <1>1, FrontOf DEF Top
<1>3. ASSUME NEW v \in S PROVE \E u \in S : Leads(adj, v, u)
  <2>1. PICK i \in 1..n : path[i] = v
    BY <1>1
  <2>2. CASE i = n
    BY <1>2, <2>1, <2>2
  <2>3. CASE i # n
    <3>1. i \in 1..n - 1 /\ i + 1 \in 1..n
      BY <1>1, <2>3
    <3>2. at[v] \in 1..Len(adj[v]) /\ adj[v][at[v]] = path[i + 1]
      BY <2>1, <3>1 DEF WalkOK
    <3>3. path[i + 1] \in S
      BY <1>1, <3>1
    <3> QED
      BY <3>2, <3>3 DEF Leads, Contains
  <2> QED
    BY <2>2, <2>3
<1> QED
  BY <1>1, <1>3, CyclicDef DEF Circular

(* A cycle needs a vertex that leads to one which was not left before it. *)
LEMMA LeaveOne ==
  ASSUME NEW g, NEW F, NEW v, v \notin F,
         \A S \in SUBSET F : ~Circular(g, S),
         \A u \in F \cup {v} : \A w : Leads(g, u, w) => w \in F
  PROVE  \A S \in SUBSET (F \cup {v}) : ~Circular(g, S)
<1> SUFFICES ASSUME NEW S \in SUBSET (F \cup {v}), Circular(g, S) PROVE FALSE
  OBVIOUS
<1>1. Circular(g, S \ {v})
  <2>1. \A u \in S : \E w \in S \ {v} : Leads(g, u, w)
    BY DEF Circular
  <2> QED
    BY <2>1 DEF Circular
<1>2. S \ {v} \in SUBSET F
  OBVIOUS
<1> QED
  BY <1>1, <1>2

-----------------------------------------------------------------------------
(* The walk. *)

LEMMA CallOK ==
  ASSUME TypeOK, WalkOK, NEW v \in Ids, v \notin visited,
         path = <<>> \/ (More /\ v = Neighbor),
         Call(v), adj' = adj
  PROVE  /\ WalkOK' /\ Finished' = Finished /\ Range(path') = Range(path) \cup {v}
         /\ path' \in Seq(Ids) /\ at' \in [Ids -> Nat \ {0}]
         /\ visited' = visited \cup {v} /\ visited' \in SUBSET Ids
<1> DEFINE n == Len(path)
<1>1. /\ path \in Seq(Ids) /\ n \in Nat /\ Range(path) = {path[i] : i \in 1..n}
      /\ Range(path) \subseteq visited /\ at \in [Ids -> Nat \ {0}]
  BY RangeOf DEF TypeOK, WalkOK
<1>2. /\ path' \in Seq(Ids) /\ Len(path') = n + 1 /\ path'[n + 1] = v
      /\ \A i \in 1..n : path'[i] = path[i]
      /\ Range(path') = Range(path) \cup {v}
  BY <1>1, AppendTo DEF Call
<1>3. visited' = visited \cup {v} /\ at' = [at EXCEPT ![v] = 1] /\ visited' \in SUBSET Ids
  BY DEF Call, TypeOK
<1>4. v \notin Range(path) /\ \A i \in 1..n : path[i] # v
  BY <1>1
<1>5. Finished' = Finished
  BY <1>1, <1>2, <1>3, <1>4 DEF Finished
<1>6. \A u \in Ids : u # v => at'[u] = at[u]
  BY <1>1, <1>3
<1>7. at'[v] = 1
  BY <1>1, <1>3
<1> HIDE DEF n
<1>8. \A i, j \in 1..Len(path') : path'[i] = path'[j] => i = j
  <2> SUFFICES ASSUME NEW i \in 1..n + 1, NEW j \in 1..n + 1, path'[i] = path'[j] PROVE i = j
    BY <1>2
  <2>1. CASE i \in 1..n /\ j \in 1..n
    BY <1>2, <2>1 DEF WalkOK, n
  <2>2. CASE i = n + 1 \/ j = n + 1
    BY <1>1, <1>2, <1>4, <2>2
  <2> QED
    BY <1>1, <2>1, <2>2
<1>9. ASSUME NEW i \in 1..Len(path') - 1
      PROVE  /\ at'[path'[i]] \in 1..Len(adj'[path'[i]])
             /\ adj'[path'[i]][at'[path'[i]]] = path'[i + 1]
  <2>1. i \in 1..n /\ path'[i] = path[i] /\ path[i] # v /\ path[i] \in Ids
    <3>1. i \in 1..n
      BY <1>1, <1>2, <1>9
    <3>2. path[i] \in Ids
      BY <1>1, <3>1 DEF n
    <3> QED
      BY <1>2, <1>4, <3>1, <3>2
  <2>2. at'[path'[i]] = at[path[i]] /\ adj'[path'[i]] = adj[path[i]]
    BY <1>6, <2>1
  <2>3. CASE i = n
    <3>0. path # <<>>
      BY <1>1, <2>1, <2>3 DEF n
    <3>1. path # <<>> /\ Top = path[n]
      BY <1>1, <3>0, FrontOf DEF Top, n
    <3>2. /\ More /\ v = Neighbor /\ at[Top] \in Nat \ {0} /\ Len(adj[Top]) \in Nat
      BY <1>1, <2>1, <2>3, <3>1 DEF TypeOK
    <3> QED
      BY <1>2, <2>1, <2>2, <2>3, <3>1, <3>2 DEF More, Neighbor
  <2>4. CASE i # n
    <3>1. i \in 1..n - 1 /\ i + 1 \in 1..n
      BY <1>1, <2>1, <2>4
    <3> QED
      BY <1>2, <2>1, <2>2, <3>1 DEF WalkOK, n
  <2> QED
    BY <2>3, <2>4
<1>10. Range(path') \subseteq visited'
  BY <1>1, <1>2, <1>3
<1>11. ASSUME NEW u \in visited', NEW j \in 1..Len(adj'[u]), j < at'[u] \/ u \notin Range(path')
       PROVE  adj'[u][j] \in Finished'
  <2>1. CASE u = v
    BY <1>2, <1>7, <1>11, <2>1
  <2>2. CASE u # v
    <3>1. u \in visited /\ u \in Ids
      BY <1>3, <2>2
    <3>2. j < at[u] \/ u \notin Range(path)
      BY <1>2, <1>6, <1>11, <2>2, <3>1
    <3> QED
      BY <1>5, <3>1, <3>2 DEF WalkOK
  <2> QED
    BY <2>1, <2>2
<1>12. at' \in [Ids -> Nat \ {0}]
  BY <1>1, <1>3
<1>13. WalkOK'
  BY <1>8, <1>9, <1>10, <1>11 DEF WalkOK
<1> QED
  BY <1>2, <1>3, <1>5, <1>12, <1>13

(* The neighbour was visited and has been left. *)
LEMMA AdvanceOK ==
  ASSUME TypeOK, WalkOK, path = <<>> \/ (More /\ Neighbor \in Finished),
         Advance(path), UNCHANGED <<adj, path, visited>>
  PROVE  WalkOK' /\ Finished' = Finished /\ at' \in [Ids -> Nat \ {0}]
<1>1. Finished' = Finished
  BY DEF Finished
<1>2. CASE path = <<>>
  <2>1. at' = at
    BY <1>2 DEF Advance
  <2> QED
    BY <1>1, <2>1 DEF WalkOK, TypeOK
<1>3. CASE path # <<>>
  <2> DEFINE n == Len(path)
  <2>1. /\ path \in Seq(Ids) /\ n \in Nat \ {0} /\ Top = path[n] /\ Top \in Range(path)
        /\ Range(path) \subseteq Ids /\ at \in [Ids -> Nat \ {0}]
    BY <1>3, FrontOf, RangeOf DEF TypeOK, Top
  <2>2. at' = [at EXCEPT ![Top] = @ + 1]
    BY <1>3 DEF Advance, Top
  <2>3. /\ at' \in [Ids -> Nat \ {0}] /\ at'[Top] = at[Top] + 1
        /\ \A u \in Ids : u # Top => at'[u] = at[u]
    BY <2>1, <2>2
  <2>4. \A i \in 1..n - 1 : path[i] # Top /\ path[i] \in Ids
    BY <2>1 DEF WalkOK
  <2>5. \A i \in 1..n - 1 :
          /\ at'[path[i]] \in 1..Len(adj[path[i]])
          /\ adj[path[i]][at'[path[i]]] = path[i + 1]
    BY <2>3, <2>4 DEF WalkOK
  <2>6. ASSUME NEW u \in visited, NEW j \in 1..Len(adj[u]), j < at'[u] \/ u \notin Range(path)
        PROVE  adj[u][j] \in Finished
    <3>1. CASE u = Top /\ j = at[Top]
      BY <1>3, <3>1 DEF Neighbor
    <3>2. CASE u # Top \/ j # at[Top]
      <4>1. u \in Ids /\ at[u] \in Nat
        BY <2>1 DEF TypeOK
      <4>2. j < at[u] \/ u \notin Range(path)
        BY <2>1, <2>3, <2>6, <3>2, <4>1
      <4> QED
        BY <4>2 DEF WalkOK
    <3> QED
      BY <3>1, <3>2
  <2> QED
    BY <1>1, <2>3, <2>5, <2>6 DEF WalkOK
<1> QED
  BY <1>2, <1>3

(* A vertex is left when all its neighbours have been. *)
LEMMA ReturnOK ==
  ASSUME TypeOK, WalkOK, Done, Return, adj' = adj
  PROVE  /\ WalkOK' /\ Range(path') = Range(path) \ {Top}
         /\ Finished' = Finished \cup {Top} /\ Top \in Range(path) /\ Top \in Ids
         /\ \A w : Leads(adj, Top, w) => w \in Finished
         /\ path' \in Seq(Ids) /\ at' \in [Ids -> Nat \ {0}] /\ visited' = visited
<1> DEFINE n == Len(path)
<1>1. /\ path # <<>> /\ path' = Front(path) /\ visited' = visited
      /\ at' = IF path' = <<>> THEN at ELSE [at EXCEPT ![Last(path')] = @ + 1]
  BY DEF Done, Return, Advance
<1>2. /\ path \in Seq(Ids) /\ n \in Nat \ {0} /\ Top = path[n] /\ Top \in Range(path)
      /\ path' \in Seq(Ids) /\ Len(path') = n - 1 /\ \A i \in 1..n - 1 : path'[i] = path[i]
      /\ Range(path) = Range(path') \cup {Top}
      /\ path' # <<>> => n > 1 /\ Last(path') = path[n - 1]
  BY <1>1, FrontOf DEF TypeOK, Top
<1>3. /\ Range(path) \subseteq Ids /\ at \in [Ids -> Nat \ {0}]
      /\ Range(path') = {path'[i] : i \in 1..n - 1}
      /\ Range(path) \subseteq visited
  <2>1. Range(path) \subseteq Ids
    BY <1>2, RangeOf
  <2>2. Range(path') = {path'[i] : i \in 1..Len(path')}
    BY <1>2, RangeOf
  <2> QED
    BY <1>2, <2>1, <2>2 DEF TypeOK, WalkOK
<1>15. /\ \A i, j \in 1..n : path[i] = path[j] => i = j
       /\ \A i \in 1..n : path[i] \in Ids
       /\ \A i \in 1..n - 1 : i \in 1..n
  <2>1. \A i, j \in 1..n : path[i] = path[j] => i = j
    BY DEF WalkOK
  <2>2. \A i \in 1..n : path[i] \in Ids
    BY <1>2
  <2>3. \A i \in 1..n - 1 : i \in 1..n
    BY <1>2
  <2> QED
    BY <2>1, <2>2, <2>3
<1> HIDE DEF n
<1>4. Top \notin Range(path')
  <2>1. ASSUME NEW i \in 1..n - 1 PROVE path'[i] # Top
    <3>1. i \in 1..n /\ n \in 1..n /\ i # n
      BY <1>2
    <3>2. path[i] # path[n]
      BY <1>15, <3>1
    <3> QED
      BY <1>2, <3>2
  <2> QED
    BY <1>3, <2>1
<1>5. Range(path') = Range(path) \ {Top} /\ Finished' = Finished \cup {Top}
  BY <1>1, <1>2, <1>3, <1>4 DEF Finished
<1>6. ASSUME NEW j \in 1..Len(adj[Top]) PROVE adj[Top][j] \in Finished
  <2>1. Len(adj[Top]) \in Nat /\ at[Top] \in Nat /\ at[Top] > Len(adj[Top])
    BY <1>2, <1>3 DEF Done, TypeOK
  <2>2. j < at[Top] /\ Top \in visited
    BY <1>2, <1>3, <2>1
  <2> QED
    BY <2>2 DEF WalkOK
<1>7. \A u \in Ids : at'[u] \in {at[u], at[u] + 1}
      /\ (at'[u] # at[u] => path' # <<>> /\ u = path[n - 1])
  BY <1>1, <1>2, <1>3
<1>8. at' \in [Ids -> Nat \ {0}]
  BY <1>1, <1>2, <1>3
<1>9. \A i, j \in 1..Len(path') : path'[i] = path'[j] => i = j
  <2> SUFFICES ASSUME NEW i \in 1..n - 1, NEW j \in 1..n - 1, path'[i] = path'[j] PROVE i = j
    BY <1>2
  <2>1. path[i] = path[j] /\ i \in 1..n /\ j \in 1..n
    BY <1>2, <1>15
  <2> QED
    BY <1>15, <2>1
<1>10. ASSUME NEW i \in 1..Len(path') - 1
       PROVE  /\ at'[path'[i]] \in 1..Len(adj'[path'[i]])
              /\ adj'[path'[i]][at'[path'[i]]] = path'[i + 1]
  <2>1. i \in 1..n - 2 /\ i + 1 \in 1..n - 1 /\ i \in 1..n - 1 /\ i # n - 1 /\ n - 1 \in 1..n
    BY <1>2, <1>10
  <2>2. path[i] # path[n - 1] /\ path[i] \in Ids /\ i \in 1..n
    BY <1>15, <2>1
  <2>3. at'[path[i]] = at[path[i]]
    BY <1>7, <2>2
  <2> QED
    BY <1>2, <2>1, <2>3 DEF WalkOK, n
<1>11. Range(path') \subseteq visited'
  BY <1>1, <1>3, <1>5
<1>12. ASSUME NEW u \in visited', NEW j \in 1..Len(adj'[u]), j < at'[u] \/ u \notin Range(path')
       PROVE  adj'[u][j] \in Finished'
  <2>1. u \in visited /\ u \in Ids /\ at[u] \in Nat
    BY <1>1, <1>3 DEF TypeOK
  <2>2. CASE j < at[u] \/ u \notin Range(path)
    BY <1>5, <2>1, <2>2 DEF WalkOK
  <2>3. CASE u = Top
    BY <1>5, <1>6, <2>3
  <2>4. CASE u # Top /\ u \in Range(path) /\ ~(j < at[u])
    <3>1. u \in Range(path')
      BY <1>5, <2>4
    <3>2. at'[u] = at[u] + 1 /\ path' # <<>> /\ u = path[n - 1] /\ j = at[u]
      BY <1>7, <1>12, <2>1, <2>4, <3>1
    <3>3. n - 1 \in 1..Len(path) - 1
      BY <1>2, <3>2 DEF n
    <3>4. adj[u][j] = path[n]
      BY <1>2, <3>2, <3>3 DEF WalkOK
    <3> QED
      BY <1>2, <1>5, <3>4
  <2> QED
    BY <2>2, <2>3, <2>4
<1>13. WalkOK'
  BY <1>9, <1>10, <1>11, <1>12 DEF WalkOK
<1>14. \A w : Leads(adj, Top, w) => w \in Finished
  BY <1>6 DEF Leads, Contains
<1> QED
  BY <1>1, <1>2, <1>3, <1>5, <1>8, <1>13, <1>14

LEMMA FreshOK ==
  ASSUME Fresh
  PROVE  /\ WalkOK' /\ path' = <<>> /\ visited' = {} /\ Finished' = {}
         /\ path' \in Seq(Ids) /\ at' \in [Ids -> Nat \ {0}] /\ visited' \in SUBSET Ids
         /\ stacked' = {} /\ Range(path') = {} /\ found' = FALSE /\ pushed' = <<>>
<1>1. /\ path' = <<>> /\ at' = [v \in Ids |-> 1] /\ visited' = {}
      /\ stacked' = {} /\ found' = FALSE /\ pushed' = <<>>
  BY DEF Fresh
<1>2. path' \in Seq(Ids) /\ Len(path') = 0 /\ Range(path') = {}
  BY <1>1 DEF Range
<1>3. Finished' = {}
  BY <1>1 DEF Finished
<1>4. WalkOK'
  BY <1>1, <1>2 DEF WalkOK
<1> QED
  BY <1>1, <1>2, <1>3, <1>4

(* Connections are only taken away, the given one altogether. *)
LEMMA RemovedOK ==
  ASSUME TypeOK, NEW p \in Ids, NEW c \in Ids, Removed(p, c)
  PROVE  /\ adj' \in [Ids -> Seq(Ids)]
         /\ \A v \in Ids : \A w : Leads(adj', v, w) => Leads(adj, v, w)
         /\ ~Leads(adj', p, c)
<1> DEFINE kept == {i \in DOMAIN adj[p] : adj[p][i] # c}
<1>0. PICK k \in 0..Len(adj[p]) : \E s \in [1..k -> kept] :
        adj' = [adj EXCEPT ![p] = [i \in 1..k |-> adj[p][s[i]]]]
  BY DEF Removed
<1>1. PICK s \in [1..k -> kept] : adj' = [adj EXCEPT ![p] = [i \in 1..k |-> adj[p][s[i]]]]
  BY <1>0
<1>2. adj \in [Ids -> Seq(Ids)] /\ k \in Nat /\ DOMAIN adj[p] = 1..Len(adj[p])
  BY DEF TypeOK
<1>3. \A i \in 1..k : s[i] \in 1..Len(adj[p]) /\ adj[p][s[i]] # c /\ adj[p][s[i]] \in Ids
  BY <1>2
<1> DEFINE t == [i \in 1..k |-> adj[p][s[i]]]
<1>4. t \in Seq(Ids) /\ Len(t) = k /\ \A i \in 1..k : t[i] = adj[p][s[i]]
  BY <1>2, <1>3
<1> HIDE DEF t, kept
<1>5. adj' = [adj EXCEPT ![p] = t]
  BY <1>1 DEF t
<1>6. adj' \in [Ids -> Seq(Ids)] /\ adj'[p] = t /\ \A v \in Ids : v # p => adj'[v] = adj[v]
  BY <1>2, <1>4, <1>5
<1>7. \A w : Leads(adj', p, w) => Leads(adj, p, w) /\ w # c
  <2> SUFFICES ASSUME NEW w, Leads(adj', p, w) PROVE Leads(adj, p, w) /\ w # c
    OBVIOUS
  <2>1. PICK i \in 1..k : t[i] = w
    BY <1>4, <1>6 DEF Leads, Contains
  <2> QED
    BY <1>3, <1>4, <2>1 DEF Leads, Contains
<1>8. \A v \in Ids : \A w : v # p /\ Leads(adj', v, w) => Leads(adj, v, w)
  BY <1>6 DEF Leads
<1> QED
  BY <1>6, <1>7, <1>8

LEMMA FewerLeads ==
  ASSUME NEW g, NEW h, ~Cyclic(g), \A v \in Ids : \A w : Leads(h, v, w) => Leads(g, v, w)
  PROVE  ~Cyclic(h)
<1> SUFFICES ASSUME NEW S \in SUBSET Ids, Circular(h, S) PROVE Circular(g, S)
  BY CyclicDef
<1> QED
  BY DEF Circular

(* When the search is over, it has found a cycle or there is none. *)
LEMMA Decides ==
  ASSUME Inv
  PROVE  DetectsExactly
<1> SUFFICES ASSUME op = "cycle", CycleOver, ~found PROVE ~Cyclic(adj)
  BY DEF DetectsExactly, Inv, CycleOK
<1>1. path = <<>> /\ Ids \subseteq visited /\ TypeOK
  BY DEF CycleOver, Inv, LoopOK
<1>2. Range(path) = {}
  BY <1>1 DEF Range
<1>3. Ids \subseteq Finished
  BY <1>1, <1>2 DEF Finished
<1> QED
  BY <1>3, CyclicDef DEF Inv, CycleOK

-----------------------------------------------------------------------------
(* One lemma for each action. *)

LEMMA ConnectOK ==
  ASSUME Inv, NEW p \in Ids, NEW c \in Ids, Connect(p, c)
  PROVE  Inv'
<1>1. /\ op = "idle" /\ op' = "cycle" /\ todo' = Ids /\ edge' = <<p, c>> /\ ordered' = ordered
      /\ adj' = [adj EXCEPT ![p] = Append(@, c)] /\ Fresh
      /\ TypeOK /\ ~Cyclic(adj)
  BY DEF Inv, Connect, NoCycle
<1>2. /\ adj \in [Ids -> Seq(Ids)] /\ adj' \in [Ids -> Seq(Ids)] /\ adj'[p] = Append(adj[p], c)
      /\ \A v \in Ids : v # p => adj'[v] = adj[v]
  <2>1. adj \in [Ids -> Seq(Ids)]
    BY <1>1 DEF TypeOK
  <2>2. Append(adj[p], c) \in Seq(Ids)
    BY <2>1, AppendTo
  <2> QED
    BY <1>1, <2>1, <2>2
<1>3. \A v \in Ids : \A w : Leads(adj', v, w) => Leads(adj, v, w) \/ (v = p /\ w = c)
  <2> SUFFICES ASSUME NEW w, Leads(adj', p, w), w # c PROVE Leads(adj, p, w)
    BY <1>2 DEF Leads
  <2>1. Len(adj[p]) \in Nat /\ Len(adj'[p]) = Len(adj[p]) + 1 /\ adj'[p][Len(adj[p]) + 1] = c
        /\ \A i \in 1..Len(adj[p]) : adj'[p][i] = adj[p][i]
    BY <1>2, AppendTo, RangeOf
  <2>2. PICK i \in 1..Len(adj'[p]) : adj'[p][i] = w
    BY DEF Leads, Contains
  <2>3. i \in 1..Len(adj[p])
    BY <2>1, <2>2
  <2> QED
    BY <2>1, <2>2, <2>3 DEF Leads, Contains
<1>4. ASSUME NEW S \in SUBSET Ids, S # {}
      PROVE  \E v \in S : \A w \in S : Leads(adj', v, w) => v = edge'[1] /\ w = edge'[2]
  <2>1. PICK v \in S : \A w \in S : ~Leads(adj, v, w)
    BY <1>1, <1>4, CyclicDef DEF Circular
  <2> QED
    BY <1>1, <1>3, <2>1
<1>5. BeforeOK'
  BY <1>1, <1>4 DEF BeforeOK
<1>6. /\ WalkOK' /\ Finished' = {} /\ stacked' = {} /\ Range(path') = {} /\ found' = FALSE
      /\ TypeOK'
  BY <1>1, <1>2, FreshOK DEF TypeOK
<1>7. CycleOK'
  <2>1. \A S \in SUBSET {} : ~Circular(adj', S)
    BY DEF Circular
  <2> QED
    BY <1>6, <2>1 DEF CycleOK
<1> QED
  BY <1>1, <1>5, <1>6, <1>7 DEF Inv, IdleOK, LoopOK, SortOK, NoCycle, ParentsFirst

LEMMA DisconnectOK ==
  ASSUME Inv, NEW p \in Ids, NEW c \in Ids, Disconnect(p, c)
  PROVE  Inv'
<1>1. /\ op = "idle" /\ Removed(p, c) /\ TypeOK /\ ~Cyclic(adj) /\ path = <<>> /\ visited = {}
      /\ UNCHANGED <<op, edge, todo, calls, stacked, found, pushed, ordered>>
  BY DEF Inv, Disconnect, NoCycle, IdleOK
<1>2. adj' \in [Ids -> Seq(Ids)] /\ ~Cyclic(adj')
  BY <1>1, RemovedOK, FewerLeads
<1>3. TypeOK' /\ path' = <<>> /\ visited' = {} /\ op' = "idle"
  BY <1>1, <1>2 DEF TypeOK, calls
<1>4. WalkOK'
  BY <1>3 DEF WalkOK, Range
<1> QED
  BY <1>2, <1>3, <1>4
  DEF Inv, IdleOK, LoopOK, CycleOK, BeforeOK, SortOK, NoCycle, ParentsFirst

LEMMA ConnectedOK ==
  ASSUME Inv, Connected
  PROVE  Inv'
<1>1. /\ op = "cycle" /\ CycleOver /\ TypeOK /\ BeforeOK /\ DetectsExactly
      /\ op' = "idle" /\ edge' = <<>> /\ todo' = {} /\ Fresh /\ ordered' = ordered
      /\ IF found THEN Removed(edge[1], edge[2]) ELSE adj' = adj
  BY Decides DEF Inv, Connected
<1>2. adj' \in [Ids -> Seq(Ids)] /\ ~Cyclic(adj')
  <2>1. CASE found
    <3>1. edge[1] \in Ids /\ edge[2] \in Ids
      BY <1>1 DEF TypeOK, BeforeOK
    <3>2. /\ adj' \in [Ids -> Seq(Ids)] /\ ~Leads(adj', edge[1], edge[2])
          /\ \A v \in Ids : \A w : Leads(adj', v, w) => Leads(adj, v, w)
      BY <1>1, <2>1, <3>1, RemovedOK
    <3>3. ASSUME NEW S \in SUBSET Ids, Circular(adj', S) PROVE FALSE
      <4>1. PICK v \in S : \A w \in S : Leads(adj, v, w) => v = edge[1] /\ w = edge[2]
        BY <1>1, <3>3 DEF BeforeOK, Circular
      <4>2. PICK w \in S : Leads(adj', v, w)
        BY <3>3 DEF Circular
      <4> QED
        BY <3>2, <4>1, <4>2
    <3> QED
      BY <3>2, <3>3, CyclicDef
  <2>2. CASE ~found
    BY <1>1, <2>2 DEF DetectsExactly, TypeOK
  <2> QED
    BY <2>1, <2>2
<1>3. WalkOK' /\ path' = <<>> /\ visited' = {} /\ TypeOK'
  BY <1>1, <1>2, FreshOK DEF TypeOK
<1> QED
  BY <1>1, <1>2, <1>3
  DEF Inv, IdleOK, LoopOK, CycleOK, BeforeOK, SortOK, NoCycle, ParentsFirst

(* A visitor of detect_cycle is called, or finds out that it need not go on. *)
LEMMA CycleVisitorOK ==
  ASSUME Inv, op = "cycle", NEW v \in Ids,
         path = <<>> \/ (More /\ v = Neighbor), CycleVisitor(v),
         todo' \in SUBSET Ids, todo \subseteq todo' \cup {v},
         UNCHANGED <<adj, op, edge, pushed, ordered>>
  PROVE  Inv'
<1>1. TypeOK /\ WalkOK /\ CycleOK /\ BeforeOK /\ Ids \subseteq todo \cup visited
  BY DEF Inv, LoopOK
<1>2. stacked = Range(path) /\ Range(path) \subseteq visited
  BY <1>1 DEF CycleOK, WalkOK
<1>3. BeforeOK'
  BY <1>1 DEF BeforeOK
<1>4. CASE OnPath(v)
  <2>1. found' = TRUE /\ UNCHANGED <<calls, stacked>> /\ v \in Range(path) /\ v \in visited
    BY <1>2, <1>4 DEF CycleVisitor, OnPath
  <2>2. path # <<>> /\ More /\ v = Neighbor
    BY <2>1 DEF Range
  <2>3. Top \in Ids /\ at \in [Ids -> Nat \ {0}] /\ adj \in [Ids -> Seq(Ids)]
    BY <1>1, <2>2, FrontOf, RangeOf DEF Top, TypeOK
  <2>4. at[Top] \in 1..Len(adj[Top])
    BY <2>2, <2>3 DEF More
  <2>5. Leads(adj, Top, v)
    BY <2>2, <2>4 DEF Neighbor, Leads, Contains
  <2>6. Cyclic(adj)
    BY <1>1, <2>1, <2>2, <2>5, BackEdge
  <2>7. TypeOK'
    BY <1>1, <2>1 DEF TypeOK, calls
  <2>8. WalkOK' /\ Finished' = Finished
    BY <1>1, <2>1 DEF WalkOK, Finished, calls
  <2>9. CycleOK' /\ LoopOK'
    BY <1>1, <2>1, <2>6, <2>8 DEF CycleOK, LoopOK, calls
  <2> QED
    BY <1>3, <2>7, <2>8, <2>9 DEF Inv, IdleOK, SortOK, NoCycle, ParentsFirst
<1>5. CASE ~OnPath(v) /\ v \in visited
  <2>1. Advance(path) /\ UNCHANGED <<path, visited, stacked, found>> /\ v \in Finished
    BY <1>2, <1>5 DEF CycleVisitor, OnPath, Finished
  <2>2. WalkOK' /\ Finished' = Finished /\ at' \in [Ids -> Nat \ {0}]
    BY <1>1, <2>1, AdvanceOK
  <2>3. TypeOK'
    BY <1>1, <2>1, <2>2 DEF TypeOK
  <2>4. CycleOK' /\ LoopOK'
    BY <1>1, <1>5, <2>1, <2>2 DEF CycleOK, LoopOK
  <2> QED
    BY <1>3, <2>2, <2>3, <2>4 DEF Inv, IdleOK, SortOK, NoCycle, ParentsFirst
<1>6. CASE ~OnPath(v) /\ v \notin visited
  <2>1. Call(v) /\ stacked' = stacked \cup {v} /\ found' = found
    BY <1>6 DEF CycleVisitor
  <2>2. /\ WalkOK' /\ Finished' = Finished /\ Range(path') = Range(path) \cup {v}
        /\ path' \in Seq(Ids) /\ at' \in [Ids -> Nat \ {0}]
        /\ visited' = visited \cup {v} /\ visited' \in SUBSET Ids
    BY <1>1, <1>6, <2>1, CallOK
  <2>3. TypeOK'
    BY <1>1, <2>1, <2>2 DEF TypeOK
  <2>4. CycleOK' /\ LoopOK'
    BY <1>1, <1>2, <2>1, <2>2 DEF CycleOK, LoopOK
  <2> QED
    BY <1>3, <2>2, <2>3, <2>4 DEF Inv, IdleOK, SortOK, NoCycle, ParentsFirst
<1> QED
  BY <1>4, <1>5, <1>6

LEMMA NeighborIn ==
  ASSUME TypeOK, More
  PROVE  Top \in Ids /\ Neighbor \in Ids /\ Leads(adj, Top, Neighbor)
<1>1. path # <<>> /\ path \in Seq(Ids) /\ at \in [Ids -> Nat \ {0}] /\ adj \in [Ids -> Seq(Ids)]
  BY DEF TypeOK, More
<1>2. Top \in Ids
  BY <1>1, FrontOf, RangeOf DEF Top
<1>3. at[Top] \in 1..Len(adj[Top])
  BY <1>1, <1>2 DEF More
<1> QED
  BY <1>1, <1>2, <1>3 DEF Neighbor, Leads, Contains

LEMMA CycleReturnOK ==
  ASSUME Inv, CycleReturn
  PROVE  Inv'
<1>1. /\ op = "cycle" /\ Done /\ Return /\ stacked' = stacked \ {Top}
      /\ UNCHANGED <<adj, op, edge, todo, found, pushed, ordered>>
      /\ TypeOK /\ WalkOK /\ CycleOK /\ BeforeOK /\ LoopOK
  BY DEF Inv, CycleReturn
<1>2. /\ WalkOK' /\ Range(path') = Range(path) \ {Top}
      /\ Finished' = Finished \cup {Top} /\ Top \in Range(path) /\ Top \in Ids
      /\ \A w : Leads(adj, Top, w) => w \in Finished
      /\ path' \in Seq(Ids) /\ at' \in [Ids -> Nat \ {0}] /\ visited' = visited
  BY <1>1, ReturnOK
<1>3. \A u \in Finished : \A w : Leads(adj, u, w) => w \in Finished
  BY <1>1 DEF WalkOK, Finished, Leads, Contains
<1>4. Top \notin Finished
  BY <1>2 DEF Finished
<1>5. \A S \in SUBSET Finished : ~Circular(adj, S)
  BY <1>1 DEF CycleOK
<1>6. \A S \in SUBSET (Finished \cup {Top}) : ~Circular(adj, S)
  BY <1>2, <1>3, <1>4, <1>5, LeaveOne
<1>7. TypeOK'
  BY <1>1, <1>2 DEF TypeOK
<1>8. CycleOK'
  BY <1>1, <1>2, <1>6 DEF CycleOK
<1>9. LoopOK' /\ BeforeOK'
  BY <1>1, <1>2 DEF LoopOK, BeforeOK
<1> QED
  BY <1>1, <1>2, <1>7, <1>8, <1>9 DEF Inv, IdleOK, SortOK, NoCycle, ParentsFirst

LEMMA BeginSortOK ==
  ASSUME Inv, Sort
  PROVE  Inv'
<1>1. /\ op = "idle" /\ op' = "sort" /\ todo' = Ids /\ Fresh
      /\ UNCHANGED <<adj, edge, ordered>> /\ TypeOK /\ NoCycle
  BY DEF Inv, Sort
<1>2. /\ WalkOK' /\ Finished' = {} /\ pushed' = <<>> /\ TypeOK'
  BY <1>1, FreshOK DEF TypeOK
<1>3. SortOK'
  BY <1>2 DEF SortOK, Range
<1> QED
  BY <1>1, <1>2, <1>3 DEF Inv, IdleOK, LoopOK, CycleOK, BeforeOK, NoCycle, ParentsFirst

(* A visitor of sort_ is called. *)
LEMMA SortCallOK ==
  ASSUME Inv, op = "sort", NEW v \in Ids, v \notin visited,
         path = <<>> \/ (More /\ v = Neighbor), Call(v),
         todo' \in SUBSET Ids, todo \subseteq todo' \cup {v},
         UNCHANGED <<adj, op, edge, stacked, found, pushed, ordered>>
  PROVE  Inv'
<1>1. TypeOK /\ WalkOK /\ LoopOK /\ SortOK /\ NoCycle
  BY DEF Inv
<1>2. /\ WalkOK' /\ Finished' = Finished
      /\ path' \in Seq(Ids) /\ at' \in [Ids -> Nat \ {0}]
      /\ visited' = visited \cup {v} /\ visited' \in SUBSET Ids
  BY <1>1, CallOK
<1>3. TypeOK'
  BY <1>1, <1>2 DEF TypeOK
<1>4. SortOK' /\ LoopOK'
  BY <1>1, <1>2 DEF SortOK, LoopOK
<1> QED
  BY <1>1, <1>2, <1>3, <1>4 DEF Inv, IdleOK, CycleOK, BeforeOK, NoCycle, ParentsFirst

LEMMA SortVertexOK ==
  ASSUME Inv, NEW v \in Ids, SortVertex(v)
  PROVE  Inv'
<1>1. /\ op = "sort" /\ path = <<>> /\ todo' = todo \ {v}
      /\ IF v \in visited THEN UNCHANGED calls ELSE Call(v)
      /\ UNCHANGED <<adj, op, edge, stacked, found, pushed, ordered>>
      /\ todo \in SUBSET Ids
  BY DEF SortVertex, Inv, TypeOK
<1>2. CASE v \in visited
  <2>1. UNCHANGED <<path, at, visited>>
    BY <1>1, <1>2 DEF calls
  <2>2. TypeOK' /\ Finished' = Finished
    BY <1>1, <2>1 DEF Inv, TypeOK, Finished
  <2>4. WalkOK'
    BY <1>1, <2>1, <2>2 DEF Inv, WalkOK
  <2>3. SortOK' /\ LoopOK'
    BY <1>1, <1>2, <2>1, <2>2 DEF Inv, SortOK, LoopOK
  <2> QED
    BY <1>1, <2>2, <2>3, <2>4 DEF Inv, IdleOK, CycleOK, BeforeOK, NoCycle, ParentsFirst
<1>3. CASE v \notin visited
  BY <1>1, <1>3, SortCallOK
<1> QED
  BY <1>2, <1>3

(* What a visitor of sort_ passes over has been left: it is not on the path,
   which would be a cycle.                                                  *)
LEMMA SortNeighborOK ==
  ASSUME Inv, SortNeighbor
  PROVE  Inv'
<1>1. /\ op = "sort" /\ More
      /\ IF Neighbor \in visited THEN Advance(path) /\ UNCHANGED <<path, visited>> ELSE Call(Neighbor)
      /\ UNCHANGED <<adj, op, edge, todo, stacked, found, pushed, ordered>>
      /\ TypeOK /\ WalkOK /\ SortOK /\ LoopOK /\ ~Cyclic(adj)
  BY DEF SortNeighbor, Inv, NoCycle
<1>2. Neighbor \in Ids /\ Leads(adj, Top, Neighbor) /\ path # <<>>
  BY <1>1, NeighborIn DEF More
<1>3. CASE Neighbor \in visited
  <2>1. Neighbor \in Finished
    BY <1>1, <1>2, <1>3, BackEdge DEF Finished
  <2>2. WalkOK' /\ Finished' = Finished /\ at' \in [Ids -> Nat \ {0}]
    BY <1>1, <1>3, <2>1, AdvanceOK
  <2>3. TypeOK'
    BY <1>1, <1>3, <2>2 DEF TypeOK
  <2>4. SortOK' /\ LoopOK'
    BY <1>1, <1>3, <2>2 DEF SortOK, LoopOK
  <2> QED
    BY <1>1, <2>2, <2>3, <2>4 DEF Inv, IdleOK, CycleOK, BeforeOK, NoCycle, ParentsFirst
<1>4. CASE Neighbor \notin visited
  BY <1>1, <1>2, <1>4, SortCallOK DEF TypeOK
<1> QED
  BY <1>3, <1>4

LEMMA SortReturnOK ==
  ASSUME Inv, SortReturn
  PROVE  Inv'
<1>1. /\ op = "sort" /\ Done /\ Return /\ pushed' = Append(pushed, Top)
      /\ UNCHANGED <<adj, op, edge, todo, stacked, found, ordered>>
      /\ TypeOK /\ WalkOK /\ SortOK /\ LoopOK /\ NoCycle
  BY DEF Inv, SortReturn
<1>2. /\ WalkOK' /\ Finished' = Finished \cup {Top} /\ Top \in Range(path) /\ Top \in Ids
      /\ \A w : Leads(adj, Top, w) => w \in Finished
      /\ path' \in Seq(Ids) /\ at' \in [Ids -> Nat \ {0}] /\ visited' = visited
  BY <1>1, ReturnOK
<1> DEFINE n == Len(pushed)
<1>3. /\ pushed \in Seq(Ids) /\ n \in Nat /\ Range(pushed) = {pushed[i] : i \in 1..n}
      /\ pushed' \in Seq(Ids) /\ Len(pushed') = n + 1 /\ pushed'[n + 1] = Top
      /\ \A i \in 1..n : pushed'[i] = pushed[i]
      /\ Range(pushed') = Range(pushed) \cup {Top}
  <2>1. pushed \in Seq(Ids)
    BY <1>1 DEF TypeOK
  <2>2. n \in Nat /\ Range(pushed) = {pushed[i] : i \in 1..n}
    BY <2>1, RangeOf
  <2> QED
    BY <1>1, <1>2, <2>1, <2>2, AppendTo
<1>4. Top \notin Finished /\ Range(pushed) = Finished
  BY <1>1, <1>2 DEF Finished, SortOK
<1> HIDE DEF n
<1>5. \A i, j \in 1..Len(pushed') : pushed'[i] = pushed'[j] => i = j
  <2> SUFFICES ASSUME NEW i \in 1..n + 1, NEW j \in 1..n + 1, pushed'[i] = pushed'[j] PROVE i = j
    BY <1>3
  <2>1. CASE i \in 1..n /\ j \in 1..n
    BY <1>1, <1>3, <2>1 DEF SortOK, n
  <2>2. CASE i = n + 1 \/ j = n + 1
    BY <1>3, <1>4, <2>2
  <2> QED
    BY <1>3, <2>1, <2>2
<1>6. ASSUME NEW i \in 1..Len(pushed'), NEW w \in Ids, Leads(adj', pushed'[i], w)
      PROVE  \E j \in 1..i - 1 : pushed'[j] = w
  <2>1. CASE i \in 1..n
    <3>1. PICK j \in 1..i - 1 : pushed[j] = w
      BY <1>1, <1>3, <1>6, <2>1 DEF SortOK, n
    <3> QED
      BY <1>3, <2>1, <3>1
  <2>2. CASE i = n + 1
    <3>1. w \in Range(pushed)
      BY <1>1, <1>2, <1>3, <1>4, <1>6, <2>2
    <3>2. PICK j \in 1..n : pushed[j] = w
      BY <1>3, <3>1
    <3> QED
      BY <1>3, <2>2, <3>2
  <2> QED
    BY <1>3, <2>1, <2>2
<1>7. SortOK' /\ LoopOK'
  BY <1>1, <1>2, <1>3, <1>4, <1>5, <1>6 DEF SortOK, LoopOK
<1>8. TypeOK'
  BY <1>1, <1>2, <1>3 DEF TypeOK
<1> QED
  BY <1>1, <1>2, <1>7, <1>8 DEF Inv, IdleOK, CycleOK, BeforeOK, NoCycle, ParentsFirst

LEMMA SortedOK ==
  ASSUME Inv, Sorted
  PROVE  Inv'
<1>1. /\ op = "sort" /\ path = <<>> /\ todo = {} /\ ordered' = Reverse(pushed) /\ op' = "execute"
      /\ Fresh /\ UNCHANGED <<adj, edge, todo>>
      /\ TypeOK /\ SortOK /\ LoopOK /\ NoCycle
  BY DEF Inv, Sorted, TopDown
<1> DEFINE n == Len(pushed)
<1>2. /\ pushed \in Seq(Ids) /\ n \in Nat /\ Range(pushed) = {pushed[i] : i \in 1..n}
      /\ \A i \in 1..n : pushed[i] \in Ids
  <2>1. pushed \in Seq(Ids)
    BY <1>1 DEF TypeOK
  <2>2. n \in Nat /\ Range(pushed) = {pushed[i] : i \in 1..n}
    BY <2>1, RangeOf
  <2> QED
    BY <2>1, <2>2
<1>3. Range(pushed) = Ids
  <2>1. Range(path) = {} /\ Ids \subseteq visited /\ visited \subseteq Ids
    BY <1>1 DEF Range, LoopOK, TypeOK
  <2> QED
    BY <1>1, <2>1 DEF SortOK, Finished
<1>4. /\ \A i, j \in 1..n : pushed[i] = pushed[j] => i = j
      /\ \A i \in 1..n : \A w \in Ids : Leads(adj, pushed[i], w) => \E j \in 1..i - 1 : pushed[j] = w
  BY <1>1 DEF SortOK
<1>5. ordered' = [i \in 1..n |-> pushed[n - i + 1]]
  BY <1>1 DEF Reverse
<1>12. ordered' \in Seq(Ids)
  <2>1. \A i \in 1..n : n - i + 1 \in 1..n
    BY <1>2
  <2> HIDE DEF n
  <2> QED
    BY <1>2, <1>5, <2>1
<1> HIDE DEF n
<1>6. /\ DOMAIN ordered' = 1..n /\ Len(ordered') = n /\ adj' = adj
      /\ \A i \in 1..n : n - i + 1 \in 1..n /\ ordered'[i] = pushed[n - i + 1]
  BY <1>1, <1>2, <1>5
<1>7. n = Cardinality(Ids)
  <2>1. pushed \in [1..n -> Ids]
    BY <1>2 DEF n
  <2>2. pushed \in Bijection(1..n, Ids)
    BY <1>2, <1>3, <1>4, <2>1 DEF Bijection, Injection, Surjection, IsInjective
  <2> QED
    BY <1>2, <2>2, FS_CountingElements DEF ExistsBijection
<1>8. ASSUME NEW v \in Ids PROVE \E i \in DOMAIN ordered' : ordered'[i] = v
  <2>1. PICK j \in 1..n : pushed[j] = v
    BY <1>2, <1>3
  <2>2. n - j + 1 \in 1..n /\ n - (n - j + 1) + 1 = j
    BY <1>2
  <2> QED
    BY <1>6, <2>1, <2>2
<1>9. ASSUME NEW i \in 1..n, NEW j \in 1..n, Contains(adj[ordered'[i]], ordered'[j]) PROVE i < j
  <2> DEFINE a == n - i + 1  b == n - j + 1
  <2>1. a \in 1..n /\ b \in 1..n /\ Leads(adj, pushed[a], pushed[b]) /\ pushed[b] \in Ids
    BY <1>2, <1>6, <1>9 DEF Leads
  <2>2. PICK k \in 1..a - 1 : pushed[k] = pushed[b]
    BY <1>4, <2>1
  <2>3. k \in 1..n
    BY <1>2, <2>1, <2>2
  <2>4. k = b
    BY <1>4, <2>1, <2>2, <2>3
  <2> QED
    BY <1>2, <2>1, <2>2, <2>4
<1>10. ParentsFirst'
  BY <1>6, <1>7, <1>8, <1>9 DEF ParentsFirst
<1>11. WalkOK' /\ path' = <<>> /\ visited' = {} /\ TypeOK'
  BY <1>1, <1>12, FreshOK DEF TypeOK
<1> QED
  BY <1>1, <1>10, <1>11 DEF Inv, IdleOK, LoopOK, CycleOK, BeforeOK, SortOK, NoCycle

LEMMA ExecutedOK ==
  ASSUME Inv, Executed
  PROVE  Inv'
<1>1. /\ op = "execute" /\ op' = "idle"
      /\ UNCHANGED <<adj, edge, todo, path, at, visited, stacked, found, pushed, ordered>>
  BY DEF Executed, calls
<1>2. TypeOK' /\ WalkOK' /\ path' = <<>> /\ visited' = {}
  BY <1>1 DEF Inv, TypeOK, WalkOK, IdleOK
<1> QED
  BY <1>1, <1>2 DEF Inv, IdleOK, LoopOK, CycleOK, BeforeOK, SortOK, NoCycle, ParentsFirst

LEMMA StutterOK ==
  ASSUME Inv, UNCHANGED vars
  PROVE  Inv'
<1> USE DEF vars, calls
<1>1. TypeOK' /\ WalkOK' /\ Finished' = Finished
  BY DEF Inv, TypeOK, WalkOK, Finished
<1> QED
  BY <1>1 DEF Inv, IdleOK, LoopOK, CycleOK, BeforeOK, SortOK, NoCycle, ParentsFirst

LEMMA InitOK ==
  ASSUME Init
  PROVE  Inv
<1>1. TypeOK /\ path = <<>> /\ visited = {} /\ op = "idle"
  <2>1. <<>> \in Seq(Ids)
    OBVIOUS
  <2>2. adj \in [Ids -> Seq(Ids)] /\ at \in [Ids -> Nat \ {0}]
    BY <2>1 DEF Init
  <2> QED
    BY <2>1, <2>2 DEF Init, TypeOK
<1>2. WalkOK
  BY <1>1 DEF WalkOK, Range
<1>3. ~Cyclic(adj)
  <2>1. \A v \in Ids : \A w : ~Leads(adj, v, w)
    BY DEF Init, Leads, Contains
  <2> QED
    BY <2>1, CyclicDef DEF Circular
<1> QED
  BY <1>1, <1>2, <1>3
  DEF Inv, IdleOK, LoopOK, CycleOK, BeforeOK, SortOK, NoCycle, ParentsFirst

-----------------------------------------------------------------------------
(* Every step of the two searches, and of what begins and ends them, keeps
   the invariant.                                                          *)
THEOREM Invariance == Spec => []Inv
<1>1. ASSUME Inv, [Next]_vars PROVE Inv'
  <2>1. ASSUME NEW p \in Ids, NEW c \in Ids, Connect(p, c) \/ Disconnect(p, c) PROVE Inv'
    BY <1>1, <2>1, ConnectOK, DisconnectOK
  <2>2. ASSUME NEW v \in Ids, DetectCycle(v) PROVE Inv'
    <3>1. /\ op = "cycle" /\ path = <<>> /\ todo' = todo \ {v} /\ CycleVisitor(v)
          /\ UNCHANGED <<adj, op, edge, pushed, ordered>> /\ todo \in SUBSET Ids
      BY <1>1, <2>2 DEF DetectCycle, Inv, TypeOK
    <3> QED
      BY <1>1, <3>1, CycleVisitorOK
  <2>3. ASSUME NEW v \in Ids, SortVertex(v) PROVE Inv'
    BY <1>1, <2>3, SortVertexOK
  <2>4. CASE CycleNeighbor
    <3>1. /\ op = "cycle" /\ More /\ CycleVisitor(Neighbor) /\ todo' = todo
          /\ UNCHANGED <<adj, op, edge, pushed, ordered>> /\ todo \in SUBSET Ids
          /\ Neighbor \in Ids
      BY <1>1, <2>4, NeighborIn DEF CycleNeighbor, Inv, TypeOK
    <3> QED
      BY <1>1, <3>1, CycleVisitorOK
  <2>5. CASE CycleReturn
    BY <1>1, <2>5, CycleReturnOK
  <2>6. CASE Connected
    BY <1>1, <2>6, ConnectedOK
  <2>7. CASE Sort
    BY <1>1, <2>7, BeginSortOK
  <2>8. CASE SortNeighbor
    BY <1>1, <2>8, SortNeighborOK
  <2>9. CASE SortReturn
    BY <1>1, <2>9, SortReturnOK
  <2>10. CASE Sorted
    BY <1>1, <2>10, SortedOK
  <2>11. CASE Executed
    BY <1>1, <2>11, ExecutedOK
  <2>12. CASE UNCHANGED vars
    BY <1>1, <2>12, StutterOK
  <2> QED
    BY <1>1, <2>1, <2>2, <2>3, <2>4, <2>5, <2>6, <2>7, <2>8, <2>9, <2>10, <2>11, <2>12 DEF Next
<1> QED
  BY InitOK, <1>1, PTL DEF Spec

(* The state of the graph and of its searches is of the types of graph.h. *)
THEOREM TypeCorrect == Spec => []TypeOK
<1>1. Inv => TypeOK
  BY DEF Inv
<1> QED
  BY Invariance, <1>1, PTL

(* detect_cycle answers true exactly if the graph with the new connection
   has a cycle, for every set of nodes, every history of connections and
   every order in which the hash map lists the vertices.                  *)
THEOREM DetectionExact == Spec => []DetectsExactly
<1>1. Inv => DetectsExactly
  BY Decides
<1> QED
  BY Invariance, <1>1, PTL

(* Connect leaves no cycle behind, and neither does anything else. *)
THEOREM StaysAcyclic == Spec => [](op # "cycle" => ~Cyclic(adj))
<1>1. Inv => (op # "cycle" => ~Cyclic(adj))
  BY DEF Inv, NoCycle
<1> QED
  BY Invariance, <1>1, PTL

(* sort_ lists every node once, and each before its children: Execute starts
   no node before the nodes it reads from.                                  *)
THEOREM StartsParentsFirst == Spec => []ParentsFirst
<1>1. Inv => ParentsFirst
  BY DEF Inv
<1> QED
  BY Invariance, <1>1, PTL
=============================================================================
