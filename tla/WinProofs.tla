----------------------------- MODULE WinProofs ------------------------------
(***************************************************************************)
(* WinRun for every graph and every input: its types, with nodecount the   *)
(* number of threads that are at work; that no pipe is closed while it is  *)
(* in use; and that no line is lost.  The last two are about executions    *)
(* that nobody terminates.                                                 *)
(***************************************************************************)
EXTENDS WinRun, StringsProofs, WellFoundedInduction

(* output_it_ points to an output. *)
NextOK == \A n \in Node : Kind[n] = "distro" => next[n] \in 1..Len(OutList[n])

(* Until Terminate is called there is no sign of it. *)
CalmOK == stops = 0 => stopping = <<>> /\ \A n \in Node : ~term[n] /\ tev[n] # "set"

(* The threads are started in order. *)
StartOK == \A i \in 1..Len(Order) : i > started => pc[Order[i]] = "off"

TInv == TypeOK /\ StartOK /\ NextOK /\ CalmOK

(* The graph's input has no line that says "EOF"; a root that is not a      *)
(* command would pass it on, to be counted by its children.                 *)
PlainData == \A i \in DOMAIN Args : Args[i] # EOF

-----------------------------------------------------------------------------
(* The graph. *)

LEMMA Least ==
  ASSUME NEW T, T \subseteq Nat, T # {}
  PROVE  \E x \in T : \A y \in T : x <= y
<1> DEFINE R == OpToRel(<, Nat)
<1>1. IsWellFoundedOn(R, Nat)
  BY NatLessThanWellFounded
<1>2. \A y, x \in T : y < x => <<y, x>> \in R
  BY DEF OpToRel
<1> HIDE DEF R
<1>3. PICK x \in T : \A y \in T : <<y, x>> \notin R
  BY <1>1, WFMin
<1>4. \A y \in T : x \in Nat /\ y \in Nat /\ ~(y < x)
  BY <1>2, <1>3
<1> QED
  BY <1>4

LEMMA NodeFinite == IsFiniteSet(Node)
<1>1. Order \in [1..Len(Order) -> Node] /\ Len(Order) \in Nat
  BY WinAssumption
<1>2. \A n \in Node : \E i \in 1..Len(Order) : Order[i] = n
  BY <1>1 DEF Node, Range
<1>3. IsFiniteSet(1..Len(Order))
  BY <1>1, FS_Interval
<1>4. Order \in Surjection(1..Len(Order), Node)
  BY <1>1, <1>2 DEF Surjection
<1> QED
  BY <1>3, <1>4, FS_Surjection

LEMMA EdgeFinite == IsFiniteSet(Edge) /\ \A e \in Edge : e = <<e[1], e[2]>> /\ e[1] \in Node /\ e[2] \in Node
<1>1. IsFiniteSet(Node \X Node)
  BY NodeFinite, FS_Product
<1>2. Edge \in SUBSET (Node \X Node)
  BY WinAssumption
<1> QED
  BY <1>1, <1>2, FS_Subset

LEMMA InOut ==
  ASSUME NEW n \in Node
  PROVE  /\ In(n) \subseteq Edge /\ Out(n) \subseteq Edge
         /\ IsFiniteSet(In(n)) /\ IsFiniteSet(Out(n))
         /\ Cardinality(In(n)) \in Nat /\ Cardinality(Out(n)) \in Nat
<1>1. In(n) \in SUBSET Edge /\ Out(n) \in SUBSET Edge
  BY DEF In, Out
<1>2. IsFiniteSet(In(n)) /\ IsFiniteSet(Out(n))
  BY <1>1, EdgeFinite, FS_Subset
<1> QED
  BY <1>1, <1>2, FS_CardinalityType

(* SetToSeq lists every element once. *)
LEMMA Listed ==
  ASSUME NEW S, IsFiniteSet(S)
  PROVE  /\ SetToSeq(S) \in Seq(S) /\ Len(SetToSeq(S)) = Cardinality(S)
         /\ \A x \in S : \E i \in 1..Len(SetToSeq(S)) : SetToSeq(S)[i] = x
<1> DEFINE N == Cardinality(S)
           s == SetToSeq(S)
<1>1. N \in Nat /\ ExistsBijection(1..N, S)
  BY FS_CardinalityType
<1>2. \E f \in [1..N -> S] : IsInjective(f)
  BY <1>1 DEF ExistsBijection, Bijection, Injection, IsInjective
<1>3. s \in [1..N -> S] /\ IsInjective(s)
  BY <1>2 DEF SetToSeq
<1>4. s \in Injection(1..N, S)
  BY <1>3 DEF Injection, IsInjective
<1>5. Cardinality(1..N) = N
  BY <1>1, FS_Interval
<1> HIDE DEF s
<1>6. s \in Surjection(1..N, S)
  BY <1>4, <1>5, FS_Injection
<1>7. s \in Seq(S) /\ Len(s) = N
  BY <1>1, <1>3
<1> QED
  BY <1>6, <1>7 DEF Surjection, s

LEMMA Lists ==
  ASSUME NEW n \in Node
  PROVE  /\ InList[n] \in Seq(Edge) /\ OutList[n] \in Seq(Edge)
         /\ Len(InList[n]) = Cardinality(In(n)) /\ Len(OutList[n]) = Cardinality(Out(n))
         /\ \A i \in 1..Len(InList[n]) : InList[n][i] \in In(n)
         /\ \A i \in 1..Len(OutList[n]) : OutList[n][i] \in Out(n)
         /\ \A e \in In(n) : \E i \in 1..Len(InList[n]) : InList[n][i] = e
<1>1. InList[n] = SetToSeq(In(n)) /\ OutList[n] = SetToSeq(Out(n))
  BY DEF InList, OutList
<1>2. \A s : s \in Seq(In(n)) \/ s \in Seq(Out(n)) => s \in Seq(Edge)
  BY InOut
<1>3. \A i \in 1..Len(InList[n]) : InList[n][i] \in In(n)
  BY <1>1, InOut, Listed
<1>4. \A i \in 1..Len(OutList[n]) : OutList[n][i] \in Out(n)
  BY <1>1, InOut, Listed
<1> QED
  BY <1>1, <1>2, <1>3, <1>4, InOut, Listed

LEMMA DistroOut ==
  ASSUME NEW n \in Node, Kind[n] = "distro"
  PROVE  Len(OutList[n]) \in Nat /\ 1 \in 1..Len(OutList[n])
<1>1. Out(n) # {}
  BY WinAssumption DEF Out
<1>2. Cardinality(Out(n)) # 0
  BY <1>1, InOut, FS_EmptySet
<1> QED
  BY <1>2, InOut, Lists

-----------------------------------------------------------------------------
(* Types.  Apart from the others, those of pc and nodecount: what a thread *)
(* does to its own place, and to the number of those at work.              *)

Running == {n \in Node : pc[n] \notin Opening \cup Closing}

Types ==
  /\ started \in 0..Len(Order) /\ stops \in 0..MaxStops
  /\ term \in [Node -> BOOLEAN] /\ tev \in [Node -> {"none", "unset", "set"}]
  /\ ready \subseteq Node
  /\ pipe \in [Edge -> {"none", "listening", "open", "closed"}] /\ held \subseteq Edge
  /\ left \in [Node -> Seq(Edge)]
  /\ slot \in [Edge -> Seq(Line)] /\ arrived \in [Edge -> Seq(Line)]
  /\ pend \subseteq Edge /\ finished \subseteq Edge /\ got \in [Node -> Seq(Line)]
  /\ at \in [Node -> Nat \ {0}] /\ evs \in [Node -> SUBSET Edge]
  /\ inputs \in [Node -> Seq(String)] /\ eofs \in [Node -> Nat] /\ called \subseteq Node
  /\ tok \in [Node -> Seq(Line)] /\ to \in [Node -> SUBSET Edge] /\ next \in [Node -> Nat]
  /\ ended \subseteq Node
  /\ sent \in [Edge -> Seq(Line)] /\ ran \in [Node -> Seq(String)]

CountedOK == pc \in [Node -> PCs] /\ nodecount = Cardinality(Running)

LEMMA TypeParts == TypeOK <=> Types /\ CountedOK
BY DEF TypeOK, Types, CountedOK, Running

LEMMA InitT == Init => TInv
<1> SUFFICES ASSUME Init PROVE TInv
  OBVIOUS
<1>1. {n \in Node : pc[n] \notin Opening \cup Closing} = {}
  BY DEF Init, All, Opening
<1>2. nodecount = Cardinality({n \in Node : pc[n] \notin Opening \cup Closing})
  BY <1>1, FS_EmptySet DEF Init
<1>3. Len(Order) \in Nat
  BY WinAssumption
<1>4. TypeOK
  BY <1>2, <1>3, WinAssumption DEF Init, TypeOK, All, Each, PCs, Opening, None
<1>5. NextOK
  BY DistroOut DEF Init, NextOK, All
<1>6. CalmOK
  BY DEF Init, CalmOK, All
<1>7. StartOK
  <2>1. \A i \in 1..Len(Order) : Order[i] \in Node
    BY WinAssumption
  <2> QED
    BY <2>1 DEF Init, StartOK, All
<1> QED
  BY <1>4, <1>5, <1>6, <1>7 DEF TInv

(* A thread goes from one place to another, and is counted while it is at
   work.                                                                    *)
Moves(n, from, place) ==
  /\ from # "off" /\ place # "off" /\ from \in PCs /\ place \in PCs
  /\ pc[n] = from /\ pc' = [pc EXCEPT ![n] = place]
  /\ started' = started
  /\ \/ (from \in Opening \cup Closing <=> place \in Opening \cup Closing) /\ nodecount' = nodecount
     \/ from \in Opening /\ place \notin Opening \cup Closing /\ nodecount' = nodecount + 1
     \/ from \notin Opening \cup Closing /\ place \in Closing /\ nodecount' = nodecount - 1

LEMMA ReturnMoves ==
  ASSUME CountedOK, NEW n \in Node, NEW g, Return(n, g)
  PROVE  \E place \in {"close", "read", "end", "top"} : pc' = [pc EXCEPT ![n] = place]
BY DEF Return, Goto, Whereto

LEMMA StaysMoves ==
  ASSUME CountedOK, NEW n \in Node, pc[n] # "off", UNCHANGED <<pc, started, nodecount>>
  PROVE  Moves(n, pc[n], pc[n])
<1>1. pc[n] \in PCs /\ pc' = [pc EXCEPT ![n] = pc[n]]
  BY DEF CountedOK
<1> QED
  BY <1>1 DEF Moves

LEMMA ThreadMoves ==
  ASSUME CountedOK, NEW n \in Node, Thread(n)
  PROVE  \E place \in PCs : Moves(n, pc[n], place)
<1> USE DEF Moves, PCs, Opening, Closing, graph, sync, Goto, CountedOK
<1>0. /\ pc[n] \in PCs
      /\ pc[n] # "off" /\ UNCHANGED <<pc, started, nodecount>> => Moves(n, pc[n], pc[n])
  BY StaysMoves
<1>1. CASE Create(n)
  BY <1>1 DEF Create
<1>2. CASE ConnectPipe(n)
  <2>1. CASE UNCHANGED pc
    BY <1>0, <1>2, <2>1 DEF ConnectPipe
  <2>2. CASE ~UNCHANGED pc
    BY <1>2, <2>2 DEF ConnectPipe
  <2> QED
    BY <2>1, <2>2
<1>3. CASE OpenPipe(n)
  <2>1. CASE UNCHANGED pc
    BY <1>0, <1>3, <2>1 DEF OpenPipe
  <2>2. CASE ~UNCHANGED pc
    BY <1>3, <2>2 DEF OpenPipe
  <2> QED
    BY <2>1, <2>2
<1>4. CASE MakeEvent(n)
  BY <1>4 DEF MakeEvent
<1>5. CASE ReadPipe(n)
  <2>0. pc[n] = "read" /\ UNCHANGED <<graph, sync>>
    BY <1>5 DEF ReadPipe
  <2>1. CASE UNCHANGED pc
    BY <1>0, <2>0, <2>1
  <2>2. CASE GiveUp(n)
    <3>1. \E place \in {"top", "close"} : Goto(n, place)
      BY <2>2 DEF GiveUp
    <3> QED
      BY <2>0, <3>1
  <2>3. CASE Return(n, got[n])
    BY <2>0, <2>3, ReturnMoves
  <2>4. CASE Goto(n, "wait")
    BY <2>0, <2>4
  <2> QED
    BY <1>5, <2>1, <2>2, <2>3, <2>4 DEF ReadPipe
<1>6. CASE WaitRead(n)
  BY <1>6, ReturnMoves DEF WaitRead, GiveUp
<1>7. CASE Top(n)
  <2>1. \E place \in {"for", "end"} : Goto(n, place)
    BY <1>7 DEF Top
  <2> QED
    BY <1>7, <2>1 DEF Top
<1>8. CASE For(n)
  <2>0. pc[n] = "for" /\ UNCHANGED <<graph, sync>>
    BY <1>8 DEF For
  <2>1. CASE UNCHANGED pc
    BY <1>0, <2>0, <2>1
  <2>2. CASE \E place \in {"end", "read", "exec", "write"} : Goto(n, place)
    BY <2>0, <2>2
  <2>3. ASSUME NEW t, Emit(n, t) PROVE Goto(n, "write")
    BY <2>3 DEF Emit
  <2>4. CASE inputs[n] = <<>>
    BY <1>8, <2>2, <2>4 DEF For
  <2>5. CASE inputs[n] # <<>>
    BY <1>8, <2>1, <2>2, <2>3, <2>5 DEF For
  <2> QED
    BY <2>4, <2>5
<1>9. CASE RunCommand(n)
  BY <1>9 DEF RunCommand, Emit
<1>10. CASE Write(n)
  <2>1. pc[n] = "write" /\ \E place \in {"close", "for", "flush"} : Goto(n, place)
    BY <1>10 DEF Write, Written
  <2> QED
    BY <1>10, <2>1 DEF Write
<1>11. CASE Flush(n)
  <2>1. \E place \in {"close", "for"} : Goto(n, place)
    BY <1>11 DEF Flush, Written
  <2> QED
    BY <1>11, <2>1 DEF Flush
<1>12. CASE End(n)
  BY <1>12 DEF End
<1>13. CASE Close(n)
  BY <1>13 DEF Close
<1>14. CASE Barrier(n)
  BY <1>14 DEF Barrier
<1>15. CASE ClosePipes(n)
  BY <1>15 DEF ClosePipes
<1> QED
  BY <1>1, <1>2, <1>3, <1>4, <1>5, <1>6, <1>7, <1>8, <1>9, <1>10, <1>11, <1>12, <1>13, <1>14, <1>15
     DEF Thread

LEMMA MovesOK ==
  ASSUME CountedOK, StartOK, NEW n \in Node, NEW from, NEW place, Moves(n, from, place)
  PROVE  CountedOK' /\ StartOK'
<1>1. pc \in [Node -> PCs] /\ pc' \in [Node -> PCs]
  BY DEF CountedOK, Moves
<1>2. StartOK'
  <2>1. \A m \in Node : pc[m] = "off" => pc'[m] = "off"
    BY <1>1 DEF Moves
  <2>2. \A i \in 1..Len(Order) : Order[i] \in Node
    BY WinAssumption
  <2> QED
    BY <2>1, <2>2 DEF StartOK, Moves
<1>3. IsFiniteSet(Running) /\ nodecount = Cardinality(Running)
  <2>1. Running \in SUBSET Node
    BY DEF Running
  <2> QED
    BY <2>1, NodeFinite, FS_Subset DEF CountedOK
<1>4. CASE (from \in Opening \cup Closing <=> place \in Opening \cup Closing) /\ nodecount' = nodecount
  <2>1. Running' = Running
    BY <1>1, <1>4 DEF Moves, Running
  <2> QED
    BY <1>1, <1>2, <1>3, <1>4, <2>1 DEF CountedOK
<1>5. CASE from \in Opening /\ place \notin Opening \cup Closing /\ nodecount' = nodecount + 1
  <2>1. Running' = Running \cup {n} /\ n \notin Running
    BY <1>1, <1>5 DEF Moves, Running
  <2>2. Cardinality(Running \cup {n}) = Cardinality(Running) + 1
    BY <1>3, <2>1, FS_AddElement
  <2> QED
    BY <1>1, <1>2, <1>3, <1>5, <2>1, <2>2 DEF CountedOK
<1>6. CASE from \notin Opening \cup Closing /\ place \in Closing /\ nodecount' = nodecount - 1
  <2>1. Running' = Running \ {n} /\ n \in Running
    BY <1>1, <1>6 DEF Moves, Running
  <2>2. Cardinality(Running \ {n}) = Cardinality(Running) - 1
    BY <1>3, <2>1, FS_RemoveElement
  <2> QED
    BY <1>1, <1>2, <1>3, <1>6, <2>1, <2>2 DEF CountedOK
<1> QED
  BY <1>4, <1>5, <1>6 DEF Moves

(* Joining makes at most two strings of whatever there is. *)
LEMMA ConcatType ==
  ASSUME inputs \in [Node -> Seq(String)], NEW n \in Node, NEW S \in Seq(String), Concat(n, S)
  PROVE  inputs' \in [Node -> Seq(String)]
<1> DEFINE strs == {i \in DOMAIN S : S[i] # <<EOF>>}
<1>0. PICK k \in 0..Len(S) : \E p \in [1..k -> strs] :
        inputs' = [inputs EXCEPT ![n] =
          IF k = 0 THEN <<<<EOF>>>> ELSE <<[j \in 1..k |-> S[p[j]][1]], <<EOF>>>>]
  BY DEF Concat
<1>1. PICK p \in [1..k -> strs] :
        inputs' = [inputs EXCEPT ![n] =
          IF k = 0 THEN <<<<EOF>>>> ELSE <<[j \in 1..k |-> S[p[j]][1]], <<EOF>>>>]
  BY <1>0
<1>2. <<EOF>> \in String
  BY LineAssumption, SingletonType
<1>3. ASSUME k # 0 PROVE [j \in 1..k |-> S[p[j]][1]] \in String
  <2>1. k \in Nat \ {0}
    BY <1>3
  <2>2. \A j \in 1..k : S[p[j]] \in String
    BY StringSeqs
  <2>3. \A j \in 1..k : S[p[j]][1] \in Line
    BY <2>2, StringType
  <2> DEFINE s == [j \in 1..k |-> S[p[j]][1]]
  <2>4. s \in Seq(Line) /\ Len(s) = k
    BY <2>1, <2>3
  <2> HIDE DEF s
  <2> QED
    BY <2>1, <2>4 DEF String, s
<1> QED
  BY <1>1, <1>2, <1>3

LEMMA ReturnT ==
  ASSUME Types, NEW n \in Node, NEW g \in Seq(Line), Return(n, g)
  PROVE  /\ inputs' \in [Node -> Seq(String)] /\ eofs' \in [Node -> Nat] /\ called' \subseteq Node
         /\ at' \in [Node -> Nat \ {0}] /\ evs' \in [Node -> SUBSET Edge] /\ got' \in [Node -> Seq(Line)]
<1>1. Taken(n, g) \in Seq(String)
  BY AsStringsType DEF Types, Taken
<1>2. EofsIn(Taken(n, g)) \in Nat
  BY <1>1, EofsInType
<1>3. eofs' \in [Node -> Nat]
  BY <1>2 DEF Return, Types
<1>4. inputs' \in [Node -> Seq(String)]
  <2> DEFINE all == Taken(n, g)
  <2>1. inputs \in [Node -> Seq(String)]
    BY DEF Types
  <2>2. Concat(n, all) => inputs' \in [Node -> Seq(String)]
    BY <1>1, <2>1, ConcatType
  <2>3. \/ UNCHANGED inputs
        \/ Concat(n, all)
        \/ inputs' = [inputs EXCEPT ![n] = <<>>]
        \/ inputs' = [inputs EXCEPT ![n] = all]
    BY DEF Return
  <2>4. <<>> \in Seq(String) /\ all \in Seq(String)
    BY <1>1
  <2> HIDE DEF all
  <2> QED
    BY <2>1, <2>2, <2>3, <2>4
<1>5. called' \subseteq Node
  BY DEF Return, Types
<1>6. at' \in [Node -> Nat \ {0}] /\ evs' \in [Node -> SUBSET Edge] /\ got' \in [Node -> Seq(Line)]
  BY DEF Return, Types
<1> QED
  BY <1>3, <1>4, <1>5, <1>6

LEMMA GiveUpT ==
  ASSUME Types, NEW n \in Node, GiveUp(n)
  PROVE  /\ inputs' \in [Node -> Seq(String)] /\ eofs' \in [Node -> Nat] /\ called' \subseteq Node
         /\ at' \in [Node -> Nat \ {0}] /\ evs' \in [Node -> SUBSET Edge] /\ got' \in [Node -> Seq(Line)]
BY DEF GiveUp, Types, strings

LEMMA EmitT ==
  ASSUME Types, NextOK, NEW n \in Node, NEW t \in Seq(Line), Emit(n, t)
  PROVE  /\ tok' \in [Node -> Seq(Line)] /\ to' \in [Node -> SUBSET Edge] /\ next' = next
         /\ ended' = ended
<1>1. tok' \in [Node -> Seq(Line)] /\ next' = next /\ ended' = ended
  BY DEF Emit, Types
<1>2. \E x \in SUBSET Edge : to' = [to EXCEPT ![n] = x]
  <2>1. CASE Kind[n] = "distro"
    <3>1. OutList[n][next[n]] \in Edge
      BY <2>1, Lists, InOut DEF NextOK
    <3> QED
      BY <2>1, <3>1 DEF Emit
  <2>2. CASE Kind[n] # "distro"
    BY <2>2, InOut DEF Emit
  <2> QED
    BY <2>1, <2>2
<1>3. to' \in [Node -> SUBSET Edge]
  BY <1>2 DEF Types
<1> QED
  BY <1>1, <1>3

(* The pipe WaitForMultipleObjects reports. *)
Came(n) == {i \in DOMAIN InList[n] : InList[n][i] \in evs[n] /\ arrived[InList[n][i]] # None}
First(n) == InList[n][CHOOSE i \in Came(n) : \A j \in Came(n) : i <= j]

LEMMA FirstOK ==
  ASSUME NEW n \in Node, Came(n) # {}
  PROVE  First(n) \in In(n) /\ First(n) \in Edge /\ First(n) \in evs[n] /\ arrived[First(n)] # None
<1>1. DOMAIN InList[n] = 1..Len(InList[n]) /\ Len(InList[n]) \in Nat
  BY Lists
<1>2. Came(n) \subseteq Nat
  BY <1>1 DEF Came
<1>3. \E i \in Came(n) : \A j \in Came(n) : i <= j
  BY <1>2, Least
<1>4. PICK i \in Came(n) : First(n) = InList[n][i]
  BY <1>3 DEF First
<1> QED
  BY <1>1, <1>4, Lists, InOut DEF Came

(* One lemma per action: the types and output_it_. *)
Kept == Types' /\ NextOK'

LEMMA CreateT == ASSUME Types, NextOK, NEW n \in Node, Create(n) PROVE Kept
<1>1. ready' \subseteq Node
  BY DEF Create, Announced, Types
<1>2. left' \in [Node -> Seq(Edge)]
  BY Lists DEF Create, Types
<1>3. pipe' \in [Edge -> {"none", "listening", "open", "closed"}]
  BY DEF Create, Types
<1> QED
  BY <1>1, <1>2, <1>3 DEF Kept, NextOK, OutList, Create, Types, graph, signals, data, reading, strings, writing, history

LEMMA ConnectPipeT == ASSUME Types, NextOK, NEW n \in Node, ConnectPipe(n) PROVE Kept
<1>1. left' \in [Node -> Seq(Edge)]
  <2>1. InList[n] \in Seq(Edge) /\ left[n] \in Seq(Edge)
    BY Lists DEF Types
  <2>2. \/ left' = [left EXCEPT ![n] = InList[n]]
        \/ left[n] # <<>> /\ left' = [left EXCEPT ![n] = Tail(left[n])]
    BY DEF ConnectPipe
  <2>3. left[n] # <<>> => Tail(left[n]) \in Seq(Edge)
    BY <2>1
  <2> QED
    BY <2>1, <2>2, <2>3 DEF Types
<1> QED
  BY <1>1 DEF Kept, NextOK, OutList, ConnectPipe, Types, graph, sync, signals, data, reading, strings, writing, history

LEMMA OpenPipeT == ASSUME Types, NextOK, NEW n \in Node, OpenPipe(n) PROVE Kept
<1>1. left[n] \in Seq(Edge)
  BY DEF Types
<1>2. CASE left[n] = <<>>
  BY <1>2 DEF Kept, NextOK, OutList, OpenPipe, Types, graph, sync, signals, data, reading, strings, writing, history
<1>3. CASE left[n] # <<>>
  <2>1. Head(left[n]) \in Edge /\ Tail(left[n]) \in Seq(Edge)
    BY <1>1, <1>3
  <2>2. /\ left' = [left EXCEPT ![n] = Tail(@)]
        /\ \/ UNCHANGED <<pipe, held>>
           \/ /\ pipe' = [pipe EXCEPT ![Head(left[n])] = "open"]
              /\ held' = held \cup {Head(left[n])}
    BY <1>3 DEF OpenPipe
  <2>3. /\ left' \in [Node -> Seq(Edge)] /\ held' \subseteq Edge
        /\ pipe' \in [Edge -> {"none", "listening", "open", "closed"}]
    BY <2>1, <2>2 DEF Types
  <2> QED
    BY <2>3 DEF Kept, NextOK, OutList, OpenPipe, Types, graph, sync, signals, data, reading, strings, writing, history
<1> QED
  BY <1>2, <1>3

LEMMA MakeEventT == ASSUME Types, NextOK, NEW n \in Node, MakeEvent(n) PROVE Kept
<1>1. AsStrings(Args) \in Seq(String)
  BY WinAssumption, AsStringsType
<1>2. inputs' \in [Node -> Seq(String)] /\ called' \subseteq Node
  <2>1. inputs \in [Node -> Seq(String)] /\ called \subseteq Node
    BY DEF Types
  <2>2. \/ Concat(n, AsStrings(Args))
        \/ inputs' = [inputs EXCEPT ![n] = AsStrings(Args)]
        \/ UNCHANGED inputs
    BY DEF MakeEvent
  <2>3. called' = called \/ called' = called \cup {n}
    BY DEF MakeEvent
  <2> QED
    BY <1>1, <2>1, <2>2, <2>3, ConcatType
<1>3. tev' \in [Node -> {"none", "unset", "set"}]
  BY DEF MakeEvent, Types
<1> QED
  BY <1>2, <1>3 DEF Kept, NextOK, OutList, MakeEvent, Types, graph, pipes, data, reading, writing, history

LEMMA ReadPipeT == ASSUME Types, NextOK, NEW n \in Node, ReadPipe(n) PROVE Kept
<1>1. /\ UNCHANGED <<graph, sync, signals, pipes, arrived, writing, history>>
      /\ NextOK'
  BY DEF ReadPipe, NextOK, OutList, writing
<1>2. CASE GiveUp(n) /\ UNCHANGED <<slot, pend, finished>>
  BY <1>1, <1>2, GiveUpT DEF Kept, Types, graph, sync, signals, pipes, writing, history
<1>3. CASE Return(n, got[n]) /\ UNCHANGED <<slot, pend, finished>>
  <2>1. got[n] \in Seq(Line)
    BY DEF Types
  <2> QED
    BY <1>1, <1>3, <2>1, ReturnT DEF Kept, Types, graph, sync, signals, pipes, writing, history
<1>4. CASE UNCHANGED <<slot, pend, finished, at, evs, got, strings>>
  BY <1>1, <1>4 DEF Kept, Types, graph, sync, signals, pipes, writing, history, strings
<1>5. CASE ~(at[n] = 1 /\ term[n]) /\ at[n] <= Len(InList[n])
  <2> DEFINE e == InList[n][at[n]]
             more == IF slot[e] # None THEN got[n] \o slot[e] ELSE got[n]
  <2>1. e \in Edge
    BY <1>5, Lists, InOut DEF Types
  <2>2. more \in Seq(Line) /\ slot[e] \in Seq(Line)
    BY <2>1 DEF Types
  <2>3. /\ at' = [at EXCEPT ![n] = @ + 1] /\ UNCHANGED strings
        /\ slot' = slot \/ slot' = [slot EXCEPT ![e] = None]
        /\ got' = got \/ got' = [got EXCEPT ![n] = more]
        /\ finished' = finished \/ finished' = finished \cup {e}
        /\ pend' = pend \/ pend' = pend \cup {e}
        /\ evs' = evs \/ evs' = [evs EXCEPT ![n] = @ \cup {e}]
    <3>1. /\ ~(at[n] = 1 /\ term[n]) /\ ~(at[n] > Len(InList[n]))
      BY <1>5, Lists DEF Types
    <3> HIDE DEF e
    <3> QED
      BY <3>1 DEF ReadPipe, e
  <2> HIDE DEF e, more
  <2>4. /\ at' \in [Node -> Nat \ {0}] /\ evs' \in [Node -> SUBSET Edge] /\ got' \in [Node -> Seq(Line)]
        /\ finished' \subseteq Edge /\ pend' \subseteq Edge
    <3>1. at' \in [Node -> Nat \ {0}]
      BY <2>3 DEF Types
    <3>2. evs' \in [Node -> SUBSET Edge]
      <4>1. evs \in [Node -> SUBSET Edge] /\ evs[n] \cup {e} \in SUBSET Edge
        BY <2>1 DEF Types
      <4> QED
        BY <2>3, <4>1
    <3>3. got' \in [Node -> Seq(Line)]
      BY <2>2, <2>3 DEF Types
    <3>4. finished' \subseteq Edge /\ pend' \subseteq Edge
      BY <2>1, <2>3 DEF Types
    <3> QED
      BY <3>1, <3>2, <3>3, <3>4
  <2>5. slot' \in [Edge -> Seq(Line)]
    <3>1. None \in Seq(Line) /\ slot \in [Edge -> Seq(Line)]
      BY DEF Types, None
    <3> QED
      BY <2>3, <3>1
  <2> QED
    BY <1>1, <2>3, <2>4, <2>5 DEF Kept, Types, graph, sync, signals, pipes, writing, history, strings
<1> QED
  BY <1>2, <1>3, <1>4, <1>5 DEF ReadPipe

LEMMA WaitReadT == ASSUME Types, NextOK, NEW n \in Node, WaitRead(n) PROVE Kept
<1>1. /\ UNCHANGED <<graph, sync, term, pipes, slot, writing, history>>
      /\ NextOK'
  BY DEF WaitRead, NextOK, OutList, writing
<1>2. CASE Came(n) # {}
  <2> DEFINE e == First(n)
             more == got[n] \o arrived[e]
  <2>1. e \in Edge
    BY <1>2, FirstOK
  <2>2. /\ arrived' = [arrived EXCEPT ![e] = None]
        /\ pend' = pend \ {e}
        /\ finished' = finished \/ finished' = finished \cup {e}
        /\ Return(n, more) /\ UNCHANGED tev
    BY <1>2 DEF WaitRead, Came, First
  <2>3. more \in Seq(Line)
    BY <2>1 DEF Types
  <2>4. arrived' \in [Edge -> Seq(Line)] /\ pend' \subseteq Edge /\ finished' \subseteq Edge
    BY <2>1, <2>2 DEF Types, None
  <2> HIDE DEF more
  <2>5. /\ inputs' \in [Node -> Seq(String)] /\ eofs' \in [Node -> Nat] /\ called' \subseteq Node
        /\ at' \in [Node -> Nat \ {0}] /\ evs' \in [Node -> SUBSET Edge] /\ got' \in [Node -> Seq(Line)]
    BY <2>2, <2>3, ReturnT
  <2> QED
    BY <1>1, <2>2, <2>4, <2>5 DEF Kept, Types, graph, sync, pipes, writing, history
<1>3. CASE Came(n) = {}
  <2>1. /\ tev' = [tev EXCEPT ![n] = "unset"] /\ GiveUp(n) /\ UNCHANGED <<arrived, pend, finished>>
    BY <1>3 DEF WaitRead, Came
  <2>2. tev' \in [Node -> {"none", "unset", "set"}]
    BY <2>1 DEF Types
  <2> QED
    BY <1>1, <2>1, <2>2, GiveUpT DEF Kept, Types, graph, sync, pipes, writing, history
<1> QED
  BY <1>2, <1>3

LEMMA TopT == ASSUME Types, NextOK, NEW n \in Node, Top(n) PROVE Kept
BY DEF Kept, NextOK, OutList, Top, Types, graph, sync, signals, pipes, data, reading, strings, writing, history

LEMMA ForT == ASSUME Types, NextOK, NEW n \in Node, For(n) PROVE Kept
<1>1. UNCHANGED <<graph, sync, signals, pipes, data, reading, eofs, called, sent>>
  BY DEF For
<1>2. CASE inputs[n] = <<>>
  BY <1>1, <1>2 DEF Kept, NextOK, OutList, For, Types, graph, sync, signals, pipes, data, reading, writing
<1>3. CASE inputs[n] # <<>>
  <2> DEFINE t == Head(inputs[n])
  <2>1. inputs[n] \in Seq(String) /\ t \in String /\ Tail(inputs[n]) \in Seq(String)
    BY <1>3 DEF Types
  <2>2. t \in Seq(Line)
    BY <2>1, StringType
  <2>3. /\ inputs' = [inputs EXCEPT ![n] = Tail(@)]
        /\ ran' = ran \/ ran' = [ran EXCEPT ![n] = Append(@, t)]
        /\ \/ UNCHANGED writing
           \/ tok' = [tok EXCEPT ![n] = t] /\ UNCHANGED <<to, next, ended>>
           \/ Emit(n, t)
    BY <1>3 DEF For
  <2>4. inputs' \in [Node -> Seq(String)] /\ ran' \in [Node -> Seq(String)]
    <3>1. Append(ran[n], t) \in Seq(String)
      BY <2>1 DEF Types
    <3> HIDE DEF t
    <3>2. inputs \in [Node -> Seq(String)] /\ ran \in [Node -> Seq(String)]
      BY DEF Types
    <3>3. inputs' \in [Node -> Seq(String)]
      BY <2>1, <2>3, <3>2
    <3>4. ran' \in [Node -> Seq(String)]
      BY <2>3, <3>1, <3>2
    <3> QED
      BY <3>3, <3>4
  <2> HIDE DEF t
  <2>5. tok' \in [Node -> Seq(Line)] /\ to' \in [Node -> SUBSET Edge] /\ next' = next /\ ended' = ended
    <3>1. CASE Emit(n, t)
      BY <2>2, <3>1, EmitT
    <3>2. CASE UNCHANGED writing \/ (tok' = [tok EXCEPT ![n] = t] /\ UNCHANGED <<to, next, ended>>)
      <4>1. UNCHANGED <<to, next, ended>> /\ (tok' = tok \/ tok' = [tok EXCEPT ![n] = t])
        BY <3>2 DEF writing
      <4>2. tok' \in [Node -> Seq(Line)]
        BY <2>2, <4>1 DEF Types
      <4> QED
        BY <4>1, <4>2 DEF Types
    <3> QED
      BY <2>3, <3>1, <3>2
  <2>6. NextOK'
    BY <2>5 DEF NextOK, OutList
  <2> QED
    BY <1>1, <2>4, <2>5, <2>6 DEF Kept, Types, graph, sync, signals, pipes, data, reading
<1> QED
  BY <1>2, <1>3

LEMMA RunCommandT == ASSUME Types, NextOK, NEW n \in Node, RunCommand(n) PROVE Kept
<1>1. tok' \in [Node -> Seq(Line)] /\ to' \in [Node -> SUBSET Edge] /\ next' = next /\ ended' = ended
  <2>1. tok[n] \in Seq(Line)
    BY DEF Types
  <2>2. CASE Emit(n, tok[n])
    BY <2>1, <2>2, EmitT
  <2>3. CASE UNCHANGED writing
    BY <2>3 DEF writing, Types
  <2> QED
    BY <2>2, <2>3 DEF RunCommand
<1> QED
  BY <1>1 DEF Kept, NextOK, OutList, RunCommand, Types, graph, sync, signals, pipes, data, reading, strings, history

LEMMA WriteT == ASSUME Types, NextOK, NEW n \in Node, Write(n) PROVE Kept
<1>1. UNCHANGED <<graph, sync, signals, pipes, reading, strings, writing, ran>>
  BY DEF Write
<1>2. slot' \in [Edge -> Seq(Line)] /\ arrived' \in [Edge -> Seq(Line)] /\ sent' \in [Edge -> Seq(Line)]
  <2>1. tok[n] \in Seq(Line)
    BY DEF Types
  <2>2. CASE UNCHANGED <<data, sent>>
    BY <2>2 DEF data, Types
  <2>3. CASE ~UNCHANGED <<data, sent>>
    <3>1. PICK takers \in SUBSET to[n] :
          /\ arrived' = [e \in Edge |-> IF e \in takers THEN tok[n] ELSE arrived[e]]
          /\ slot' = [e \in Edge |-> IF e \in to[n] \ takers THEN tok[n] ELSE slot[e]]
          /\ sent' = [e \in Edge |-> IF e \in to[n] THEN sent[e] \o tok[n] ELSE sent[e]]
      BY <2>3 DEF Write
    <3>2. \A e \in Edge : slot[e] \in Seq(Line) /\ arrived[e] \in Seq(Line) /\ sent[e] \o tok[n] \in Seq(Line) /\ sent[e] \in Seq(Line)
      BY <2>1 DEF Types
    <3> QED
      BY <2>1, <3>1, <3>2
  <2> QED
    BY <2>2, <2>3
<1> QED
  BY <1>1, <1>2 DEF Kept, NextOK, OutList, Types, graph, sync, signals, pipes, reading, strings, writing

LEMMA FlushT == ASSUME Types, NextOK, NEW n \in Node, Flush(n) PROVE Kept
<1>1. UNCHANGED <<graph, sync, signals, pipes, data, reading, strings, tok, to, ended, history>>
  BY DEF Flush
<1>2. next' \in [Node -> Nat] /\ NextOK'
  <2>1. CASE next' = next
    BY <2>1 DEF Types, NextOK, OutList
  <2>2. CASE next' # next
    <3> DEFINE last == Len(OutList[n])
    <3>1. Kind[n] = "distro" /\ next' = [next EXCEPT ![n] = IF @ = last THEN 1 ELSE @ + 1]
      BY <2>2 DEF Flush, Dealing
    <3>2. next[n] \in 1..last /\ last \in Nat /\ 1 \in 1..last /\ next \in [Node -> Nat]
      BY <3>1, DistroOut DEF NextOK, Types
    <3> HIDE DEF last
    <3>3. next'[n] = IF next[n] = last THEN 1 ELSE next[n] + 1
      BY <3>1, <3>2
    <3>4. next'[n] \in 1..last
      BY <3>2, <3>3
    <3>5. \A m \in Node : m # n => next'[m] = next[m]
      BY <3>1, <3>2
    <3>6. next[n] + 1 \in Nat /\ 1 \in Nat
      BY <3>2
    <3>7. next' \in [Node -> Nat]
      BY <3>1, <3>2, <3>6
    <3>8. NextOK'
      BY <3>4, <3>5 DEF NextOK, OutList, last
    <3> QED
      BY <3>7, <3>8
  <2> QED
    BY <2>1, <2>2
<1> QED
  BY <1>1, <1>2 DEF Kept, Types, graph, sync, signals, pipes, data, reading, strings, history

LEMMA EndT == ASSUME Types, NextOK, NEW n \in Node, End(n) PROVE Kept
<1>1. tok' \in [Node -> Seq(Line)] /\ to' \in [Node -> SUBSET Edge] /\ ended' \subseteq Node
  <2>1. <<EOF>> \in Seq(Line) /\ Out(n) \in SUBSET Edge
    BY LineAssumption, InOut
  <2> QED
    BY <2>1 DEF End, Types
<1>2. inputs' \in [Node -> Seq(String)] /\ next' = next
  BY DEF End, Types
<1> QED
  BY <1>1, <1>2 DEF Kept, NextOK, OutList, End, Types, graph, sync, signals, pipes, data, reading, history

LEMMA CloseT == ASSUME Types, NextOK, NEW n \in Node, Close(n) PROVE Kept
BY DEF Kept, NextOK, OutList, Close, Types, graph, signals, pipes, data, reading, strings, writing, history

LEMMA BarrierT == ASSUME Types, NextOK, NEW n \in Node, Barrier(n) PROVE Kept
BY DEF Kept, NextOK, OutList, Barrier, Types, graph, sync, signals, pipes, data, reading, strings, writing, history

LEMMA ClosePipesT == ASSUME Types, NextOK, NEW n \in Node, ClosePipes(n) PROVE Kept
<1>1. /\ pipe' \in [Edge -> {"none", "listening", "open", "closed"}] /\ held' \subseteq Edge
      /\ tev' \in [Node -> {"none", "unset", "set"}]
  BY DEF ClosePipes, Types
<1> QED
  BY <1>1 DEF Kept, NextOK, OutList, ClosePipes, Types, graph, sync, data, reading, strings, writing, history

LEMMA ThreadSignals ==
  ASSUME Types, NEW n \in Node, Thread(n)
  PROVE  UNCHANGED <<graph, term>> /\ \A m \in Node : tev'[m] = "set" => tev[m] = "set"
<1>1. CASE UNCHANGED <<graph, signals>>
  BY <1>1 DEF signals
<1>2. CASE UNCHANGED <<graph, term>> /\ \E x \in {"unset", "none"} : tev' = [tev EXCEPT ![n] = x]
  BY <1>2 DEF Types
<1>3. \/ UNCHANGED <<graph, signals>>
      \/ UNCHANGED <<graph, term>> /\ \E x \in {"unset", "none"} : tev' = [tev EXCEPT ![n] = x]
  <2>1. CASE WaitRead(n)
    BY <2>1 DEF WaitRead, signals
  <2>2. CASE MakeEvent(n) \/ ClosePipes(n)
    BY <2>2 DEF MakeEvent, ClosePipes
  <2> QED
    BY <2>1, <2>2 DEF Thread, Create, ConnectPipe, OpenPipe, ReadPipe, Top, For, RunCommand, Write, Flush,
       End, Close, Barrier
<1> QED
  BY <1>1, <1>2, <1>3

LEMMA ThreadT == ASSUME TInv, NEW n \in Node, Thread(n) PROVE TInv'
<1>1. Types /\ CountedOK /\ StartOK /\ NextOK /\ CalmOK
  BY TypeParts DEF TInv
<1>2. CountedOK' /\ StartOK'
  BY <1>1, ThreadMoves, MovesOK
<1>3. Types' /\ NextOK'
  BY <1>1, CreateT, ConnectPipeT, OpenPipeT, MakeEventT, ReadPipeT, WaitReadT, TopT, ForT, RunCommandT,
     WriteT, FlushT, EndT, CloseT, BarrierT, ClosePipesT DEF Thread, Kept
<1>4. TypeOK'
  <2>1. TypeOK' <=> Types' /\ CountedOK'
    BY DEF TypeOK, Types, CountedOK, Running
  <2> QED
    BY <1>2, <1>3, <2>1
<1>5. CalmOK'
  BY <1>1, ThreadSignals DEF CalmOK, graph
<1> QED
  BY <1>2, <1>3, <1>4, <1>5 DEF TInv

LEMMA StartT == ASSUME TInv, Start PROVE TInv'
<1> DEFINE n == Order[started + 1]
<1>1. Types /\ CountedOK /\ StartOK /\ NextOK /\ CalmOK
  BY TypeParts DEF TInv
<1>2. /\ started \in Nat /\ Len(Order) \in Nat /\ started < Len(Order) /\ started + 1 \in 1..Len(Order)
      /\ \A i \in 1..Len(Order) : Order[i] \in Node
      /\ \A i, j \in 1..Len(Order) : Order[i] = Order[j] => i = j
  <2>1. Order \in Seq(Node) /\ IsInjective(Order)
    BY WinAssumption
  <2>2. DOMAIN Order = 1..Len(Order) /\ Len(Order) \in Nat
    BY <2>1
  <2>3. started \in 0..Len(Order) /\ started < Len(Order)
    BY <1>1 DEF Start, Types
  <2> QED
    BY <2>1, <2>2, <2>3 DEF IsInjective
<1>3. n \in Node /\ pc[n] = "off"
  BY <1>1, <1>2 DEF StartOK
<1>4. /\ started' = started + 1 /\ term' = [term EXCEPT ![n] = FALSE] /\ pc' = [pc EXCEPT ![n] = "create"]
      /\ UNCHANGED <<stopping, stops, sync, tev, pipes, data, reading, strings, writing, history>>
  BY DEF Start, Goto
<1>5. CountedOK'
  <2>1. pc' \in [Node -> PCs] /\ nodecount' = nodecount
    BY <1>1, <1>4 DEF CountedOK, PCs, Opening, sync
  <2>2. Running' = Running
    BY <1>1, <1>3, <1>4 DEF Running, CountedOK, Opening, Closing
  <2> QED
    BY <1>1, <2>1, <2>2 DEF CountedOK
<1>6. StartOK'
  <2> SUFFICES ASSUME NEW i \in 1..Len(Order), i > started + 1 PROVE pc'[Order[i]] = "off"
    BY <1>4 DEF StartOK
  <2>1. i > started /\ i # started + 1
    BY <1>2
  <2>2. Order[i] # n /\ Order[i] \in Node /\ pc[Order[i]] = "off"
    BY <1>1, <1>2, <2>1 DEF StartOK
  <2> QED
    BY <1>1, <1>4, <2>2 DEF CountedOK
<1>7. Types'
  <2>1. started' \in 0..Len(Order)
    BY <1>2, <1>4
  <2>2. term' \in [Node -> BOOLEAN]
    BY <1>1, <1>4 DEF Types
  <2> QED
    BY <1>1, <1>4, <2>1, <2>2 DEF Types, sync, pipes, data, reading, strings, writing, history
<1>8. NextOK'
  BY <1>1, <1>4 DEF NextOK, OutList, writing
<1>9. CalmOK'
  BY <1>1, <1>4 DEF CalmOK, Types
<1>10. TypeOK' <=> Types' /\ CountedOK'
  BY DEF TypeOK, Types, CountedOK, Running
<1> QED
  BY <1>5, <1>6, <1>7, <1>8, <1>9, <1>10 DEF TInv

LEMMA TerminateT == ASSUME TInv, Terminate PROVE TInv' /\ stops' # 0
<1>1. stops \in Nat /\ stops' = stops + 1 /\ stops < MaxStops /\ MaxStops \in Nat
  BY WinAssumption DEF TInv, TypeOK, Terminate
<1>2. stops' \in 0..MaxStops /\ stops' # 0
  BY <1>1
<1>3. UNCHANGED <<started, pc, sync, signals, pipes, data, reading, strings, writing, history>>
  BY DEF Terminate
<1>4. TypeOK'
  BY <1>2, <1>3 DEF TInv, TypeOK, sync, signals, pipes, data, reading, strings, writing, history
<1> QED
  BY <1>2, <1>3, <1>4 DEF TInv, StartOK, NextOK, OutList, CalmOK, writing

LEMMA StopStepT == ASSUME TInv, StopStep PROVE TInv' /\ stops' # 0
<1>1. stops # 0 /\ stops' = stops
  BY DEF TInv, CalmOK, StopStep
<1>2. UNCHANGED <<started, stops, pc, sync, pipes, data, reading, strings, writing, history>>
  BY DEF StopStep
<1>3. term' \in [Node -> BOOLEAN] /\ tev' \in [Node -> {"none", "unset", "set"}]
  BY DEF TInv, TypeOK, StopStep
<1>4. TypeOK'
  BY <1>2, <1>3 DEF TInv, TypeOK, sync, pipes, data, reading, strings, writing, history
<1> QED
  BY <1>1, <1>2, <1>4 DEF TInv, StartOK, NextOK, OutList, CalmOK, writing

LEMMA StutterT == ASSUME TInv, UNCHANGED vars PROVE TInv'
BY DEF TInv, TypeOK, StartOK, NextOK, OutList, CalmOK, vars, graph, sync, signals, pipes, data, reading, strings,
   writing, history

LEMMA TypesKept == TInv /\ [Next]_vars => TInv'
BY ThreadT, StartT, TerminateT, StopStepT, StutterT DEF Next

(* The variables have their types, and nodecount, by which the threads know
   in CloseWindowsPipes that all are done, is the number of those that have
   opened their pipes and not closed them.                                  *)
THEOREM WinTypeCorrect == Spec => []TypeOK
<1>1. Spec => []TInv
  BY InitT, TypesKept, PTL DEF Spec
<1>2. TInv => TypeOK
  BY DEF TInv
<1> QED
  BY <1>1, <1>2, PTL

-----------------------------------------------------------------------------
(* What a thread does in an execution that nobody terminates. *)

LEMMA Calm ==
  ASSUME TInv, stops = 0
  PROVE  Types /\ CountedOK /\ stopping = <<>> /\ \A n \in Node : ~term[n] /\ tev[n] # "set"
BY TypeParts DEF TInv, CalmOK

(* What belongs to the thread of a node is left alone by the others. *)
OwnKept(m) ==
  /\ pc'[m] = pc[m] /\ inputs'[m] = inputs[m] /\ eofs'[m] = eofs[m] /\ got'[m] = got[m]
  /\ at'[m] = at[m] /\ evs'[m] = evs[m] /\ tok'[m] = tok[m] /\ to'[m] = to[m]
  /\ next'[m] = next[m] /\ ran'[m] = ran[m]
  /\ (m \in called' <=> m \in called) /\ (m \in ended' <=> m \in ended)

LEMMA EmitOwn ==
  ASSUME Types, CountedOK, NEW n \in Node, NEW t, Emit(n, t), NEW m \in Node, m # n
  PROVE  pc'[m] = pc[m] /\ tok'[m] = tok[m] /\ to'[m] = to[m] /\ UNCHANGED <<next, ended>>
<1>1. /\ tok' = [tok EXCEPT ![n] = t] /\ pc' = [pc EXCEPT ![n] = "write"]
      /\ \E x : to' = [to EXCEPT ![n] = x]
      /\ UNCHANGED <<next, ended>>
  BY DEF Emit, Goto
<1> QED
  BY <1>1 DEF Types, CountedOK

LEMMA ReturnOwn ==
  ASSUME Types, CountedOK, NEW n \in Node, NEW g, Return(n, g), NEW m \in Node, m # n
  PROVE  /\ pc'[m] = pc[m] /\ inputs'[m] = inputs[m] /\ eofs'[m] = eofs[m] /\ got'[m] = got[m]
         /\ at'[m] = at[m] /\ evs'[m] = evs[m] /\ (m \in called' <=> m \in called)
<1>1. inputs'[m] = inputs[m]
  <2>1. \/ UNCHANGED inputs
        \/ Concat(n, Taken(n, g))
        \/ \E x : inputs' = [inputs EXCEPT ![n] = x]
    BY DEF Return
  <2> QED
    BY <2>1 DEF Concat, Types
<1>2. pc'[m] = pc[m]
  BY DEF Return, Goto, CountedOK
<1>3. m \in called' <=> m \in called
  BY DEF Return
<1>4. eofs'[m] = eofs[m] /\ got'[m] = got[m] /\ at'[m] = at[m] /\ evs'[m] = evs[m]
  BY DEF Return, Types
<1> QED
  BY <1>1, <1>2, <1>3, <1>4

LEMMA OthersAlone ==
  ASSUME Types, CountedOK, NEW n \in Node, Thread(n), NEW m \in Node, m # n
  PROVE  OwnKept(m)
<1> USE DEF OwnKept, Types, CountedOK, Goto, reading, strings, writing, history
<1>1. CASE Create(n)
  BY <1>1 DEF Create
<1>2. CASE ConnectPipe(n)
  BY <1>2 DEF ConnectPipe
<1>3. CASE OpenPipe(n)
  BY <1>3 DEF OpenPipe
<1>4. CASE MakeEvent(n)
  <2>1. inputs' = inputs \/ \E x : inputs' = [inputs EXCEPT ![n] = x]
    BY <1>4 DEF MakeEvent, Concat
  <2>2. inputs'[m] = inputs[m]
    BY <2>1
  <2>3. /\ pc' = [pc EXCEPT ![n] = "top"] \/ pc' = [pc EXCEPT ![n] = "read"]
        /\ called' = called \/ called' = called \cup {n}
        /\ UNCHANGED <<reading, eofs, writing, history>>
    BY <1>4 DEF MakeEvent
  <2> QED
    BY <2>2, <2>3
<1>5. CASE ReadPipe(n)
  <2>1. UNCHANGED <<writing, history>>
    BY <1>5 DEF ReadPipe
  <2>2. CASE Return(n, got[n])
    <3>1. /\ pc'[m] = pc[m] /\ inputs'[m] = inputs[m] /\ eofs'[m] = eofs[m] /\ got'[m] = got[m]
          /\ at'[m] = at[m] /\ evs'[m] = evs[m] /\ (m \in called' <=> m \in called)
      BY <2>2, ReturnOwn
    <3> QED
      BY <2>1, <3>1
  <2>3. CASE ~Return(n, got[n])
    <3>1. CASE GiveUp(n)
      BY <2>1, <3>1 DEF GiveUp
    <3>2. CASE UNCHANGED <<at, evs, got, strings>> /\ Goto(n, "wait")
      BY <2>1, <3>2
    <3>3. CASE ~GiveUp(n) /\ ~Goto(n, "wait")
      <4>1. /\ UNCHANGED <<pc, strings>> /\ at' = [at EXCEPT ![n] = @ + 1]
            /\ evs' = evs \/ \E x : evs' = [evs EXCEPT ![n] = x]
            /\ got' = got \/ \E x : got' = [got EXCEPT ![n] = x]
        BY <1>5, <2>3, <3>3 DEF ReadPipe
      <4> QED
        BY <2>1, <4>1
    <3> QED
      BY <1>5, <2>3, <3>1, <3>2, <3>3 DEF ReadPipe
  <2> QED
    BY <2>2, <2>3
<1>6. CASE WaitRead(n)
  <2>1. UNCHANGED <<writing, history>>
    BY <1>6 DEF WaitRead
  <2>2. CASE \E g : Return(n, g)
    <3>1. /\ pc'[m] = pc[m] /\ inputs'[m] = inputs[m] /\ eofs'[m] = eofs[m] /\ got'[m] = got[m]
          /\ at'[m] = at[m] /\ evs'[m] = evs[m] /\ (m \in called' <=> m \in called)
      BY <2>2, ReturnOwn
    <3> QED
      BY <2>1, <3>1
  <2>3. CASE GiveUp(n)
    BY <2>1, <2>3 DEF GiveUp
  <2> QED
    BY <1>6, <2>2, <2>3 DEF WaitRead
<1>7. CASE Top(n)
  BY <1>7 DEF Top
<1>8. CASE For(n)
  <2>1. /\ UNCHANGED <<reading, eofs, called>>
        /\ inputs' = inputs \/ inputs' = [inputs EXCEPT ![n] = Tail(@)]
        /\ ran' = ran \/ \E x : ran' = [ran EXCEPT ![n] = x]
    BY <1>8 DEF For
  <2>2. inputs'[m] = inputs[m] /\ ran'[m] = ran[m]
    BY <2>1
  <2>3. CASE \E t : Emit(n, t)
    <3>1. PICK t : Emit(n, t)
      BY <2>3
    <3>2. pc'[m] = pc[m] /\ tok'[m] = tok[m] /\ to'[m] = to[m] /\ UNCHANGED <<next, ended>>
      BY <3>1, EmitOwn
    <3> QED
      BY <2>1, <2>2, <3>2
  <2>4. CASE /\ pc' = pc \/ \E place : pc' = [pc EXCEPT ![n] = place]
             /\ tok' = tok \/ \E t : tok' = [tok EXCEPT ![n] = t]
             /\ UNCHANGED <<to, next, ended>>
    <3>1. pc'[m] = pc[m] /\ tok'[m] = tok[m]
      BY <2>4
    <3> QED
      BY <2>1, <2>2, <2>4, <3>1
  <2>5. \/ UNCHANGED <<pc, tok, to, next, ended>>
        \/ \E place : pc' = [pc EXCEPT ![n] = place] /\ UNCHANGED <<tok, to, next, ended>>
        \/ \E t : /\ pc' = [pc EXCEPT ![n] = "exec"]
                 /\ tok' = [tok EXCEPT ![n] = t] /\ UNCHANGED <<to, next, ended>>
        \/ \E t : Emit(n, t)
    <3>1. CASE inputs[n] = <<>>
      BY <1>8, <3>1 DEF For
    <3>2. CASE inputs[n] # <<>>
      BY <1>8, <3>2 DEF For
    <3> QED
      BY <3>1, <3>2
  <2> QED
    BY <2>3, <2>4, <2>5
<1>9. CASE RunCommand(n)
  <2>1. UNCHANGED <<reading, strings, history>>
    BY <1>9 DEF RunCommand
  <2>2. CASE Emit(n, tok[n])
    BY <2>1, <2>2, EmitOwn
  <2>3. CASE Goto(n, "end") /\ UNCHANGED writing
    BY <2>1, <2>3
  <2> QED
    BY <1>9, <2>2, <2>3 DEF RunCommand
<1>10. CASE Write(n)
  BY <1>10 DEF Write, Written
<1>11. CASE Flush(n)
  <2>1. next' = next \/ \E x : next' = [next EXCEPT ![n] = x]
    BY <1>11 DEF Flush
  <2>2. next'[m] = next[m]
    BY <2>1
  <2> QED
    BY <1>11, <2>2 DEF Flush, Written
<1>12. CASE End(n)
  BY <1>12 DEF End
<1>13. CASE Close(n)
  BY <1>13 DEF Close
<1>14. CASE Barrier(n)
  BY <1>14 DEF Barrier
<1>15. CASE ClosePipes(n)
  BY <1>15 DEF ClosePipes
<1> QED
  BY <1>1, <1>2, <1>3, <1>4, <1>5, <1>6, <1>7, <1>8, <1>9, <1>10, <1>11, <1>12, <1>13, <1>14, <1>15
     DEF Thread

(* ReadInputs comes to its end. *)
LEMMA ReturnCalm ==
  ASSUME Types, NEW n \in Node, ~term[n], NEW g \in Seq(Line), Return(n, g)
  PROVE  LET all   == AsStrings(g) \o inputs[n]
             sum   == eofs[n] + EofsIn(all)
             place == Whereto(n, sum = Cardinality(In(n)))
         IN
         /\ all \in Seq(String) /\ sum \in Nat
         /\ eofs'[n] = sum /\ at'[n] = 1 /\ evs'[n] = {} /\ got'[n] = <<>>
         /\ pc' = [pc EXCEPT ![n] = place] /\ place \in {"read", "end", "top"}
         /\ \/ n \in Batch \ called /\ place # "read" /\ Concat(n, all)
            \/ (n \notin Batch \ called \/ place = "read") /\ inputs'[n] = IF place = "end" THEN <<>> ELSE all
         /\ called' = IF place = "read" THEN called ELSE called \cup {n}
<1> DEFINE all   == AsStrings(g) \o inputs[n]
           sum   == eofs[n] + EofsIn(all)
           place == Whereto(n, sum = Cardinality(In(n)))
<1>1. all = Taken(n, g)
  BY DEF Taken
<1>2. all \in Seq(String)
  BY AsStringsType DEF Types
<1>3. sum \in Nat
  <2>1. EofsIn(all) \in Nat
    BY <1>2, EofsInType
  <2> QED
    BY <2>1 DEF Types
<1>4. place \in {"read", "end", "top"}
  BY DEF Whereto
<1>5. /\ eofs' = [eofs EXCEPT ![n] = sum] /\ at' = [at EXCEPT ![n] = 1] /\ evs' = [evs EXCEPT ![n] = {}]
      /\ got' = [got EXCEPT ![n] = <<>>] /\ Goto(n, place)
      /\ IF n \in Batch \ called /\ place # "read"
           THEN Concat(n, all)
           ELSE inputs' = [inputs EXCEPT ![n] = IF place = "end" THEN <<>> ELSE all]
      /\ called' = IF place = "read" THEN called ELSE called \cup {n}
  <2> HIDE DEF all, sum, place
  <2>1. Taken(n, g) = all /\ sum = eofs[n] + EofsIn(all) /\ place = Whereto(n, sum = Cardinality(In(n)))
    BY <1>1 DEF sum, place
  <2> QED
    BY <2>1 DEF Return
<1> HIDE DEF all, sum, place
<1>6. /\ eofs'[n] = sum /\ at'[n] = 1 /\ evs'[n] = {} /\ got'[n] = <<>>
      /\ pc' = [pc EXCEPT ![n] = place]
  BY <1>5 DEF Types, Goto
<1>7. \/ n \in Batch \ called /\ place # "read" /\ Concat(n, all)
      \/ (n \notin Batch \ called \/ place = "read") /\ inputs'[n] = IF place = "end" THEN <<>> ELSE all
  BY <1>5 DEF Types
<1> QED
  BY <1>2, <1>3, <1>4, <1>5, <1>6, <1>7 DEF all, sum, place

(* It has looked at a pipe. *)
ReadsPipe(n, e) ==
  /\ at'[n] = at[n] + 1
  /\ UNCHANGED <<pc, strings>>
  /\ \/ /\ e \in finished \/ e \in pend
        /\ UNCHANGED <<slot, pend, finished, got>>
        /\ evs'[n] = IF e \in finished THEN evs[n] ELSE evs[n] \cup {e}
     \/ /\ e \notin finished /\ e \notin pend /\ slot[e] = None
        /\ UNCHANGED <<slot, got>>
        /\ evs'[n] = evs[n] \cup {e}
        /\ pend' = pend \cup {e}
        /\ finished' = finished \/ (finished' = finished \cup {e} /\ got[n] # <<>>)
     \/ /\ e \notin finished /\ e \notin pend /\ slot[e] # None
        /\ slot' = [slot EXCEPT ![e] = None]
        /\ got'[n] = got[n] \o slot[e]
        /\ UNCHANGED <<evs, pend>>
        /\ finished' = finished \/ finished' = finished \cup {e}

LEMMA ReadPipeCalm ==
  ASSUME Types, NEW n \in Node, ~term[n], ReadPipe(n)
  PROVE  /\ pc[n] = "read" /\ UNCHANGED <<graph, sync, signals, pipes, arrived, writing, history>>
         /\ \/ at[n] \in 1..Len(InList[n]) /\ InList[n][at[n]] \in In(n) /\ ReadsPipe(n, InList[n][at[n]])
            \/ at[n] > Len(InList[n]) /\ evs[n] = {} /\ Return(n, got[n]) /\ UNCHANGED <<slot, pend, finished>>
            \/ /\ at[n] > Len(InList[n]) /\ evs[n] # {} /\ pc' = [pc EXCEPT ![n] = "wait"]
               /\ UNCHANGED <<slot, pend, finished, at, evs, got, strings>>
<1>1. pc[n] = "read" /\ UNCHANGED <<graph, sync, signals, pipes, arrived, writing, history>>
  BY DEF ReadPipe
<1>2. at[n] \in Nat \ {0} /\ Len(InList[n]) \in Nat
  BY Lists DEF Types
<1>3. CASE at[n] > Len(InList[n])
  <2>1. ~(at[n] = 1 /\ term[n]) /\ ~(at[n] <= Len(InList[n]))
    BY <1>2, <1>3
  <2>2. /\ UNCHANGED <<slot, pend, finished>>
        /\ IF evs[n] = {} THEN Return(n, got[n])
             ELSE Goto(n, "wait") /\ UNCHANGED <<at, evs, got, strings>>
    BY <2>1 DEF ReadPipe
  <2> QED
    BY <1>1, <1>3, <2>2 DEF Goto
<1>4. CASE at[n] <= Len(InList[n])
  <2> DEFINE e == InList[n][at[n]]
  <2>1. at[n] \in 1..Len(InList[n]) /\ e \in In(n) /\ e \in Edge
    BY <1>2, <1>4, Lists, InOut
  <2>2. /\ at' = [at EXCEPT ![n] = @ + 1] /\ UNCHANGED <<pc, strings>>
        /\ \/ e \in finished /\ UNCHANGED <<slot, pend, finished, evs, got>>
           \/ /\ e \notin finished /\ e \in pend
              /\ evs' = [evs EXCEPT ![n] = @ \cup {e}] /\ UNCHANGED <<slot, pend, finished, got>>
           \/ /\ e \notin finished /\ e \notin pend /\ slot[e] = None
              /\ slot' = [slot EXCEPT ![e] = None] /\ got' = [got EXCEPT ![n] = got[n]]
              /\ finished' = IF EndsWithEof(got[n]) THEN finished \cup {e} ELSE finished
              /\ pend' = pend \cup {e} /\ evs' = [evs EXCEPT ![n] = @ \cup {e}]
           \/ /\ e \notin finished /\ e \notin pend /\ slot[e] # None
              /\ slot' = [slot EXCEPT ![e] = None] /\ got' = [got EXCEPT ![n] = got[n] \o slot[e]]
              /\ finished' = finished \/ finished' = finished \cup {e}
              /\ pend' = pend /\ evs' = evs
    <3>1. ~(at[n] > Len(InList[n])) /\ ~(at[n] = 1 /\ term[n])
      BY <1>2, <1>4
    <3> HIDE DEF e
    <3>2. e = InList[n][at[n]]
      BY DEF e
    <3> QED
      BY <3>1, <3>2 DEF ReadPipe
  <2> HIDE DEF e
  <2>3. slot[e] = None /\ slot' = [slot EXCEPT ![e] = None] => slot' = slot
    BY <2>1 DEF Types
  <2>4. got' = [got EXCEPT ![n] = got[n]] => got' = got
    BY DEF Types
  <2>5. ReadsPipe(n, e)
    BY <2>1, <2>2, <2>3, <2>4 DEF ReadsPipe, Types, EndsWithEof
  <2> QED
    BY <1>1, <2>1, <2>5 DEF e
<1> QED
  BY <1>2, <1>3, <1>4

LEMMA WaitReadCalm ==
  ASSUME Types, NEW n \in Node, ~term[n], tev[n] # "set", WaitRead(n)
  PROVE  \E e \in In(n) :
           /\ pc[n] = "wait" /\ UNCHANGED <<graph, sync, signals, pipes, slot, writing, history>>
           /\ e \in Edge /\ e \in evs[n] /\ arrived[e] # None
           /\ arrived' = [arrived EXCEPT ![e] = None] /\ pend' = pend \ {e}
           /\ finished' = finished \/ finished' = finished \cup {e}
           /\ got[n] \o arrived[e] \in Seq(Line)
           /\ Return(n, got[n] \o arrived[e])
<1>1. Came(n) # {}
  BY DEF WaitRead, Came
<1> DEFINE e == First(n)
<1>2. e \in In(n) /\ e \in Edge /\ e \in evs[n] /\ arrived[e] # None
  BY <1>1, FirstOK
<1>3. /\ pc[n] = "wait" /\ UNCHANGED <<graph, sync, signals, pipes, slot, writing, history>>
      /\ arrived' = [arrived EXCEPT ![e] = None] /\ pend' = pend \ {e}
      /\ finished' = finished \/ finished' = finished \cup {e}
      /\ Return(n, got[n] \o arrived[e])
  BY <1>1 DEF WaitRead, Came, First, signals
<1>4. got[n] \o arrived[e] \in Seq(Line)
  BY <1>2 DEF Types
<1> HIDE DEF e
<1> QED
  BY <1>2, <1>3, <1>4

LEMMA WriteCalm ==
  ASSUME NEW n \in Node, ~term[n], Write(n)
  PROVE  LET takers == {e \in to[n] : e \in pend /\ arrived[e] = None} IN
         /\ pc[n] = "write" /\ pc' = [pc EXCEPT ![n] = "flush"]
         /\ UNCHANGED <<graph, sync, signals, pipes, reading, strings, writing, ran>>
         /\ arrived' = [e \in Edge |-> IF e \in takers THEN tok[n] ELSE arrived[e]]
         /\ slot' = [e \in Edge |-> IF e \in to[n] \ takers THEN tok[n] ELSE slot[e]]
         /\ sent' = [e \in Edge |-> IF e \in to[n] THEN sent[e] \o tok[n] ELSE sent[e]]
BY DEF Write, Goto

-----------------------------------------------------------------------------
(* What a thread has in hand: whole streams' ends and other strings apart,  *)
(* and nothing that is half read but in ReadInputs.                         *)

Taking(n) == pc[n] \in {"read", "wait"}
Shaped(S) == \A i \in 1..Len(S) : S[i] = <<EOF>> \/ NoEof(S[i])
Single(S) == \A i \in 1..Len(S) : Len(S[i]) = 1
AllEof(S) == \A i \in 1..Len(S) : S[i] = <<EOF>>

HandOK(n) ==
  /\ Shaped(inputs[n])
  /\ n \notin called => Single(inputs[n])
  /\ pc[n] \in Opening => inputs[n] = <<>> /\ n \notin called /\ eofs[n] = 0
  /\ pc[n] \notin Opening \cup {"read", "wait"} => n \in called
  /\ pc[n] = "exec" => NoEof(tok[n]) /\ tok[n] # <<>>
  /\ pc[n] \in {"write", "flush"} =>
       \/ n \in ended /\ tok[n] = <<EOF>> /\ to[n] = Out(n)
       \/ n \notin ended /\ NoEof(tok[n]) /\ tok[n] # <<>> /\ to[n] \subseteq Out(n)
  /\ pc[n] \notin {"write", "flush", "close"} \cup Closing => n \notin ended
  /\ ~Taking(n) => got[n] = <<>> /\ at[n] = 1

(* A root node reads no pipe, and no "EOF" is among what it was given. *)
RootOK(n) == Root(n) =>
  /\ ~Taking(n) /\ eofs[n] = 0
  /\ Kind[n] # "command" => \A i \in 1..Len(inputs[n]) : inputs[n][i] # <<EOF>>

LEMMA InitHand == ASSUME Init, NEW n \in Node PROVE HandOK(n) /\ RootOK(n)
BY DEF Init, HandOK, RootOK, Taking, Shaped, Single, All, Opening, Closing

LEMMA FlushCalm ==
  ASSUME NEW n \in Node, HandOK(n), tev[n] # "set", Flush(n)
  PROVE  /\ pc[n] = "flush" /\ \A e \in to[n] : slot[e] = None
         /\ pc' = [pc EXCEPT ![n] = IF tok[n] = <<EOF>> THEN "close" ELSE "for"]
         /\ UNCHANGED <<graph, sync, signals, pipes, data, reading, strings, tok, to, ended, history>>
<1>1. pc[n] = "flush" /\ (n \in ended <=> tok[n] = <<EOF>>)
  BY AloneEof DEF Flush, HandOK
<1> QED
  BY <1>1 DEF Flush, Written, Goto

(* The loop passes over an "EOF" and nothing else. *)
PlainFor(n) ==
  /\ pc[n] = "for"
  /\ UNCHANGED <<graph, sync, signals, pipes, data, reading, eofs, called, sent>>
  /\ \/ /\ inputs[n] = <<>>
        /\ Goto(n, IF eofs[n] = Cardinality(In(n)) THEN "end" ELSE "read")
        /\ UNCHANGED <<inputs, writing, ran>>
     \/ /\ inputs[n] # <<>>
        /\ inputs' = [inputs EXCEPT ![n] = Tail(@)]
        /\ LET t == Head(inputs[n]) IN
           \/ t = <<EOF>> /\ UNCHANGED <<pc, writing, ran>>
           \/ /\ t # <<EOF>>
              /\ ran' = [ran EXCEPT ![n] = Append(@, t)]
              /\ \/ Goto(n, "exec") /\ tok' = [tok EXCEPT ![n] = t] /\ UNCHANGED <<to, next, ended>>
                 \/ Emit(n, t)
                 \/ UNCHANGED <<pc, writing>>

LEMMA ForPlain ==
  ASSUME Types, NEW n \in Node, RootOK(n), ~term[n], For(n)
  PROVE  PlainFor(n)
<1>1. CASE inputs[n] = <<>>
  BY <1>1 DEF For, PlainFor
<1>2. CASE inputs[n] # <<>>
  <2> DEFINE t == Head(inputs[n])
  <2>1. inputs[n] \in Seq(String)
    BY DEF Types
  <2>2. t = inputs[n][1] /\ 1 \in 1..Len(inputs[n])
    BY <1>2, <2>1
  <2>3. Skipped(n, t) <=> t = <<EOF>>
    BY <2>2 DEF Skipped, RootOK
  <2> HIDE DEF t
  <2>4. t = Head(inputs[n])
    BY DEF t
  <2> QED
    BY <1>2, <2>3, <2>4 DEF For, PlainFor
<1> QED
  BY <1>1, <1>2

LEMMA SingleShaped == ASSUME NEW S \in Seq(String), Single(S) PROVE Shaped(S)
<1> SUFFICES ASSUME NEW i \in 1..Len(S), S[i] # <<EOF>> PROVE NoEof(S[i])
  BY DEF Shaped
<1>1. S[i] \in String /\ Len(S[i]) = 1
  BY DEF Single
<1>2. S[i] \in Seq(Line)
  BY <1>1, StringType
<1>3. S[i] = <<S[i][1]>>
  BY <1>1, <1>2
<1>4. S[i][1] # EOF
  BY <1>3
<1> QED
  BY <1>1, <1>4 DEF NoEof

LEMMA SplitSingle == ASSUME NEW s \in Seq(Line) PROVE Single(AsStrings(s))
<1>1. Len(AsStrings(s)) = Len(s) /\ \A i \in 1..Len(s) : AsStrings(s)[i] = <<s[i]>>
  BY DEF AsStrings
<1>2. \A x : Len(<<x>>) = 1
  OBVIOUS
<1> QED
  BY <1>1, <1>2 DEF Single

LEMMA SingleConcat ==
  ASSUME NEW S \in Seq(String), NEW T \in Seq(String)
  PROVE  /\ Single(S) /\ Single(T) => Single(S \o T)
         /\ Shaped(S) /\ Shaped(T) => Shaped(S \o T)
<1>1. /\ Len(S) \in Nat /\ Len(T) \in Nat /\ Len(S \o T) = Len(S) + Len(T)
      /\ \A i \in 1..Len(S \o T) : (S \o T)[i] = IF i <= Len(S) THEN S[i] ELSE T[i - Len(S)]
  OBVIOUS
<1>2. ASSUME NEW i \in 1..Len(S \o T)
      PROVE  \/ \E j \in 1..Len(S) : (S \o T)[i] = S[j]
             \/ \E j \in 1..Len(T) : (S \o T)[i] = T[j]
  <2>1. CASE i <= Len(S)
    BY <1>1, <2>1
  <2>2. CASE ~(i <= Len(S))
    <3>1. i - Len(S) \in 1..Len(T)
      BY <1>1, <2>2
    <3> QED
      BY <1>1, <2>2, <3>1
  <2> QED
    BY <2>1, <2>2
<1> QED
  BY <1>2 DEF Single, Shaped

LEMMA TailOK ==
  ASSUME NEW S \in Seq(String), S # <<>>
  PROVE  /\ Head(S) \in String /\ Tail(S) \in Seq(String)
         /\ Shaped(S) => Shaped(Tail(S)) /\ (Head(S) = <<EOF>> \/ NoEof(Head(S)))
         /\ Single(S) => Single(Tail(S))
         /\ AllEof(S) => AllEof(Tail(S)) /\ Head(S) = <<EOF>>
<1>1. /\ Len(S) \in Nat \ {0} /\ Tail(S) \in Seq(String) /\ Len(Tail(S)) = Len(S) - 1
      /\ \A i \in 1..Len(Tail(S)) : Tail(S)[i] = S[i + 1]
      /\ Head(S) = S[1] /\ 1 \in 1..Len(S) /\ S[1] \in String
  OBVIOUS
<1>2. \A i \in 1..Len(Tail(S)) : i + 1 \in 1..Len(S) /\ Tail(S)[i] = S[i + 1]
  BY <1>1
<1> QED
  BY <1>1, <1>2 DEF Shaped, Single, AllEof

LEMMA PairAppended == ASSUME NEW a \in String, NEW b \in String PROVE Append(<<a>>, b) = <<a, b>>
<1> DEFINE u == Append(<<a>>, b)
           w == <<a, b>>
<1>1. u \in Seq(String) /\ Len(u) = 2 /\ u[1] = a /\ u[2] = b
  OBVIOUS
<1>2. w \in Seq(String) /\ Len(w) = 2 /\ w[1] = a /\ w[2] = b
  OBVIOUS
<1> HIDE DEF u, w
<1>3. \A i \in 1..2 : u[i] = w[i]
  <2>1. \A i \in 1..2 : i = 1 \/ i = 2
    OBVIOUS
  <2> QED
    BY <1>1, <1>2, <2>1
<1>4. u = w
  BY <1>1, <1>2, <1>3
<1> QED
  BY <1>4 DEF u, w

(* concat_inputs loses no line. *)
LEMMA ConcatOK ==
  ASSUME Types, NEW n \in Node, NEW S \in Seq(String), Single(S), Concat(n, S)
  PROVE  /\ inputs'[n] \in Seq(String) /\ inputs'[n] # <<>>
         /\ Shaped(inputs'[n]) /\ AllEof(Tail(inputs'[n]))
         /\ \A l \in Line \ {EOF} : Copies(l, inputs'[n]) = Copies(l, S)
<1> DEFINE strs == {i \in DOMAIN S : S[i] # <<EOF>>}
<1>1. PICK k \in 0..Len(S) : \E p \in [1..k -> strs] :
        /\ \A i \in strs : \E j \in 1..k : p[j] = i
        /\ \A i, j \in 1..k : i # j => p[i] # p[j]
        /\ inputs' = [inputs EXCEPT ![n] =
             IF k = 0 THEN <<<<EOF>>>> ELSE <<[j \in 1..k |-> S[p[j]][1]], <<EOF>>>>]
  BY DEF Concat
<1>2. PICK p \in [1..k -> strs] :
        /\ \A i \in strs : \E j \in 1..k : p[j] = i
        /\ \A i, j \in 1..k : i # j => p[i] # p[j]
        /\ inputs' = [inputs EXCEPT ![n] =
             IF k = 0 THEN <<<<EOF>>>> ELSE <<[j \in 1..k |-> S[p[j]][1]], <<EOF>>>>]
  BY <1>1
<1> DEFINE r == [j \in 1..k |-> S[p[j]][1]]
<1>3. inputs'[n] = IF k = 0 THEN <<<<EOF>>>> ELSE <<r, <<EOF>>>>
  BY <1>2 DEF Types
<1>4. inputs' \in [Node -> Seq(String)]
  BY ConcatType DEF Types
<1>5. k \in Nat /\ DOMAIN S = 1..Len(S)
  OBVIOUS
<1>6. \A l \in Line \ {EOF} : Count(l, r) = Copies(l, S)
  BY <1>2, <1>5, CopiesJoined DEF Single
<1>7. \A j \in 1..k : S[p[j]][1] # EOF /\ S[p[j]][1] \in Line
  <2> TAKE j \in 1..k
  <2>1. p[j] \in 1..Len(S) /\ S[p[j]] # <<EOF>> /\ S[p[j]] \in String /\ Len(S[p[j]]) = 1
    BY <1>5 DEF Single
  <2>2. S[p[j]] \in Seq(Line)
    BY <2>1, StringType
  <2> QED
    BY <2>1, <2>2
<1>8. r \in Seq(Line) /\ Len(r) = k /\ NoEof(r) /\ (k # 0 => r \in String)
  <2>1. r \in Seq(Line) /\ Len(r) = k
    BY <1>5, <1>7
  <2>2. NoEof(r)
    BY <1>7, <2>1 DEF NoEof
  <2> HIDE DEF r
  <2> QED
    BY <1>5, <2>1, <2>2 DEF String
<1> HIDE DEF r, strs
<1>9. CASE k = 0
  <2>1. inputs'[n] = <<<<EOF>>>>
    BY <1>3, <1>9
  <2>2. Tail(<<<<EOF>>>>) = <<>> /\ <<<<EOF>>>> # <<>> /\ Len(<<<<EOF>>>>) = 1 /\ <<<<EOF>>>>[1] = <<EOF>>
    OBVIOUS
  <2>3. Shaped(<<<<EOF>>>>) /\ AllEof(<<<<EOF>>>>) /\ AllEof(<<>>)
    BY <2>2 DEF Shaped, AllEof
  <2>4. \A i \in 1..Len(r) : FALSE
    BY <1>8, <1>9
  <2>5. ASSUME NEW l \in Line \ {EOF} PROVE Copies(l, inputs'[n]) = Copies(l, S)
    <3>1. {i \in DOMAIN r : r[i] = l} = {}
      BY <1>8, <1>9
    <3>2. Count(l, r) = 0
      BY <3>1, FS_EmptySet DEF Count
    <3>3. Copies(l, <<<<EOF>>>>) = 0
      BY <1>4, <2>1, <2>3, CopiesEofs DEF AllEof
    <3> QED
      BY <1>6, <2>1, <3>2, <3>3
  <2> QED
    BY <1>4, <2>1, <2>2, <2>3, <2>5
<1>10. CASE k # 0
  <2> DEFINE t == <<r, <<EOF>>>>
  <2>1. inputs'[n] = t /\ t \in Seq(String) /\ t # <<>>
    BY <1>3, <1>4, <1>10
  <2>2. Len(t) = 2 /\ t[1] = r /\ t[2] = <<EOF>> /\ Tail(t) = <<<<EOF>>>>
    OBVIOUS
  <2>3. Shaped(t)
    BY <1>8, <2>2 DEF Shaped
  <2>4. AllEof(Tail(t))
    BY <2>2 DEF AllEof
  <2>5. ASSUME NEW l \in Line \ {EOF} PROVE Copies(l, inputs'[n]) = Copies(l, S)
    <3>0. r \in String /\ <<r>> \in Seq(String) /\ <<EOF>> \in String
      BY <1>8, <1>10, EofElsewhere
    <3>1. Append(<<r>>, <<EOF>>) = t
      BY <3>0, PairAppended
    <3>2. Copies(l, t) = Copies(l, <<r>>) + Count(l, <<EOF>>) /\ Copies(l, <<r>>) = Count(l, r)
      BY <3>0, <3>1, CopiesAppend, CopiesOne
    <3>3. Count(l, <<EOF>>) = 0 /\ Count(l, r) \in Nat
      BY <1>8, EofElsewhere, CountType
    <3> QED
      BY <1>6, <2>1, <3>2, <3>3
  <2> HIDE DEF t
  <2> QED
    BY <2>1, <2>3, <2>4, <2>5
<1> QED
  BY <1>9, <1>10
(* A string goes to outputs of the node, "EOF" to all of them. *)
LEMMA EmitCalm ==
  ASSUME Types, CountedOK, NextOK, NEW n \in Node, NEW t, Emit(n, t)
  PROVE  /\ pc'[n] = "write" /\ tok'[n] = t
         /\ to'[n] \subseteq Out(n) /\ UNCHANGED <<next, ended>>
<1>1. pc'[n] = "write" /\ tok'[n] = t /\ UNCHANGED <<next, ended>>
  BY DEF Emit, Types, CountedOK, Goto
<1>2. CASE Kind[n] = "distro"
  <2>1. next[n] \in 1..Len(OutList[n]) /\ OutList[n][next[n]] \in Out(n)
    BY <1>2, Lists DEF NextOK
  <2>2. to'[n] = {OutList[n][next[n]]}
    BY <1>2 DEF Emit, Types
  <2> QED
    BY <1>1, <1>2, <2>1, <2>2
<1>3. CASE Kind[n] # "distro"
  <2>1. to'[n] = Out(n)
    BY <1>3 DEF Emit, Types
  <2> QED
    BY <1>1, <1>3, <2>1
<1> QED
  BY <1>2, <1>3

LEMMA HandReturn ==
  ASSUME Types, CountedOK, NEW n \in Node, ~term[n], HandOK(n), Taking(n),
         NEW g \in Seq(Line), Return(n, g)
  PROVE  (ended' = ended => HandOK(n)')
<1> SUFFICES ASSUME ended' = ended PROVE HandOK(n)'
  OBVIOUS
<1> DEFINE all   == AsStrings(g) \o inputs[n]
           sum   == eofs[n] + EofsIn(all)
           place == Whereto(n, sum = Cardinality(In(n)))
<1>1. /\ all \in Seq(String) /\ at'[n] = 1 /\ got'[n] = <<>>
      /\ pc' = [pc EXCEPT ![n] = place] /\ place \in {"read", "end", "top"}
      /\ \/ n \in Batch \ called /\ place # "read" /\ Concat(n, all)
         \/ (n \notin Batch \ called \/ place = "read") /\ inputs'[n] = IF place = "end" THEN <<>> ELSE all
      /\ called' = IF place = "read" THEN called ELSE called \cup {n}
  BY ReturnCalm
<1>2. Shaped(all) /\ (n \notin called => Single(all))
  <2>1. AsStrings(g) \in Seq(String) /\ inputs[n] \in Seq(String)
    BY AsStringsType DEF Types
  <2>2. Single(AsStrings(g)) /\ Shaped(AsStrings(g))
    BY <2>1, SplitSingle, SingleShaped
  <2> QED
    BY <2>1, <2>2, SingleConcat DEF HandOK
<1> HIDE DEF all, sum, place
<1>3. pc'[n] = place /\ (n \in called' <=> n \in called \/ place # "read")
  BY <1>1 DEF CountedOK
<1>4. Shaped(<<>>)
  BY DEF Shaped
<1>5. Shaped(inputs'[n]) /\ (n \notin called' => Single(inputs'[n]))
  <2>1. CASE n \in Batch \ called /\ place # "read" /\ Concat(n, all)
    BY <1>1, <1>2, <1>3, <2>1, ConcatOK
  <2>2. CASE inputs'[n] = IF place = "end" THEN <<>> ELSE all
    BY <1>2, <1>3, <1>4, <2>2
  <2> QED
    BY <1>1, <2>1, <2>2
<1> QED
  BY <1>1, <1>3, <1>5 DEF HandOK, Taking, Opening, Closing

LEMMA HandStep ==
  ASSUME TInv, stops = 0, NEW n \in Node, HandOK(n), RootOK(n), Thread(n)
  PROVE  HandOK(n)'
<1>0. Types /\ CountedOK /\ NextOK /\ ~term[n] /\ tev[n] # "set"
  BY Calm DEF TInv
<1>a. pc \in [Node -> PCs] /\ DOMAIN got = Node /\ DOMAIN at = Node
  BY <1>0 DEF CountedOK, Types
<1>1. CASE Create(n) \/ ConnectPipe(n) \/ OpenPipe(n)
  <2>1. pc[n] \in Opening /\ pc'[n] \in Opening /\ UNCHANGED <<reading, strings, writing, history>>
    BY <1>1, <1>a DEF Create, ConnectPipe, OpenPipe, Goto, Opening
  <2> QED
    BY <2>1 DEF HandOK, Taking, Opening, Closing, reading, strings, writing
<1>4. CASE MakeEvent(n)
  <2>1. /\ pc[n] = "event" /\ UNCHANGED <<reading, writing, eofs>> /\ pc[n] \in Opening
        /\ inputs[n] = <<>> /\ n \notin called
    BY <1>4 DEF MakeEvent, Opening, HandOK
  <2>2. AsStrings(Args) \in Seq(String) /\ Single(AsStrings(Args)) /\ Shaped(AsStrings(Args))
    BY WinAssumption, AsStringsType, SplitSingle, SingleShaped
  <2>3. CASE Root(n)
    <3>1. pc'[n] = "top" /\ n \in called'
      BY <1>4, <1>a, <2>3 DEF MakeEvent, Goto
    <3>2. Shaped(inputs'[n])
      <4>1. Concat(n, AsStrings(Args)) \/ inputs' = [inputs EXCEPT ![n] = AsStrings(Args)]
        BY <1>4, <2>3 DEF MakeEvent
      <4> QED
        BY <1>0, <2>2, <4>1, ConcatOK DEF Types
    <3> QED
      BY <2>1, <3>1, <3>2 DEF HandOK, Taking, Opening, Closing, reading, writing
  <2>4. CASE ~Root(n)
    <3>1. pc'[n] = "read" /\ UNCHANGED <<inputs, called>>
      BY <1>4, <1>a, <2>4 DEF MakeEvent, Goto
    <3> QED
      BY <2>1, <3>1 DEF HandOK, Taking, Opening, Closing, writing
  <2> QED
    BY <2>3, <2>4
<1>5. CASE ReadPipe(n)
  <2>1. /\ pc[n] = "read" /\ ended' = ended
        /\ \/ \E e : ReadsPipe(n, e)
           \/ Return(n, got[n])
           \/ pc' = [pc EXCEPT ![n] = "wait"] /\ UNCHANGED strings
    BY <1>0, <1>5, ReadPipeCalm DEF writing
  <2>2. CASE \E e : ReadsPipe(n, e)
    BY <2>1, <2>2 DEF ReadsPipe, HandOK, Taking, Opening, Closing, strings
  <2>3. CASE Return(n, got[n])
    <3>1. got[n] \in Seq(Line)
      BY <1>0 DEF Types
    <3> QED
      BY <1>0, <2>1, <2>3, <3>1, HandReturn DEF Taking
  <2>4. CASE pc' = [pc EXCEPT ![n] = "wait"] /\ UNCHANGED strings
    BY <1>a, <2>1, <2>4 DEF HandOK, Taking, Opening, Closing, strings
  <2> QED
    BY <2>1, <2>2, <2>3, <2>4
<1>6. CASE WaitRead(n)
  <2>1. PICK e \in In(n) : /\ pc[n] = "wait" /\ got[n] \o arrived[e] \in Seq(Line) /\ ended' = ended
                          /\ Return(n, got[n] \o arrived[e])
    BY <1>0, <1>6, WaitReadCalm DEF writing
  <2> QED
    BY <1>0, <2>1, HandReturn DEF Taking
<1>7. CASE Top(n)
  <2>1. pc[n] = "top" /\ pc'[n] \in {"for", "end"} /\ UNCHANGED <<reading, strings, writing>>
    BY <1>7, <1>a DEF Top, Goto
  <2> QED
    BY <2>1 DEF HandOK, Taking, Opening, Closing, reading, strings, writing
<1>8. CASE For(n)
  <2>0. PlainFor(n)
    BY <1>0, <1>8, ForPlain
  <2>1. pc[n] = "for" /\ UNCHANGED <<reading, eofs, called>> /\ n \in called /\ n \notin ended /\ ended' = ended
    BY <1>8, <2>0 DEF PlainFor, HandOK, Opening, Closing, Emit, writing
  <2>2. CASE inputs[n] = <<>>
    <3>1. pc'[n] \in {"end", "read"} /\ UNCHANGED inputs
      BY <2>0, <1>a, <2>2 DEF PlainFor, Goto
    <3> QED
      BY <2>1, <3>1 DEF HandOK, Taking, Opening, reading
  <2>3. CASE inputs[n] # <<>>
    <3> DEFINE t == Head(inputs[n])
    <3>1. /\ t \in String /\ Shaped(Tail(inputs[n])) /\ (t = <<EOF>> \/ NoEof(t)) /\ t # <<>>
      BY <1>0, <2>3, TailOK, StringType DEF Types, HandOK
    <3>2. inputs'[n] = Tail(inputs[n])
      BY <1>0, <2>0, <2>3 DEF PlainFor, Types
    <3>3. \/ pc' = pc
          \/ t # <<EOF>> /\ Goto(n, "exec") /\ tok' = [tok EXCEPT ![n] = t]
          \/ t # <<EOF>> /\ Emit(n, t)
      BY <2>0, <2>3 DEF PlainFor
    <3> HIDE DEF t
    <3>4. CASE pc' = pc
      BY <2>1, <3>1, <3>2, <3>4 DEF HandOK, Taking, Opening, reading
    <3>5. CASE t # <<EOF>> /\ Goto(n, "exec") /\ tok' = [tok EXCEPT ![n] = t]
      <4>1. pc'[n] = "exec" /\ tok'[n] = t
        BY <1>0, <1>a, <3>5 DEF Goto, Types
      <4> QED
        BY <2>1, <3>1, <3>2, <3>5, <4>1 DEF HandOK, Taking, Opening, reading
    <3>6. CASE t # <<EOF>> /\ Emit(n, t)
      <4>1. pc'[n] = "write" /\ tok'[n] = t /\ to'[n] \subseteq Out(n)
        BY <1>0, <1>a, <3>6, EmitCalm
      <4> QED
        BY <2>1, <3>1, <3>2, <3>6, <4>1 DEF HandOK, Taking, Opening, reading
    <3> QED
      BY <3>3, <3>4, <3>5, <3>6
  <2> QED
    BY <2>2, <2>3
<1>9. CASE RunCommand(n)
  <2>1. /\ pc[n] = "exec" /\ UNCHANGED <<reading, strings>> /\ n \in called /\ NoEof(tok[n]) /\ tok[n] # <<>>
        /\ n \notin ended /\ ended' = ended
    BY <1>9 DEF RunCommand, HandOK, Opening, Closing, Emit, writing
  <2>2. CASE Emit(n, tok[n])
    <3>1. pc'[n] = "write" /\ tok'[n] = tok[n] /\ to'[n] \subseteq Out(n)
      BY <1>0, <1>a, <2>1, <2>2, EmitCalm
    <3> QED
      BY <2>1, <3>1 DEF HandOK, Taking, Opening, reading, strings
  <2>3. CASE Goto(n, "end")
    BY <1>a, <2>1, <2>3 DEF HandOK, Taking, Opening, reading, strings, Goto
  <2> QED
    BY <1>9, <2>2, <2>3 DEF RunCommand
<1>10. CASE Write(n)
  <2>1. pc[n] = "write" /\ pc'[n] = "flush" /\ UNCHANGED <<reading, strings, writing>>
    BY <1>0, <1>a, <1>10, WriteCalm
  <2> QED
    BY <2>1 DEF HandOK, Taking, Opening, Closing, reading, strings, writing
<1>11. CASE Flush(n)
  <2>1. /\ pc[n] = "flush" /\ pc'[n] = IF n \in ended THEN "close" ELSE "for"
        /\ UNCHANGED <<reading, strings, tok, to, ended>>
    BY <1>a, <1>11 DEF Flush, Written, Goto
  <2> QED
    BY <2>1 DEF HandOK, Taking, Opening, Closing, reading, strings
<1>12. CASE End(n)
  <2>1. /\ pc[n] = "end" /\ inputs'[n] = <<>> /\ UNCHANGED <<reading, eofs, called>>
        /\ n \in called /\ n \in ended'
    BY <1>0, <1>12 DEF End, Types, HandOK, Opening
  <2>2. pc'[n] = "write" /\ tok'[n] = <<EOF>> /\ to'[n] = Out(n)
    BY <1>0, <1>a, <1>12 DEF End, Goto, Types
  <2>3. Shaped(<<>>)
    BY DEF Shaped
  <2> QED
    BY <2>1, <2>2, <2>3 DEF HandOK, Taking, Opening, reading
<1>13. CASE Close(n) \/ Barrier(n) \/ ClosePipes(n)
  <2>1. /\ pc[n] \in Closing \cup {"close"} /\ pc'[n] \in Closing
        /\ UNCHANGED <<reading, strings, writing>>
    BY <1>13, <1>a DEF Close, Barrier, ClosePipes, Goto, Closing
  <2> QED
    BY <2>1 DEF HandOK, Taking, Opening, Closing, reading, strings, writing
<1> QED
  BY <1>1, <1>4, <1>5, <1>6, <1>7, <1>8, <1>9, <1>10, <1>11, <1>12, <1>13 DEF Thread

LEMMA RootStep ==
  ASSUME PlainData, TInv, stops = 0, NEW n \in Node, RootOK(n), Thread(n), Root(n)
  PROVE  RootOK(n)'
<1>0. Types /\ CountedOK /\ ~term[n] /\ Root(n)' /\ Cardinality(In(n)) = 0
  BY Calm, FS_EmptySet DEF Root, In
<1>1. pc[n] \notin {"read", "wait"} /\ eofs[n] = 0
  BY DEF RootOK, Taking
<1>2. CASE MakeEvent(n)
  <2>1. pc'[n] = "top" /\ UNCHANGED eofs
    BY <1>0, <1>2 DEF MakeEvent, Goto, CountedOK
  <2>2. ASSUME Kind[n] # "command" PROVE inputs'[n] = AsStrings(Args)
    BY <1>0, <1>2, <2>2 DEF MakeEvent, Types
  <2>3. \A i \in 1..Len(AsStrings(Args)) : AsStrings(Args)[i] # <<EOF>>
    <3>1. Args \in Seq(Line)
      BY WinAssumption
    <3>2. Len(AsStrings(Args)) = Len(Args) /\ \A i \in 1..Len(Args) : AsStrings(Args)[i] = <<Args[i]>>
      BY <3>1 DEF AsStrings
    <3>3. \A i \in 1..Len(Args) : Args[i] # EOF
      BY <3>1 DEF PlainData
    <3>4. \A x : <<x>>[1] = x
      OBVIOUS
    <3> QED
      BY <3>2, <3>3, <3>4
  <2> QED
    BY <1>0, <1>1, <2>1, <2>2, <2>3 DEF RootOK, Taking
<1>3. CASE For(n)
  <2>0. PlainFor(n)
    BY <1>0, <1>3, ForPlain
  <2>1. UNCHANGED eofs /\ pc[n] = "for"
    BY <2>0 DEF PlainFor
  <2>2. pc'[n] \in {"for", "end", "exec", "write"}
    <3>1. CASE inputs[n] = <<>>
      BY <1>0, <1>1, <2>0, <3>1 DEF PlainFor, Goto, CountedOK
    <3>2. CASE inputs[n] # <<>>
      BY <1>0, <2>0, <3>2 DEF PlainFor, Goto, CountedOK, Emit
    <3> QED
      BY <3>1, <3>2
  <2>3. inputs[n] \in Seq(String)
    BY <1>0 DEF Types
  <2>4. CASE inputs[n] = <<>>
    BY <1>0, <1>1, <2>0, <2>1, <2>2, <2>4 DEF PlainFor, RootOK, Taking
  <2>5. CASE inputs[n] # <<>>
    <3>1. inputs'[n] = Tail(inputs[n])
      BY <1>0, <2>0, <2>5 DEF PlainFor, Types
    <3>2. \A i \in 1..Len(Tail(inputs[n])) : i + 1 \in 1..Len(inputs[n]) /\ Tail(inputs[n])[i] = inputs[n][i + 1]
      BY <2>3, <2>5
    <3> QED
      BY <1>0, <1>1, <2>1, <2>2, <3>1, <3>2 DEF RootOK, Taking
  <2> QED
    BY <2>4, <2>5
<1>4. CASE End(n)
  <2>1. pc'[n] = "write" /\ inputs'[n] = <<>> /\ UNCHANGED eofs
    BY <1>0, <1>4 DEF End, Goto, CountedOK, Types
  <2> QED
    BY <1>0, <1>1, <2>1 DEF RootOK, Taking
<1>5. CASE ~MakeEvent(n) /\ ~For(n) /\ ~End(n)
  <2>1. ~ReadPipe(n) /\ ~WaitRead(n)
    BY <1>1 DEF ReadPipe, WaitRead
  <2>2. UNCHANGED strings
    BY <1>5, <2>1 DEF Thread, Create, ConnectPipe, OpenPipe, Top, RunCommand, Write, Flush, Close, Barrier, ClosePipes
  <2>3. pc'[n] \notin {"read", "wait"}
    <3>1. CASE Create(n) \/ ConnectPipe(n) \/ OpenPipe(n)
      BY <1>0, <3>1 DEF Create, ConnectPipe, OpenPipe, Goto, CountedOK
    <3>2. CASE Top(n) \/ RunCommand(n) \/ Close(n) \/ Barrier(n) \/ ClosePipes(n)
      BY <1>0, <3>2 DEF Top, RunCommand, Emit, Close, Barrier, ClosePipes, Goto, CountedOK
    <3>3. CASE Write(n) \/ Flush(n)
      BY <1>0, <3>3 DEF Write, Flush, Written, Goto, CountedOK
    <3> QED
      BY <1>5, <2>1, <3>1, <3>2, <3>3 DEF Thread
  <2> QED
    BY <1>0, <1>1, <2>2, <2>3 DEF RootOK, Taking, strings
<1> QED
  BY <1>2, <1>3, <1>4, <1>5

LEMMA HandKept ==
  ASSUME PlainData, TInv, stops = 0, NEW n \in Node, Thread(n), NEW m \in Node, HandOK(m), RootOK(m)
  PROVE  HandOK(m)' /\ RootOK(m)'
<1>1. CASE m = n
  <2>1. Root(m)' <=> Root(m)
    BY DEF Root, In
  <2>2. ~Root(m) => RootOK(m)'
    BY <2>1 DEF RootOK
  <2> QED
    BY <1>1, <2>2, HandStep, RootStep
<1>2. CASE m # n
  BY <1>2, Calm, OthersAlone DEF HandOK, RootOK, Taking, OwnKept, Root, In
<1> QED
  BY <1>1, <1>2
-----------------------------------------------------------------------------
(* What is on the way through a pipe.  A string is in slot until its writer *)
(* has found it read, and "EOF" is the last that is written.                *)

Past == {"close"} \cup Closing
Ended(n) == (pc[n] = "flush" /\ tok[n] = <<EOF>>) \/ pc[n] \in Past
Told(e)  == ~NoEof(sent[e])
Due(e)   == slot[e] = <<EOF>> \/ arrived[e] = <<EOF>>

EdgeOK(e) ==
  /\ e \notin pend => arrived[e] = None
  /\ pc[e[2]] \in Opening => e \notin pend /\ (sent[e] # <<>> => slot[e] # None)
  /\ pc[e[1]] \in Opening => sent[e] = <<>>
  /\ slot[e] # None => pc[e[1]] = "flush" /\ e \in to[e[1]]
  /\ slot[e] # None \/ arrived[e] # None => sent[e] # <<>>
  /\ slot[e] = <<EOF>> \/ NoEof(slot[e])
  /\ arrived[e] = <<EOF>> \/ NoEof(arrived[e])
  /\ Told(e) <=> Ended(e[1])
  /\ Due(e) => Told(e)
  /\ Told(e) /\ ~Due(e) => slot[e] = None /\ arrived[e] = None
  /\ arrived[e] = <<EOF>> => slot[e] = None

LEMMA NoneNoEof == NoEof(None) /\ None # <<EOF>> /\ None = <<>> /\ <<EOF>> # <<>>
BY DEF None, NoEof

LEMMA InitEdge == ASSUME Init, NEW e \in Edge PROVE EdgeOK(e)
<1>1. pc[e[1]] = "off" /\ pc[e[2]] = "off"
  BY EdgeFinite DEF Init, All
<1>2. slot[e] = None /\ arrived[e] = None /\ sent[e] = <<>> /\ e \notin pend
  BY DEF Init, Each
<1> QED
  BY <1>1, <1>2, NoneNoEof DEF EdgeOK, Told, Due, Ended, Past, Closing, Opening

(* All but Write and ReadInputs leave the pipes alone. *)
LEMMA QuietStep ==
  ASSUME TInv, stops = 0, NEW n \in Node, HandOK(n), Thread(n), ~Write(n), ~ReadPipe(n), ~WaitRead(n)
  PROVE  /\ UNCHANGED <<slot, arrived, pend, finished, sent>>
         /\ pc'[n] \in Opening => pc[n] \in Opening
         /\ Ended(n)' <=> Ended(n)
         /\ pc[n] = "flush" => \A e \in to[n] : slot[e] = None
<1>0. Types /\ CountedOK /\ NextOK /\ ~term[n] /\ tev[n] # "set"
  BY Calm DEF TInv
<1>a. pc \in [Node -> PCs] /\ pc[n] \in PCs
  BY <1>0 DEF CountedOK
<1>1. CASE Create(n) \/ ConnectPipe(n) \/ OpenPipe(n) \/ MakeEvent(n)
  <2>1. pc[n] \in {"create", "connect", "open", "event"} /\ UNCHANGED <<data, reading, history>>
    BY <1>1 DEF Create, ConnectPipe, OpenPipe, MakeEvent
  <2>2. pc'[n] \in {"create", "connect", "open", "event", "top", "read"}
    <3>1. \/ pc' = pc
          \/ \E place \in {"create", "connect", "open", "event", "top", "read"} : pc' = [pc EXCEPT ![n] = place]
      BY <1>1 DEF Create, ConnectPipe, OpenPipe, MakeEvent, Goto
    <3> QED
      BY <1>a, <2>1, <3>1
  <2> QED
    BY <2>1, <2>2 DEF data, reading, history, Ended, Past, Closing, Opening
<1>2. CASE Top(n) \/ For(n) \/ RunCommand(n) \/ End(n)
  <2>1. pc[n] \in {"top", "for", "exec", "end"} /\ UNCHANGED <<data, reading, sent>>
    BY <1>2 DEF Top, For, RunCommand, End, history
  <2>2. pc'[n] \in {"for", "end", "read", "exec", "write"}
    <3>1. \/ pc' = pc /\ pc[n] = "for"
          \/ \E place \in {"for", "end", "read", "exec", "write"} : pc' = [pc EXCEPT ![n] = place]
      BY <1>2 DEF Top, For, RunCommand, End, Emit, Goto, writing
    <3> QED
      BY <1>a, <3>1
  <2> QED
    BY <2>1, <2>2 DEF data, reading, Ended, Past, Closing, Opening
<1>3. CASE Flush(n)
  <2>1. /\ pc[n] = "flush" /\ \A e \in to[n] : slot[e] = None
        /\ pc'[n] = IF tok[n] = <<EOF>> THEN "close" ELSE "for"
        /\ UNCHANGED <<data, reading, history, tok>>
    BY <1>0, <1>3, <1>a, FlushCalm DEF writing
  <2> QED
    BY <2>1 DEF data, reading, history, Ended, Past, Closing, Opening
<1>4. CASE Close(n) \/ Barrier(n) \/ ClosePipes(n)
  <2>1. pc[n] \in Past /\ pc'[n] \in Past /\ pc[n] # "flush" /\ UNCHANGED <<data, reading, history>>
    BY <1>4, <1>a DEF Close, Barrier, ClosePipes, Goto, Past, Closing
  <2> QED
    BY <2>1 DEF data, reading, history, Ended, Past, Closing, Opening
<1> QED
  BY <1>1, <1>2, <1>3, <1>4 DEF Thread

(* ReadInputs takes from one pipe what is there, and changes nothing else. *)
Takes(n, e) ==
  /\ e \in Edge /\ e[2] = n
  /\ \A d \in Edge : d # e => (slot'[d] = slot[d] /\ arrived'[d] = arrived[d] /\ (d \in pend' <=> d \in pend))
  /\ \/ slot'[e] = slot[e] /\ arrived'[e] = arrived[e] /\ (e \in pend => e \in pend')
     \/ e \notin pend /\ slot[e] # None /\ slot'[e] = None /\ arrived'[e] = arrived[e] /\ (e \in pend' <=> e \in pend)
     \/ arrived[e] # None /\ arrived'[e] = None /\ e \notin pend' /\ slot'[e] = slot[e]

LEMMA ReadTakes ==
  ASSUME TInv, stops = 0, NEW n \in Node, ReadPipe(n) \/ WaitRead(n)
  PROVE  /\ sent' = sent /\ tok' = tok /\ to' = to
         /\ pc[n] \in {"read", "wait"} /\ pc'[n] \in {"read", "wait", "end", "top"}
         /\ \/ UNCHANGED <<slot, arrived, pend>>
            \/ \E e \in Edge : Takes(n, e)
<1>0. Types /\ CountedOK /\ ~term[n] /\ tev[n] # "set" /\ pc \in [Node -> PCs]
  BY Calm DEF CountedOK
<1>1. CASE ReadPipe(n)
  <2>1. /\ pc[n] = "read" /\ UNCHANGED <<arrived, writing, history>>
        /\ \/ at[n] \in 1..Len(InList[n]) /\ InList[n][at[n]] \in In(n) /\ ReadsPipe(n, InList[n][at[n]])
           \/ Return(n, got[n]) /\ UNCHANGED <<slot, pend, finished>>
           \/ pc' = [pc EXCEPT ![n] = "wait"] /\ UNCHANGED <<slot, pend, finished>>
    BY <1>0, <1>1, ReadPipeCalm
  <2>2. CASE InList[n][at[n]] \in In(n) /\ ReadsPipe(n, InList[n][at[n]])
    <3> DEFINE e == InList[n][at[n]]
    <3>1. e \in Edge /\ e[2] = n /\ ReadsPipe(n, e)
      BY <2>2 DEF In
    <3> HIDE DEF e
    <3>2. Takes(n, e)
      <4>1. CASE UNCHANGED <<slot, pend>>
        BY <2>1, <3>1, <4>1 DEF Takes
      <4>2. CASE slot' = slot /\ pend' = pend \cup {e}
        BY <2>1, <3>1, <4>2 DEF Takes
      <4>3. CASE e \notin pend /\ slot[e] # None /\ slot' = [slot EXCEPT ![e] = None] /\ pend' = pend
        BY <1>0, <2>1, <3>1, <4>3 DEF Takes, Types
      <4> QED
        BY <3>1, <4>1, <4>2, <4>3 DEF ReadsPipe
    <3>3. pc' = pc
      BY <3>1 DEF ReadsPipe
    <3> QED
      BY <2>1, <3>1, <3>2, <3>3 DEF writing, history
  <2>3. CASE Return(n, got[n]) /\ UNCHANGED <<slot, pend, finished>>
    <3>1. got[n] \in Seq(Line)
      BY <1>0 DEF Types
    <3>2. pc'[n] \in {"read", "end", "top"}
      BY <1>0, <2>3, <3>1, ReturnCalm
    <3> QED
      BY <2>1, <2>3, <3>2 DEF writing, history
  <2>4. CASE pc' = [pc EXCEPT ![n] = "wait"] /\ UNCHANGED <<slot, pend, finished>>
    BY <1>0, <2>1, <2>4 DEF writing, history
  <2> QED
    BY <2>1, <2>2, <2>3, <2>4
<1>2. CASE WaitRead(n)
  <2>1. PICK e \in In(n) :
          /\ pc[n] = "wait" /\ UNCHANGED <<slot, writing, history>>
          /\ e \in Edge /\ arrived[e] # None
          /\ arrived' = [arrived EXCEPT ![e] = None] /\ pend' = pend \ {e}
          /\ got[n] \o arrived[e] \in Seq(Line)
          /\ Return(n, got[n] \o arrived[e])
    BY <1>0, <1>2, WaitReadCalm
  <2>2. pc'[n] \in {"read", "end", "top"}
    BY <1>0, <2>1, ReturnCalm
  <2>3. Takes(n, e)
    BY <1>0, <2>1 DEF Takes, Types, In
  <2> QED
    BY <2>1, <2>2, <2>3 DEF writing, history
<1> QED
  BY <1>1, <1>2

LEMMA EdgeStep ==
  ASSUME TInv, stops = 0, NEW n \in Node, HandOK(n), Thread(n), NEW e \in Edge, EdgeOK(e)
  PROVE  EdgeOK(e)'
<1>0. Types /\ CountedOK /\ NextOK /\ ~term[n] /\ tev[n] # "set" /\ pc \in [Node -> PCs]
  BY Calm DEF CountedOK, TInv
<1>a. e[1] \in Node /\ e[2] \in Node
  BY EdgeFinite
<1>b. \A m \in Node : m # n => pc'[m] = pc[m] /\ tok'[m] = tok[m] /\ to'[m] = to[m]
  BY <1>0, OthersAlone DEF OwnKept
<1>1. CASE ~Write(n) /\ ~ReadPipe(n) /\ ~WaitRead(n)
  <2>1. /\ UNCHANGED <<slot, arrived, pend, sent>>
        /\ pc'[n] \in Opening => pc[n] \in Opening
        /\ Ended(n)' <=> Ended(n)
        /\ pc[n] = "flush" => \A d \in to[n] : slot[d] = None
    BY <1>1, QuietStep
  <2>2. \A m \in Node : (pc'[m] \in Opening => pc[m] \in Opening) /\ (Ended(m)' <=> Ended(m))
    BY <1>b, <2>1 DEF Ended
  <2>3. slot[e] # None => pc'[e[1]] = "flush" /\ e \in to'[e[1]]
    BY <1>a, <1>b, <2>1 DEF EdgeOK
  <2> QED
    BY <1>a, <2>1, <2>2, <2>3 DEF EdgeOK, Told, Due
<1>2. CASE ReadPipe(n) \/ WaitRead(n)
  <2>1. /\ sent' = sent /\ tok' = tok /\ to' = to
        /\ pc[n] \in {"read", "wait"} /\ pc'[n] \in {"read", "wait", "end", "top"}
        /\ \/ UNCHANGED <<slot, arrived, pend>>
           \/ \E d \in Edge : Takes(n, d)
    BY <1>2, ReadTakes
  <2>2. \A m \in Node : /\ pc'[m] \in Opening <=> pc[m] \in Opening
                        /\ Ended(m)' <=> Ended(m)
                        /\ pc'[m] = "flush" <=> pc[m] = "flush"
    BY <1>b, <2>1 DEF Ended, Opening, Past, Closing
  <2>3. CASE slot'[e] = slot[e] /\ arrived'[e] = arrived[e] /\ (e \in pend' <=> e \in pend)
    BY <1>a, <2>1, <2>2, <2>3 DEF EdgeOK, Told, Due
  <2>4. CASE Takes(n, e)
    <3>1. e[2] = n /\ pc[n] \notin Opening
      BY <2>1, <2>4 DEF Takes, Opening
    <3>2. CASE slot'[e] = slot[e] /\ arrived'[e] = arrived[e] /\ (e \in pend => e \in pend')
      BY <1>a, <2>1, <2>2, <3>1, <3>2 DEF EdgeOK, Told, Due
    <3>3. CASE e \notin pend /\ slot[e] # None /\ slot'[e] = None /\ arrived'[e] = arrived[e] /\ (e \in pend' <=> e \in pend)
      BY <1>a, <2>1, <2>2, <3>1, <3>3, NoneNoEof DEF EdgeOK, Told, Due
    <3>4. CASE arrived[e] # None /\ arrived'[e] = None /\ e \notin pend' /\ slot'[e] = slot[e]
      BY <1>a, <2>1, <2>2, <3>1, <3>4, NoneNoEof DEF EdgeOK, Told, Due
    <3> QED
      BY <2>4, <3>2, <3>3, <3>4 DEF Takes
  <2> QED
    BY <2>1, <2>3, <2>4 DEF Takes
<1>3. CASE Write(n)
  <2> DEFINE taken == e \in pend /\ arrived[e] = None
  <2>1. /\ pc[n] = "write" /\ pc'[n] = "flush" /\ UNCHANGED <<tok, to, pend>>
        /\ arrived'[e] = IF e \in to[n] /\ taken THEN tok[n] ELSE arrived[e]
        /\ slot'[e] = IF e \in to[n] /\ ~taken THEN tok[n] ELSE slot[e]
        /\ sent'[e] = IF e \in to[n] THEN sent[e] \o tok[n] ELSE sent[e]
    <3> DEFINE takers == {d \in to[n] : d \in pend /\ arrived[d] = None}
    <3>1. /\ pc[n] = "write" /\ pc' = [pc EXCEPT ![n] = "flush"]
          /\ UNCHANGED <<tok, to, pend>>
          /\ arrived' = [d \in Edge |-> IF d \in takers THEN tok[n] ELSE arrived[d]]
          /\ slot' = [d \in Edge |-> IF d \in to[n] \ takers THEN tok[n] ELSE slot[d]]
          /\ sent' = [d \in Edge |-> IF d \in to[n] THEN sent[d] \o tok[n] ELSE sent[d]]
      BY <1>0, <1>3, WriteCalm DEF writing, reading
    <3>2. e \in takers <=> e \in to[n] /\ taken
      OBVIOUS
    <3>3. pc'[n] = "flush"
      BY <1>0, <3>1
    <3> HIDE DEF takers, taken
    <3> QED
      BY <3>1, <3>2, <3>3
  <2>2. \/ tok[n] = <<EOF>> /\ to[n] = Out(n)
        \/ NoEof(tok[n]) /\ tok[n] # <<>> /\ to[n] \subseteq Out(n)
    BY <2>1 DEF HandOK
  <2>3. \A m \in Node : pc'[m] \in Opening <=> pc[m] \in Opening
    BY <1>b, <2>1 DEF Opening
  <2>4. ~Ended(n) /\ (Ended(n)' <=> tok[n] = <<EOF>>)
    BY <2>1 DEF Ended, Past, Closing
  <2>5. CASE e \in to[n]
    <3>1. e[1] = n /\ tok[n] # <<>>
      BY <2>2, <2>5, NoneNoEof DEF Out
    <3>2. slot[e] = None /\ ~Told(e) /\ pc[n] \notin Opening /\ ~Due(e)
      BY <2>1, <2>4, <3>1 DEF EdgeOK, Opening
    <3>3. sent[e] \in Seq(Line) /\ tok[n] \in Seq(Line)
      BY <1>0 DEF Types
    <3>4. sent'[e] # <<>> /\ (Told(e)' <=> tok[n] = <<EOF>>)
      <4>1. sent'[e] = sent[e] \o tok[n]
        BY <2>1, <2>5
      <4>2. sent[e] \o tok[n] # <<>>
        BY <3>1, <3>3
      <4>3. NoEof(tok[n]) => NoEof(sent[e] \o tok[n])
        BY <3>2, <3>3, NoEofConcat DEF Told
      <4>4. ~NoEof(sent[e] \o <<EOF>>)
        <5> DEFINE s == sent[e] \o <<EOF>>
        <5>1. Len(s) = Len(sent[e]) + 1 /\ s[Len(sent[e]) + 1] = EOF /\ Len(sent[e]) \in Nat
          BY <3>3, EofLine
        <5> HIDE DEF s
        <5>2. Len(s) \in 1..Len(s) /\ s[Len(s)] = EOF
          BY <5>1
        <5> QED
          BY <5>2 DEF NoEof, s
      <4> QED
        BY <2>2, <4>1, <4>2, <4>3, <4>4, AloneEof DEF Told
    <3>5. CASE taken
      <4>1. arrived'[e] = tok[n] /\ slot'[e] = None /\ e \in pend'
        BY <2>1, <2>5, <3>2, <3>5
      <4>2. Due(e)' <=> tok[n] = <<EOF>>
        BY <4>1, NoneNoEof DEF Due
      <4> QED
        BY <1>a, <2>1, <2>2, <2>3, <2>4, <2>5, <3>1, <3>2, <3>4, <3>5, <4>1, <4>2, NoneNoEof DEF EdgeOK
    <3>6. CASE ~taken
      <4>1. arrived'[e] = arrived[e] /\ slot'[e] = tok[n] /\ pend' = pend
        BY <2>1, <2>5, <3>6
      <4>2. Due(e)' <=> tok[n] = <<EOF>>
        BY <3>2, <4>1 DEF Due
      <4> QED
        BY <1>a, <2>1, <2>2, <2>3, <2>4, <2>5, <3>1, <3>2, <3>4, <3>6, <4>1, <4>2, NoneNoEof DEF EdgeOK, Due
    <3> QED
      BY <3>5, <3>6
  <2>6. CASE e \notin to[n]
    <3>1. slot'[e] = slot[e] /\ arrived'[e] = arrived[e] /\ sent'[e] = sent[e] /\ pend' = pend
      BY <2>1, <2>6
    <3>2. Ended(e[1])' <=> Ended(e[1])
      <4>1. CASE e[1] = n
        BY <2>2, <2>4, <2>6, <4>1, AloneEof DEF Out
      <4>2. CASE e[1] # n
        BY <1>a, <1>b, <4>2 DEF Ended
      <4> QED
        BY <4>1, <4>2
    <3>3. slot[e] # None => pc'[e[1]] = "flush" /\ e \in to'[e[1]]
      BY <1>a, <1>b, <2>1 DEF EdgeOK
    <3> QED
      BY <1>a, <2>3, <3>1, <3>2, <3>3 DEF EdgeOK, Told, Due
  <2> QED
    BY <2>5, <2>6
<1> QED
  BY <1>1, <1>2, <1>3
-----------------------------------------------------------------------------
(* A node that takes its inputs has heard of a parent.                      *)

Heard(n) == \E e \in In(n) : sent[e] # <<>>

HeardOK(n) ==
  /\ n \in called /\ ~Root(n) => Heard(n)
  /\ \A e \in In(n) : e \in finished => Heard(n)
  /\ got[n] # <<>> => Heard(n)
  /\ pc[n] = "read" /\ at[n] > 1 => evs[n] # {} \/ Heard(n)

LEMMA InitHeard == ASSUME Init, NEW n \in Node PROVE HeardOK(n)
BY DEF Init, HeardOK, All

LEMMA SentGrows ==
  ASSUME TInv, stops = 0, NEW n \in Node, HandOK(n), Thread(n), NEW e \in Edge, sent[e] # <<>>
  PROVE  sent'[e] # <<>>
<1>1. CASE ~Write(n) /\ ~ReadPipe(n) /\ ~WaitRead(n)
  BY <1>1, QuietStep
<1>2. CASE ReadPipe(n) \/ WaitRead(n)
  BY <1>2, ReadTakes
<1>3. CASE Write(n)
  <2>1. sent'[e] = sent[e] \/ sent'[e] = sent[e] \o tok[n]
    BY <1>3, Calm, WriteCalm
  <2>2. sent[e] \in Seq(Line) /\ tok[n] \in Seq(Line)
    BY Calm DEF Types
  <2>3. sent[e] \o tok[n] # <<>>
    BY <2>2
  <2> QED
    BY <2>1, <2>3
<1> QED
  BY <1>1, <1>2, <1>3

LEMMA HeardGrows ==
  ASSUME TInv, stops = 0, NEW n \in Node, HandOK(n), Thread(n), NEW m \in Node, Heard(m)
  PROVE  Heard(m)'
<1>1. PICK e \in In(m) : sent[e] # <<>>
  BY DEF Heard
<1>2. e \in Edge
  BY <1>1 DEF In
<1>3. sent'[e] # <<>>
  BY <1>1, <1>2, SentGrows
<1> QED
  BY <1>3 DEF Heard, In

(* A thread comes to the end of no pipe but its own. *)
LEMMA OwnFinished ==
  ASSUME TInv, stops = 0, NEW n \in Node, HandOK(n), Thread(n)
  PROVE  finished' \subseteq finished \cup In(n)
<1>0. Types /\ ~term[n] /\ tev[n] # "set"
  BY Calm
<1>1. CASE ~Write(n) /\ ~ReadPipe(n) /\ ~WaitRead(n)
  BY <1>1, QuietStep
<1>2. CASE Write(n)
  BY <1>0, <1>2, WriteCalm DEF reading
<1>3. CASE ReadPipe(n)
  <2>1. \/ InList[n][at[n]] \in In(n) /\ ReadsPipe(n, InList[n][at[n]])
        \/ finished' = finished
    BY <1>0, <1>3, ReadPipeCalm
  <2> QED
    BY <2>1 DEF ReadsPipe
<1>4. CASE WaitRead(n)
  BY <1>0, <1>4, WaitReadCalm
<1> QED
  BY <1>1, <1>2, <1>3, <1>4

LEMMA HeardStep ==
  ASSUME TInv, stops = 0, NEW n \in Node, HandOK(n), Thread(n), \A e \in Edge : EdgeOK(e), HeardOK(n)
  PROVE  HeardOK(n)'
<1>0. Types /\ CountedOK /\ ~term[n] /\ tev[n] # "set" /\ pc \in [Node -> PCs]
  BY Calm DEF CountedOK
<1>a. Heard(n) => HeardOK(n)'
  BY HeardGrows DEF HeardOK
<1>b. SUFFICES ASSUME ~Heard(n) PROVE HeardOK(n)'
  BY <1>a
<1>c. /\ n \notin called \/ Root(n)
      /\ \A e \in In(n) : e \in Edge /\ e \notin finished /\ sent[e] = <<>>
      /\ got[n] = <<>>
  BY <1>b DEF HeardOK, Heard, In
<1>d. \A e \in In(n) : slot[e] = None /\ arrived[e] = None
  BY <1>c DEF EdgeOK
<1>1. CASE ReadPipe(n)
  <2>1. /\ pc[n] = "read"
        /\ \/ at[n] \in 1..Len(InList[n]) /\ InList[n][at[n]] \in In(n) /\ ReadsPipe(n, InList[n][at[n]])
           \/ at[n] > Len(InList[n]) /\ evs[n] = {} /\ Return(n, got[n]) /\ UNCHANGED <<slot, pend, finished>>
           \/ /\ pc' = [pc EXCEPT ![n] = "wait"]
              /\ UNCHANGED <<slot, pend, finished, at, evs, got, strings>>
    BY <1>0, <1>1, ReadPipeCalm
  <2>2. CASE InList[n][at[n]] \in In(n) /\ ReadsPipe(n, InList[n][at[n]])
    <3>1. /\ UNCHANGED called /\ evs'[n] # {} /\ got'[n] = got[n] /\ finished' = finished
      BY <1>c, <1>d, <2>2 DEF ReadsPipe, strings
    <3> QED
      BY <1>c, <3>1 DEF HeardOK, Root, In
  <2>3. CASE at[n] > Len(InList[n]) /\ evs[n] = {} /\ Return(n, got[n]) /\ UNCHANGED <<slot, pend, finished>>
    <3>1. Root(n)
      <4> SUFFICES ASSUME ~Root(n) PROVE FALSE
        OBVIOUS
      <4>1. Cardinality(In(n)) \in Nat /\ Cardinality(In(n)) # 0
        BY InOut, FS_EmptySet DEF Root
      <4>2. Len(InList[n]) \in Nat /\ Len(InList[n]) > 0
        BY <4>1, Lists
      <4>3. at[n] > 1
        BY <1>0, <2>3, <4>2 DEF Types
      <4> QED
        BY <1>b, <2>1, <2>3, <4>3 DEF HeardOK
    <3>2. got[n] \in Seq(Line)
      BY <1>0 DEF Types
    <3>3. at'[n] = 1 /\ got'[n] = <<>>
      BY <1>0, <2>3, <3>2, ReturnCalm
    <3> QED
      BY <1>c, <2>3, <3>1, <3>3 DEF HeardOK, Root, In
  <2>4. CASE /\ pc' = [pc EXCEPT ![n] = "wait"]
             /\ UNCHANGED <<slot, pend, finished, at, evs, got, strings>>
    <3>1. pc'[n] = "wait"
      BY <1>0, <2>4
    <3> QED
      BY <1>c, <2>4, <3>1 DEF HeardOK, Root, In, strings
  <2> QED
    BY <2>1, <2>2, <2>3, <2>4
<1>2. CASE WaitRead(n)
  BY <1>0, <1>2, <1>d, WaitReadCalm
<1>3. CASE ~ReadPipe(n) /\ ~WaitRead(n)
  <2>1. finished' = finished
    <3>1. CASE Write(n)
      BY <1>0, <3>1, WriteCalm DEF reading
    <3> QED
      BY <1>3, <3>1, QuietStep
  <2>2. UNCHANGED reading
    BY <1>3 DEF Thread, Create, ConnectPipe, OpenPipe, MakeEvent, Top, For, RunCommand, Write, Flush, End,
       Close, Barrier, ClosePipes
  <2>3. n \in called' => n \in called \/ Root(n)
    BY <1>3 DEF Thread, Create, ConnectPipe, OpenPipe, MakeEvent, Top, For, RunCommand, Write, Flush, End,
       Close, Barrier, ClosePipes, strings
  <2>4. pc'[n] = "read" => at[n] = 1
    <3>1. CASE ~Taking(n)
      BY <3>1 DEF HandOK
    <3>2. CASE Taking(n)
      BY <1>3, <3>2 DEF Thread, Create, ConnectPipe, OpenPipe, MakeEvent, Top, For, RunCommand, Write, Flush,
         End, Close, Barrier, ClosePipes, Taking
    <3> QED
      BY <3>1, <3>2
  <2> QED
    BY <1>c, <2>1, <2>2, <2>3, <2>4 DEF HeardOK, Root, In, reading
<1> QED
  BY <1>1, <1>2, <1>3

LEMMA HeardKept ==
  ASSUME TInv, stops = 0, NEW n \in Node, HandOK(n), Thread(n), \A e \in Edge : EdgeOK(e),
         NEW m \in Node, HeardOK(m)
  PROVE  HeardOK(m)'
<1>1. CASE m = n
  BY <1>1, HeardStep
<1>2. CASE m # n
  <2>1. Heard(m) => Heard(m)'
    BY HeardGrows
  <2>2. \A e \in In(m) : e \in finished' => e \in finished
    BY <1>2, OwnFinished DEF In
  <2> QED
    BY <1>2, <2>1, <2>2, Calm, OthersAlone DEF HeardOK, OwnKept, Root, In
<1> QED
  BY <1>1, <1>2
-----------------------------------------------------------------------------
(* The parents are counted: each "EOF" once, when it is read.               *)

Final(n)   == tok[n] = <<EOF>> /\ pc[n] \in {"write", "flush"}
Ripe(e)    == Told(e) /\ ~Due(e)
Drained(n) == {e \in In(n) : Ripe(e)}

(* A batch node with one parent at most. *)
Steady(n) == n \in Batch => Cardinality(In(n)) <= 1

CountOK(n) ==
  /\ eofs[n] + Count(EOF, got[n]) = Cardinality(Drained(n))
  /\ Taking(n) => \A i \in 1..Len(inputs[n]) : inputs[n][i] # <<EOF>>
  /\ n \in Batch \cap called =>
       /\ eofs[n] = Cardinality(In(n)) /\ ~Taking(n)
       /\ AllEof(inputs[n]) \/ (pc[n] \in {"top", "for"} /\ AllEof(Tail(inputs[n])))
  /\ n \notin Fails \ Batch /\ (pc[n] \in {"end"} \cup Past \/ Final(n)) =>
       eofs[n] = Cardinality(In(n)) /\ AllEof(inputs[n])

LEMMA DrainedSize ==
  ASSUME NEW n \in Node
  PROVE  IsFiniteSet(Drained(n)) /\ Cardinality(Drained(n)) \in Nat /\ Cardinality(Drained(n)) <= Cardinality(In(n))
<1>1. Drained(n) \in SUBSET In(n)
  BY DEF Drained
<1> QED
  BY <1>1, InOut, FS_Subset, FS_CardinalityType

LEMMA EofCounts == Count(EOF, <<EOF>>) = 1 /\ \A s \in Seq(Line) : NoEof(s) => Count(EOF, s) = 0
<1>1. {i \in DOMAIN <<EOF>> : <<EOF>>[i] = EOF} = {1}
  OBVIOUS
<1>2. Count(EOF, <<EOF>>) = 1
  BY <1>1, FS_Singleton DEF Count
<1>3. ASSUME NEW s \in Seq(Line), NoEof(s) PROVE Count(EOF, s) = 0
  <2>1. {i \in DOMAIN s : s[i] = EOF} = {}
    BY <1>3 DEF NoEof
  <2> QED
    BY <2>1, FS_EmptySet DEF Count
<1> QED
  BY <1>2, <1>3

LEMMA InitCount == ASSUME Init, NEW n \in Node PROVE CountOK(n)
<1>1. ASSUME NEW e \in In(n) PROVE ~Ripe(e)
  <2>1. sent[e] = None
    BY <1>1 DEF Init, Each, In, None
  <2> QED
    BY <2>1, NoneNoEof DEF Ripe, Told
<1>2. Drained(n) = {}
  BY <1>1 DEF Drained
<1>3. Cardinality(Drained(n)) = 0 /\ Count(EOF, <<>>) = 0
  BY <1>2, FS_EmptySet, CountEmpty
<1> QED
  BY <1>3 DEF Init, All, CountOK, Taking, Final, Past, Closing

(* ReadInputs: the string x, if there is one, is added to what has been read. *)
TakesString(n, e, x) ==
  /\ e \in In(n) /\ x # None
  /\ \/ e \notin pend /\ slot[e] = x /\ slot' = [slot EXCEPT ![e] = None] /\ arrived' = arrived
     \/ arrived[e] = x /\ arrived' = [arrived EXCEPT ![e] = None] /\ slot' = slot

LEMMA ReadingCalm ==
  ASSUME TInv, stops = 0, NEW n \in Node, ReadPipe(n) \/ WaitRead(n)
  PROVE  \E g \in Seq(Line) :
           /\ Taking(n) /\ UNCHANGED <<sent, ran, tok>>
           /\ \/ g = got[n] /\ UNCHANGED <<slot, arrived>>
              \/ \E e \in Edge, x \in Seq(Line) : TakesString(n, e, x) /\ g = got[n] \o x
           /\ \/ Return(n, g)
              \/ got'[n] = g /\ UNCHANGED strings /\ pc'[n] \in {"read", "wait"}
<1>0. Types /\ CountedOK /\ ~term[n] /\ tev[n] # "set" /\ pc \in [Node -> PCs]
  BY Calm DEF CountedOK
<1>a. got[n] \in Seq(Line)
  BY <1>0 DEF Types
<1>1. CASE ReadPipe(n)
  <2>1. /\ pc[n] = "read" /\ UNCHANGED <<arrived, writing, history>>
        /\ \/ InList[n][at[n]] \in In(n) /\ ReadsPipe(n, InList[n][at[n]])
           \/ Return(n, got[n]) /\ UNCHANGED <<slot, pend, finished>>
           \/ /\ pc' = [pc EXCEPT ![n] = "wait"]
              /\ UNCHANGED <<slot, pend, finished, at, evs, got, strings>>
    BY <1>0, <1>1, ReadPipeCalm
  <2>2. Taking(n) /\ UNCHANGED <<sent, ran, tok>>
    BY <2>1 DEF Taking, writing, history
  <2>3. CASE InList[n][at[n]] \in In(n) /\ ReadsPipe(n, InList[n][at[n]])
    <3> DEFINE e == InList[n][at[n]]
    <3>1. e \in In(n) /\ ReadsPipe(n, e) /\ e \in Edge
      BY <2>3 DEF In
    <3> HIDE DEF e
    <3>2. UNCHANGED strings /\ pc'[n] \in {"read", "wait"}
      BY <2>1, <3>1 DEF ReadsPipe
    <3>3. CASE UNCHANGED <<slot, got>>
      BY <1>a, <2>1, <2>2, <3>2, <3>3
    <3>4. CASE e \notin pend /\ slot[e] # None /\ slot' = [slot EXCEPT ![e] = None] /\ got'[n] = got[n] \o slot[e]
      <4>1. TakesString(n, e, slot[e]) /\ slot[e] \in Seq(Line)
        BY <1>0, <2>1, <3>1, <3>4 DEF TakesString, Types
      <4>2. got[n] \o slot[e] \in Seq(Line)
        BY <1>a, <4>1
      <4> QED
        BY <2>2, <3>1, <3>2, <3>4, <4>1, <4>2
    <3> QED
      BY <3>1, <3>3, <3>4 DEF ReadsPipe
  <2>4. CASE Return(n, got[n]) /\ UNCHANGED <<slot, pend, finished>>
    BY <1>a, <2>1, <2>2, <2>4
  <2>5. CASE /\ pc' = [pc EXCEPT ![n] = "wait"]
             /\ UNCHANGED <<slot, pend, finished, at, evs, got, strings>>
    <3>1. pc'[n] = "wait"
      BY <1>0, <2>5
    <3> QED
      BY <1>a, <2>1, <2>2, <2>5, <3>1
  <2> QED
    BY <2>1, <2>3, <2>4, <2>5
<1>2. CASE WaitRead(n)
  <2>1. PICK e \in In(n) :
          /\ pc[n] = "wait" /\ UNCHANGED <<slot, writing, history>>
          /\ e \in Edge /\ arrived[e] # None
          /\ arrived' = [arrived EXCEPT ![e] = None]
          /\ got[n] \o arrived[e] \in Seq(Line)
          /\ Return(n, got[n] \o arrived[e])
    BY <1>0, <1>2, WaitReadCalm
  <2>2. TakesString(n, e, arrived[e]) /\ arrived[e] \in Seq(Line)
    BY <1>0, <2>1 DEF TakesString, Types
  <2>3. Taking(n) /\ UNCHANGED <<sent, ran, tok>>
    BY <2>1 DEF Taking, writing, history
  <2> QED
    BY <2>1, <2>2, <2>3
<1> QED
  BY <1>1, <1>2

(* "EOF" is read of a pipe once. *)
LEMMA TakenRipe ==
  ASSUME Types, NEW n \in Node, NEW e \in Edge, NEW x \in Seq(Line), TakesString(n, e, x), sent' = sent, EdgeOK(e)
  PROVE  /\ \A d \in Edge : d # e => (Ripe(d)' <=> Ripe(d))
         /\ ~Ripe(e) /\ (Ripe(e)' <=> x = <<EOF>>) /\ (x = <<EOF>> \/ NoEof(x))
<1>1. \A d \in Edge : d # e => slot'[d] = slot[d] /\ arrived'[d] = arrived[d]
  BY DEF TakesString, Types
<1>0. (Told(e)' <=> Told(e)) /\ x # None /\ <<EOF>> # None
  BY NoneNoEof DEF Told, TakesString
<1>2. ASSUME e \notin pend, slot[e] = x, slot'[e] = None, arrived'[e] = arrived[e]
      PROVE  ~Ripe(e) /\ (Ripe(e)' <=> x = <<EOF>>) /\ (x = <<EOF>> \/ NoEof(x))
  <2>1. arrived[e] = None /\ (x = <<EOF>> \/ NoEof(x)) /\ (Due(e) => Told(e)) /\ (Told(e) => Due(e))
    BY <1>0, <1>2 DEF EdgeOK
  <2>2. Due(e) <=> x = <<EOF>>
    BY <1>0, <1>2, <2>1 DEF Due
  <2>3. ~Due(e)'
    BY <1>0, <1>2, <2>1 DEF Due
  <2> QED
    BY <1>0, <2>1, <2>2, <2>3 DEF Ripe
<1>3. ASSUME arrived[e] = x, arrived'[e] = None, slot'[e] = slot[e]
      PROVE  ~Ripe(e) /\ (Ripe(e)' <=> x = <<EOF>>) /\ (x = <<EOF>> \/ NoEof(x))
  <2>1. (x = <<EOF>> \/ NoEof(x)) /\ (Due(e) => Told(e)) /\ (Told(e) => Due(e)) /\ (x = <<EOF>> => slot[e] = None)
    BY <1>0, <1>3 DEF EdgeOK
  <2>2. Due(e) <=> x = <<EOF>> \/ slot[e] = <<EOF>>
    BY <1>3 DEF Due
  <2>3. Due(e)' <=> slot[e] = <<EOF>>
    BY <1>0, <1>3 DEF Due
  <2> QED
    BY <1>0, <2>1, <2>2, <2>3 DEF Ripe
<1>4. \/ e \notin pend /\ slot[e] = x /\ slot'[e] = None /\ arrived'[e] = arrived[e]
      \/ arrived[e] = x /\ arrived'[e] = None /\ slot'[e] = slot[e]
  BY DEF TakesString, Types
<1>5. \A d \in Edge : d # e => (Ripe(d)' <=> Ripe(d))
  BY <1>1 DEF Ripe, Told, Due
<1> QED
  BY <1>2, <1>3, <1>4, <1>5

LEMMA DrainedMore ==
  ASSUME Types, NEW n \in Node, NEW e \in Edge, NEW x \in Seq(Line), TakesString(n, e, x), sent' = sent, EdgeOK(e)
  PROVE  Cardinality(Drained(n)') = Cardinality(Drained(n)) + Count(EOF, x)
<1>1. /\ \A d \in Edge : d # e => (Ripe(d)' <=> Ripe(d))
      /\ ~Ripe(e) /\ (Ripe(e)' <=> x = <<EOF>>) /\ (x = <<EOF>> \/ NoEof(x))
  BY TakenRipe
<1>2. In(n)' = In(n) /\ e \in In(n) /\ \A d \in In(n) : d \in Edge
  BY DEF In, TakesString
<1>3. CASE x = <<EOF>>
  <2>1. Drained(n)' = Drained(n) \cup {e} /\ e \notin Drained(n)
    BY <1>1, <1>2, <1>3 DEF Drained
  <2>2. Cardinality(Drained(n) \cup {e}) = Cardinality(Drained(n)) + 1
    BY <2>1, DrainedSize, FS_AddElement
  <2> QED
    BY <1>3, <2>1, <2>2, EofCounts
<1>4. CASE x # <<EOF>>
  <2>1. Drained(n)' = Drained(n)
    BY <1>1, <1>2, <1>4 DEF Drained
  <2>2. Count(EOF, x) = 0
    BY <1>1, <1>4, EofCounts
  <2> QED
    BY <2>1, <2>2, DrainedSize
<1> QED
  BY <1>3, <1>4
(* Apart from ReadInputs, nothing changes which pipes are read to their end. *)
LEMMA RipeKept ==
  ASSUME TInv, stops = 0, NEW n \in Node, HandOK(n), Thread(n), NEW e \in Edge, EdgeOK(e),
         ~(e \in In(n) /\ (ReadPipe(n) \/ WaitRead(n)))
  PROVE  Ripe(e)' <=> Ripe(e)
<1>0. Types /\ ~term[n] /\ CountedOK
  BY Calm
<1>1. CASE ~Write(n) /\ ~ReadPipe(n) /\ ~WaitRead(n)
  BY <1>1, QuietStep DEF Ripe, Told, Due
<1>2. CASE ReadPipe(n) \/ WaitRead(n)
  <2>1. sent' = sent /\ (UNCHANGED <<slot, arrived, pend>> \/ \E d \in Edge : Takes(n, d))
    BY <1>2, ReadTakes
  <2>2. slot'[e] = slot[e] /\ arrived'[e] = arrived[e]
    BY <1>2, <2>1 DEF Takes, In
  <2> QED
    BY <2>1, <2>2 DEF Ripe, Told, Due
<1>3. CASE Write(n)
  <2> DEFINE taken == e \in pend /\ arrived[e] = None
  <2>0. pc \in [Node -> PCs]
    BY <1>0 DEF CountedOK
  <2>1. /\ pc[n] = "write" /\ pc'[n] = "flush" /\ UNCHANGED <<tok, to, pend>>
        /\ arrived'[e] = IF e \in to[n] /\ taken THEN tok[n] ELSE arrived[e]
        /\ slot'[e] = IF e \in to[n] /\ ~taken THEN tok[n] ELSE slot[e]
        /\ sent'[e] = IF e \in to[n] THEN sent[e] \o tok[n] ELSE sent[e]
    <3> DEFINE takers == {d \in to[n] : d \in pend /\ arrived[d] = None}
    <3>1. /\ pc[n] = "write" /\ pc' = [pc EXCEPT ![n] = "flush"]
          /\ UNCHANGED <<tok, to, pend>>
          /\ arrived' = [d \in Edge |-> IF d \in takers THEN tok[n] ELSE arrived[d]]
          /\ slot' = [d \in Edge |-> IF d \in to[n] \ takers THEN tok[n] ELSE slot[d]]
          /\ sent' = [d \in Edge |-> IF d \in to[n] THEN sent[d] \o tok[n] ELSE sent[d]]
      BY <1>0, <1>3, WriteCalm DEF writing, reading
    <3>2. e \in takers <=> e \in to[n] /\ taken
      OBVIOUS
    <3>3. pc'[n] = "flush"
      BY <2>0, <3>1
    <3> HIDE DEF takers, taken
    <3> QED
      BY <3>1, <3>2, <3>3
  <2>2. CASE e \notin to[n]
    BY <2>1, <2>2 DEF Ripe, Told, Due
  <2>3. CASE e \in to[n]
    <3>1. e[1] = n
      BY <2>1, <2>3 DEF HandOK, Out
    <3>2. ~Ended(n) /\ (Ended(n)' <=> tok[n] = <<EOF>>)
      BY <2>1 DEF Ended, Past, Closing
    <3>3. ~Told(e)
      BY <3>1, <3>2 DEF EdgeOK
    <3>4. EdgeOK(e)'
      BY <1>3, EdgeStep
    <3>5. Told(e)' <=> tok[n] = <<EOF>>
      BY <3>1, <3>2, <3>4 DEF EdgeOK
    <3>6. tok[n] = <<EOF>> => Due(e)'
      BY <2>1, <2>3 DEF Due
    <3> QED
      BY <3>3, <3>5, <3>6 DEF Ripe
  <2> QED
    BY <2>2, <2>3
<1> QED
  BY <1>1, <1>2, <1>3

LEMMA DrainedKept ==
  ASSUME TInv, stops = 0, NEW n \in Node, HandOK(n), Thread(n), \A e \in Edge : EdgeOK(e),
         NEW m \in Node, m # n \/ (~ReadPipe(n) /\ ~WaitRead(n))
  PROVE  Drained(m)' = Drained(m)
<1>1. \A e \in In(m) : e \in Edge /\ (e \in In(n) => m = n)
  BY DEF In
<1>2. \A e \in In(m) : Ripe(e)' <=> Ripe(e)
  BY <1>1, RipeKept
<1> QED
  BY <1>2 DEF Drained, In

LEMMA CountReturn ==
  ASSUME Types, CountedOK, NEW n \in Node, ~term[n], Steady(n), CountOK(n), HandOK(n), Taking(n),
         NEW g \in Seq(Line), Return(n, g),
         eofs[n] + Count(EOF, g) = Cardinality(Drained(n)')
  PROVE  CountOK(n)'
<1> DEFINE all   == AsStrings(g) \o inputs[n]
           sum   == eofs[n] + EofsIn(all)
           place == Whereto(n, sum = Cardinality(In(n)))
<1>1. /\ all \in Seq(String) /\ sum \in Nat
      /\ eofs'[n] = sum /\ got'[n] = <<>>
      /\ pc' = [pc EXCEPT ![n] = place] /\ place \in {"read", "end", "top"}
      /\ \/ n \in Batch \ called /\ place # "read" /\ Concat(n, all)
         \/ (n \notin Batch \ called \/ place = "read") /\ inputs'[n] = IF place = "end" THEN <<>> ELSE all
      /\ called' = IF place = "read" THEN called ELSE called \cup {n}
  BY ReturnCalm
<1>2. AsStrings(g) \in Seq(String) /\ inputs[n] \in Seq(String)
  BY AsStringsType DEF Types
<1>3. EofsIn(all) = Count(EOF, g) /\ EofsIn(all) \in Nat
  <2>1. EofsIn(all) = EofsIn(AsStrings(g))
    BY <1>2, EofsInKept DEF CountOK
  <2>2. EofsIn(AsStrings(g)) = Count(EOF, g)
    <3>1. DOMAIN g = 1..Len(g)
      OBVIOUS
    <3> QED
      BY <3>1, EofsInLines DEF Count
  <2>3. EofsIn(all) \in Nat
    BY <1>1, EofsInType
  <2> QED
    BY <2>1, <2>2, <2>3
<1>4. sum = Cardinality(Drained(n)') /\ sum <= Cardinality(In(n))
  <2>1. Drained(n)' \in SUBSET In(n)
    BY DEF Drained, In
  <2>2. Cardinality(Drained(n)') <= Cardinality(In(n))
    BY <2>1, InOut, FS_Subset
  <2> QED
    BY <1>3, <2>2
<1>5. sum # Cardinality(In(n)) /\ n \in Batch => \A i \in 1..Len(all) : all[i] # <<EOF>>
  <2> SUFFICES ASSUME sum # Cardinality(In(n)), n \in Batch PROVE \A i \in 1..Len(all) : all[i] # <<EOF>>
    OBVIOUS
  <2>1. Cardinality(In(n)) <= 1 /\ Cardinality(In(n)) \in Nat
    BY InOut DEF Steady
  <2>2. eofs[n] \in Nat
    BY DEF Types
  <2>3. EofsIn(all) = 0
    <3> HIDE DEF all
    <3> QED
      BY <1>1, <1>3, <1>4, <2>1, <2>2
  <2> QED
    BY <1>1, <2>3, NoneCounted
<1>6. /\ place = "read" => n \notin called /\ n \in Batch /\ sum # Cardinality(In(n))
      /\ place = "end" => n \in called /\ sum = Cardinality(In(n))
      /\ n \in Batch \ called /\ place # "read" => sum = Cardinality(In(n))
  BY DEF Whereto
<1>7. Count(EOF, <<>>) = 0
  BY CountEmpty
<1>8. n \notin Batch \cap called
  BY DEF CountOK
<1> HIDE DEF all, sum, place
<1>9. pc'[n] = place /\ (n \in called' <=> n \in called \/ place # "read")
  BY <1>1 DEF CountedOK
<1>10. ASSUME n \in Batch \ called, place # "read"
       PROVE  AllEof(Tail(inputs'[n])) /\ place = "top"
  <2>1. Concat(n, all) /\ place = "top"
    BY <1>1, <1>6, <1>10
  <2>2. Single(all)
    <3>1. Single(inputs[n]) /\ Single(AsStrings(g))
      BY <1>10, SplitSingle DEF HandOK
    <3> QED
      BY <1>2, <3>1, SingleConcat DEF all
  <2> QED
    BY <1>1, <2>1, <2>2, ConcatOK
<1>11. eofs'[n] + Count(EOF, got'[n]) = Cardinality(Drained(n)')
  BY <1>1, <1>4, <1>7
<1>12. Taking(n)' => \A i \in 1..Len(inputs'[n]) : inputs'[n][i] # <<EOF>>
  BY <1>1, <1>5, <1>6, <1>9 DEF Taking
<1>13. n \in Batch \cap called' =>
         /\ eofs'[n] = Cardinality(In(n)) /\ ~Taking(n)'
         /\ pc'[n] \in {"top", "for"} /\ AllEof(Tail(inputs'[n]))
  BY <1>1, <1>6, <1>8, <1>9, <1>10 DEF Taking
<1>14. pc'[n] \in {"end"} \cup Past \/ Final(n)' => eofs'[n] = Cardinality(In(n)) /\ AllEof(inputs'[n])
  <2>1. AllEof(<<>>)
    BY DEF AllEof
  <2>2. pc'[n] \in {"end"} \cup Past \/ Final(n)' => place = "end"
    BY <1>1, <1>9 DEF Past, Closing, Final
  <2> QED
    BY <1>1, <1>6, <1>8, <2>1, <2>2
<1>15. In(n)' = In(n)
  BY DEF In
<1> QED
  BY <1>11, <1>12, <1>13, <1>14, <1>15 DEF CountOK
LEMMA CountReading ==
  ASSUME TInv, stops = 0, NEW n \in Node, HandOK(n), \A e \in Edge : EdgeOK(e),
         Steady(n), CountOK(n), ReadPipe(n) \/ WaitRead(n)
  PROVE  CountOK(n)'
<1>0. Types /\ CountedOK /\ ~term[n] /\ got[n] \in Seq(Line)
  BY Calm DEF Types
<1>1. PICK g \in Seq(Line) :
        /\ Taking(n) /\ UNCHANGED <<sent, ran, tok>>
        /\ \/ g = got[n] /\ UNCHANGED <<slot, arrived>>
           \/ \E e \in Edge, x \in Seq(Line) : TakesString(n, e, x) /\ g = got[n] \o x
        /\ \/ Return(n, g)
           \/ got'[n] = g /\ UNCHANGED strings /\ pc'[n] \in {"read", "wait"}
  BY ReadingCalm
<1>2. eofs[n] + Count(EOF, g) = Cardinality(Drained(n)')
  <2>1. eofs[n] + Count(EOF, got[n]) = Cardinality(Drained(n)) /\ eofs[n] \in Nat /\ Count(EOF, got[n]) \in Nat
    BY <1>0, CountType DEF CountOK, Types
  <2>2. CASE g = got[n] /\ UNCHANGED <<slot, arrived>>
    <3>1. Drained(n)' = Drained(n)
      BY <1>1, <2>2 DEF Drained, In, Ripe, Told, Due
    <3> QED
      BY <2>1, <2>2, <3>1
  <2>3. CASE \E e \in Edge, x \in Seq(Line) : TakesString(n, e, x) /\ g = got[n] \o x
    <3>1. PICK e \in Edge, x \in Seq(Line) : TakesString(n, e, x) /\ g = got[n] \o x
      BY <2>3
    <3>2. Cardinality(Drained(n)') = Cardinality(Drained(n)) + Count(EOF, x)
      BY <1>0, <1>1, <3>1, DrainedMore
    <3>3. Count(EOF, g) = Count(EOF, got[n]) + Count(EOF, x) /\ Count(EOF, x) \in Nat
      BY <1>0, <3>1, CountConcat, CountType
    <3> QED
      BY <2>1, <3>2, <3>3
  <2> QED
    BY <1>1, <2>2, <2>3
<1>3. CASE Return(n, g)
  BY <1>0, <1>1, <1>2, <1>3, CountReturn
<1>4. CASE got'[n] = g /\ UNCHANGED strings /\ pc'[n] \in {"read", "wait"}
  BY <1>1, <1>2, <1>4 DEF CountOK, strings, Taking, Final, Past, Closing, In
<1> QED
  BY <1>1, <1>3, <1>4

LEMMA CountStep ==
  ASSUME TInv, stops = 0, NEW n \in Node, HandOK(n), Thread(n), \A e \in Edge : EdgeOK(e),
         ~Root(n), Steady(n), CountOK(n)
  PROVE  CountOK(n)'
<1>0. Types /\ CountedOK /\ NextOK /\ ~term[n] /\ tev[n] # "set" /\ pc \in [Node -> PCs]
  BY Calm DEF CountedOK, TInv
<1>a. CASE ReadPipe(n) \/ WaitRead(n)
  BY <1>a, CountReading
<1>b. CASE ~ReadPipe(n) /\ ~WaitRead(n)
  <2>0. Drained(n)' = Drained(n) /\ In(n)' = In(n) /\ UNCHANGED <<reading, eofs>>
    <3>1. Drained(n)' = Drained(n)
      BY <1>b, DrainedKept
    <3>2. UNCHANGED <<reading, eofs>>
      BY <1>b DEF Thread, Create, ConnectPipe, OpenPipe, MakeEvent, Top, For, RunCommand, Write, Flush, End,
         Close, Barrier, ClosePipes, strings
    <3> QED
      BY <3>1, <3>2 DEF In
  <2>a. eofs'[n] + Count(EOF, got'[n]) = Cardinality(Drained(n)')
    BY <2>0 DEF CountOK, reading
  <2>b. AllEof(<<>>)
    BY DEF AllEof
  <2>c. ASSUME AllEof(inputs[n]), inputs[n] # <<>> PROVE AllEof(Tail(inputs[n]))
    BY <1>0, <2>c, TailOK DEF Types
  <2>1. CASE Create(n) \/ ConnectPipe(n) \/ OpenPipe(n)
    <3>1. pc[n] \in Opening /\ pc'[n] \in Opening /\ UNCHANGED strings
      BY <1>0, <2>1 DEF Create, ConnectPipe, OpenPipe, Goto, Opening
    <3> QED
      BY <2>0, <2>a, <3>1 DEF CountOK, HandOK, strings, Taking, Final, Past, Closing, Opening
  <2>2. CASE MakeEvent(n)
    <3>1. pc[n] = "event" /\ pc'[n] = "read" /\ UNCHANGED <<inputs, called>>
      BY <1>0, <2>2 DEF MakeEvent, Goto
    <3>2. inputs[n] = <<>> /\ n \notin called
      BY <3>1 DEF HandOK, Opening
    <3> QED
      BY <2>0, <2>a, <3>1, <3>2 DEF CountOK, Taking, Final, Past, Closing
  <2>3. CASE Top(n)
    <3>1. eofs[n] <= Cardinality(In(n))
      <4>1. eofs[n] \in Nat /\ Count(EOF, got[n]) \in Nat
        BY <1>0, CountType DEF Types
      <4> QED
        BY <4>1, DrainedSize, InOut DEF CountOK
    <3>2. pc[n] = "top" /\ pc'[n] = "for" /\ UNCHANGED strings
      BY <1>0, <2>3, <3>1 DEF Top, Goto
    <3> QED
      BY <2>0, <2>a, <3>2 DEF CountOK, strings, Taking, Final, Past, Closing
  <2>4. CASE For(n)
    <3>0. PlainFor(n)
      BY <1>0, <2>4, ForPlain DEF RootOK
    <3>1. pc[n] = "for" /\ called' = called
      BY <3>0 DEF PlainFor
    <3>2. CASE inputs[n] = <<>>
      <4>1. inputs'[n] = <<>> /\ pc'[n] = IF eofs[n] = Cardinality(In(n)) THEN "end" ELSE "read"
        BY <1>0, <3>0, <3>2 DEF PlainFor, Goto
      <4> QED
        BY <2>0, <2>a, <2>b, <3>1, <4>1 DEF CountOK, Taking, Final, Past, Closing
    <3>3. CASE inputs[n] # <<>>
      <4> DEFINE t == Head(inputs[n])
      <4>1. inputs'[n] = Tail(inputs[n])
        BY <1>0, <3>0, <3>3 DEF PlainFor, Types
      <4>2. \/ pc' = pc
            \/ t # <<EOF>> /\ Goto(n, "exec")
            \/ t # <<EOF>> /\ Emit(n, t)
        BY <3>0, <3>3 DEF PlainFor
      <4>3. pc'[n] \in {"for", "exec"} \/ (pc'[n] = "write" /\ tok'[n] # <<EOF>>)
        <5> HIDE DEF t
        <5>1. CASE pc' = pc \/ Goto(n, "exec")
          BY <1>0, <3>1, <5>1 DEF Goto
        <5>2. CASE t # <<EOF>> /\ Emit(n, t)
          BY <1>0, <5>2, EmitCalm
        <5> QED
          BY <4>2, <5>1, <5>2
      <4>4. n \in Batch \cap called => AllEof(inputs'[n])
        BY <2>c, <3>3, <4>1 DEF CountOK
      <4> QED
        BY <2>0, <2>a, <3>1, <4>3, <4>4 DEF CountOK, Taking, Final, Past, Closing
    <3> QED
      BY <3>2, <3>3
  <2>5. CASE RunCommand(n)
    <3>1. pc[n] = "exec" /\ UNCHANGED strings /\ NoEof(tok[n]) /\ n \in called
      BY <2>5 DEF RunCommand, HandOK, Opening
    <3>2. CASE Emit(n, tok[n])
      <4>1. pc'[n] = "write" /\ tok'[n] # <<EOF>>
        BY <1>0, <3>1, <3>2, EmitCalm, AloneEof
      <4> QED
        BY <2>0, <2>a, <3>1, <4>1 DEF CountOK, strings, Taking, Final, Past, Closing
    <3>3. CASE CommandFails(n) /\ Goto(n, "end")
      <4>1. n \in Fails /\ pc'[n] = "end"
        BY <1>0, <3>3 DEF CommandFails, Goto
      <4> QED
        BY <2>0, <2>a, <3>1, <4>1 DEF CountOK, strings, Taking
    <3> QED
      BY <2>5, <3>2, <3>3 DEF RunCommand
  <2>6. CASE Write(n)
    <3>1. pc[n] = "write" /\ pc'[n] = "flush" /\ UNCHANGED <<inputs, called, tok>>
      BY <1>0, <2>6, WriteCalm DEF strings, writing
    <3> QED
      BY <2>0, <2>a, <3>1 DEF CountOK, Taking, Final, Past, Closing
  <2>7. CASE Flush(n)
    <3>1. /\ pc[n] = "flush" /\ UNCHANGED <<inputs, called, tok>>
          /\ pc'[n] = IF tok[n] = <<EOF>> THEN "close" ELSE "for"
      BY <1>0, <2>7, FlushCalm DEF strings, writing
    <3> QED
      BY <2>0, <2>a, <3>1 DEF CountOK, Taking, Final, Past, Closing
  <2>8. CASE End(n)
    <3>1. pc[n] = "end" /\ pc'[n] = "write" /\ inputs'[n] = <<>> /\ called' = called
      BY <1>0, <2>8 DEF End, Goto, Types
    <3> QED
      BY <2>0, <2>a, <2>b, <3>1 DEF CountOK, Taking, Final, Past, Closing
  <2>9. CASE Close(n) \/ Barrier(n) \/ ClosePipes(n)
    <3>1. pc[n] \in Past /\ pc'[n] \in Closing /\ UNCHANGED <<inputs, called>>
      BY <1>0, <2>9 DEF Close, Barrier, ClosePipes, Goto, Past, Closing, strings
    <3> QED
      BY <2>0, <2>a, <3>1 DEF CountOK, Taking, Final, Past, Closing
  <2> QED
    BY <1>b, <2>1, <2>2, <2>3, <2>4, <2>5, <2>6, <2>7, <2>8, <2>9 DEF Thread
<1> QED
  BY <1>a, <1>b

LEMMA CountKept ==
  ASSUME TInv, stops = 0, NEW n \in Node, HandOK(n), Thread(n), \A e \in Edge : EdgeOK(e),
         NEW m \in Node, ~Root(m), Steady(m), CountOK(m)
  PROVE  CountOK(m)'
<1>1. CASE m = n
  BY <1>1, CountStep
<1>2. CASE m # n
  <2>1. Drained(m)' = Drained(m) /\ In(m)' = In(m)
    BY <1>2, DrainedKept DEF In
  <2>2. OwnKept(m)
    BY <1>2, Calm, OthersAlone
  <2> QED
    BY <2>1, <2>2 DEF CountOK, OwnKept, Taking, Final
<1> QED
  BY <1>1, <1>2
(* Together. *)
WorkInv ==
  /\ TInv
  /\ stops = 0 =>
       /\ \A n \in Node : HandOK(n) /\ RootOK(n) /\ HeardOK(n)
       /\ \A e \in Edge : EdgeOK(e)
       /\ \A n \in Node : ~Root(n) /\ Steady(n) => CountOK(n)

LEMMA InitWork == Init => WorkInv
BY InitT, InitHand, InitHeard, InitEdge, InitCount DEF WorkInv

LEMMA ThreadWork ==
  ASSUME PlainData, WorkInv, stops = 0, NEW n \in Node, Thread(n)
  PROVE  WorkInv'
<1>1. TInv'
  BY ThreadT DEF WorkInv
<1>2. \A m \in Node : HandOK(m)' /\ RootOK(m)' /\ HeardOK(m)'
  BY HandKept, HeardKept DEF WorkInv
<1>3. \A e \in Edge : EdgeOK(e)'
  BY EdgeStep DEF WorkInv
<1>4. ASSUME NEW m \in Node, (~Root(m) /\ Steady(m))' PROVE CountOK(m)'
  <2>1. ~Root(m) /\ Steady(m)
    BY <1>4 DEF Root, Steady, In
  <2> QED
    BY <2>1, CountKept DEF WorkInv
<1> QED
  BY <1>1, <1>2, <1>3, <1>4 DEF WorkInv

(* A thread that is started is still opening. *)
LEMMA StartPlaces ==
  ASSUME TInv, Start
  PROVE  /\ \A m \in Node : pc'[m] = pc[m] \/ (pc[m] = "off" /\ pc'[m] = "create")
         /\ UNCHANGED <<stops, sync, tev, pipes, data, reading, strings, writing, history>>
<1>1. Len(Order) \in Nat /\ started \in Nat /\ started + 1 \in 1..Len(Order) /\ started + 1 > started
  <2>1. Len(Order) \in Nat /\ started \in 0..Len(Order) /\ started < Len(Order)
    BY WinAssumption DEF TInv, TypeOK, Start
  <2> QED
    BY <2>1
<1>2. pc[Order[started + 1]] = "off"
  BY <1>1 DEF TInv, StartOK
<1>3. pc' = [pc EXCEPT ![Order[started + 1]] = "create"] /\ pc \in [Node -> PCs]
  BY DEF Start, Goto, TInv, TypeOK
<1>4. UNCHANGED <<stops, sync, tev, pipes, data, reading, strings, writing, history>>
  BY DEF Start
<1> QED
  BY <1>2, <1>3, <1>4

LEMMA StartWork ==
  ASSUME WorkInv, stops = 0, Start
  PROVE  WorkInv'
<1>1. TInv' /\ TInv
  BY StartT DEF WorkInv
<1>2. /\ \A m \in Node : pc'[m] = pc[m] \/ (pc[m] = "off" /\ pc'[m] = "create")
      /\ UNCHANGED <<stops, sync, tev, pipes, data, reading, strings, writing, history>>
  BY <1>1, StartPlaces
<1>3. \A m \in Node : /\ pc'[m] \in Opening <=> pc[m] \in Opening
                      /\ \A x \in PCs \ {"off", "create"} : pc'[m] = x <=> pc[m] = x
  BY <1>2 DEF Opening
<1>4. /\ {"read", "wait", "exec", "write", "flush", "top", "for", "end"} \subseteq PCs \ {"off", "create"}
      /\ Past \subseteq PCs \ {"off", "create"} /\ Past \cap Opening = {}
  BY DEF PCs, Past, Closing, Opening
<1>5. \A m \in Node : /\ Taking(m)' <=> Taking(m)
                      /\ pc'[m] \in Past <=> pc[m] \in Past
                      /\ Final(m)' <=> Final(m)
                      /\ Ended(m)' <=> Ended(m)
  BY <1>2, <1>3, <1>4 DEF Taking, Final, Ended, writing
<1>6. ASSUME NEW m \in Node PROVE HandOK(m)' /\ RootOK(m)'
  <2>1. HandOK(m) /\ RootOK(m)
    BY DEF WorkInv
  <2> QED
    BY <1>2, <1>3, <1>4, <1>5, <2>1 DEF HandOK, RootOK, Past, Root, In, strings, writing, reading
<1>7. ASSUME NEW m \in Node PROVE HeardOK(m)'
  <2>1. HeardOK(m)
    BY DEF WorkInv
  <2> QED
    BY <1>2, <1>3, <1>4, <2>1 DEF HeardOK, Heard, In, Root, strings, reading, history
<1>8. ASSUME NEW e \in Edge PROVE EdgeOK(e)'
  <2>1. EdgeOK(e) /\ e[1] \in Node /\ e[2] \in Node
    BY EdgeFinite DEF WorkInv
  <2> QED
    BY <1>2, <1>3, <1>4, <1>5, <2>1 DEF EdgeOK, Told, Due, data, reading, writing, history
<1>9. ASSUME NEW m \in Node, (~Root(m) /\ Steady(m))' PROVE CountOK(m)'
  <2>1. CountOK(m)
    BY <1>9 DEF WorkInv, Root, Steady, In
  <2>2. Drained(m)' = Drained(m)
    BY <1>2 DEF Drained, Ripe, Told, Due, In, data, history
  <2> QED
    BY <1>2, <1>3, <1>4, <1>5, <2>1, <2>2 DEF CountOK, In, strings, reading
<1> QED
  BY <1>1, <1>6, <1>7, <1>8, <1>9 DEF WorkInv

LEMMA StopsKept == ASSUME TInv, [Next]_vars, stops # 0 PROVE stops' # 0
<1>1. stops \in Nat
  BY DEF TInv, TypeOK
<1>2. ASSUME NEW n \in Node, Thread(n) PROVE stops' = stops
  BY <1>2, ThreadSignals, TypeParts DEF TInv, graph
<1>3. stops' = stops \/ stops' = stops + 1
  BY <1>2 DEF Next, Start, Terminate, StopStep, vars, graph
<1> QED
  BY <1>1, <1>3

LEMMA WorkKept == PlainData /\ WorkInv /\ [Next]_vars => WorkInv'
<1> SUFFICES ASSUME PlainData, WorkInv, [Next]_vars PROVE WorkInv'
  OBVIOUS
<1>1. TInv'
  BY TypesKept DEF WorkInv
<1>2. CASE stops # 0
  <2>1. stops' # 0
    BY <1>2, StopsKept DEF WorkInv
  <2> QED
    BY <1>1, <2>1 DEF WorkInv
<1>3. CASE stops = 0
  <2>1. CASE Terminate \/ StopStep
    <3>1. stops' # 0
      BY <2>1, TerminateT, StopStepT DEF WorkInv
    <3> QED
      BY <1>1, <3>1 DEF WorkInv
  <2>2. CASE UNCHANGED vars
    <3>1. UNCHANGED <<stops, pc, slot, arrived, pend, finished, at, evs, got, inputs, eofs, called, tok, to, ended, sent>>
      BY <2>2 DEF vars, graph, data, reading, strings, writing, history
    <3>2. \A m \in Node : (HandOK(m)' <=> HandOK(m)) /\ (RootOK(m)' <=> RootOK(m)) /\ (HeardOK(m)' <=> HeardOK(m))
      BY <3>1 DEF HandOK, RootOK, HeardOK, Taking, Heard, In, Root
    <3>3. \A e \in Edge : EdgeOK(e)' <=> EdgeOK(e)
      BY <3>1 DEF EdgeOK, Told, Due, Ended
    <3>4. ASSUME NEW m \in Node PROVE (~Root(m) /\ Steady(m) => CountOK(m)) => (~Root(m) /\ Steady(m) => CountOK(m))'
      <4>1. Drained(m)' = Drained(m)
        BY <3>1 DEF Drained, Ripe, Told, Due, In
      <4> QED
        BY <3>1, <4>1 DEF CountOK, Taking, Final, Root, Steady, In
    <3> QED
      BY <1>1, <3>1, <3>2, <3>3, <3>4 DEF WorkInv
  <2> QED
    BY <1>3, <2>1, <2>2, ThreadWork, StartWork DEF Next
<1> QED
  BY <1>2, <1>3

-----------------------------------------------------------------------------
(* The threads close their pipes together. *)

(* A batch node, and one whose command may fail, stops reading when it has   *)
(* heard of one parent.                                                      *)
FailAlone == \A n \in Batch \cup Fails : Cardinality(In(n)) <= 1

ClosedOK(n) ==
  /\ pc[n] \in Past => \A e \in In(n) : pc[e[1]] \notin Opening
  /\ pc[n] \in Past => \A e \in Out(n) : pc[e[2]] \notin Opening
  /\ pc[n] \in {"closing", "gone"} => \A e \in In(n) : pc[e[1]] \in Closing
  /\ pc[n] \in {"closing", "gone"} => \A e \in Out(n) : pc[e[2]] \in Closing
  /\ \A e \in Out(n) : pipe[e] = "closed" => pc[n] = "gone"

ClosedInv == WorkInv /\ (stops = 0 => \A n \in Node : ClosedOK(n))

LEMMA InitClosed == ASSUME Init, NEW n \in Node PROVE ClosedOK(n)
<1>1. pc[n] = "off" /\ \A e \in Out(n) : pipe[e] = "none"
  BY DEF Init, All, Each, Out
<1> QED
  BY <1>1 DEF ClosedOK, Past, Closing

(* The parents of a node that is done have opened their pipes. *)
LEMMA ParentsOpened ==
  ASSUME FailAlone, WorkInv, stops = 0, NEW n \in Node, Final(n), NEW e \in In(n)
  PROVE  pc[e[1]] \notin Opening
<1>1. e \in Edge /\ EdgeOK(e) /\ ~Root(n)
  BY DEF WorkInv, In, Root
<1> SUFFICES sent[e] # <<>>
  BY <1>1 DEF EdgeOK
<1>2. CASE n \in Batch \cup Fails
  <2>1. n \in called /\ HeardOK(n)
    BY DEF WorkInv, HandOK, Final, Opening
  <2>2. PICK d \in In(n) : sent[d] # <<>>
    BY <1>1, <2>1 DEF HeardOK, Heard
  <2>3. d = e
    <3>1. {d, e} \in SUBSET In(n)
      BY <2>2
    <3>2. Cardinality({d, e}) <= 1
      <4>1. Cardinality({d, e}) <= Cardinality(In(n)) /\ Cardinality({d, e}) \in Nat /\ Cardinality(In(n)) \in Nat
        BY <3>1, InOut, FS_Subset, FS_CardinalityType
      <4>2. Cardinality(In(n)) <= 1
        BY <1>2 DEF FailAlone
      <4> QED
        BY <4>1, <4>2
    <3>3. d # e => Cardinality({d, e}) = 2
      <4> SUFFICES ASSUME d # e PROVE Cardinality({d} \cup {e}) = 2
        <5>1. {d, e} = {d} \cup {e}
          OBVIOUS
        <5> QED
          BY <5>1
      <4>1. IsFiniteSet({d}) /\ Cardinality({d}) = 1
        BY FS_Singleton
      <4> DEFINE D == {d}
      <4>2. e \notin D /\ IsFiniteSet(D) /\ Cardinality(D) = 1
        BY <4>1
      <4> HIDE DEF D
      <4>3. Cardinality(D \cup {e}) = Cardinality(D) + 1
        BY <4>2, FS_AddElement
      <4>4. Cardinality(D \cup {e}) = 2
        BY <4>2, <4>3
      <4> QED
        BY <4>4 DEF D
    <3> QED
      BY <3>2, <3>3
  <2> QED
    BY <2>2, <2>3
<1>3. CASE n \notin Batch \cup Fails
  <2>1. CountOK(n) /\ HandOK(n)
    BY <1>1, <1>3 DEF WorkInv, Steady
  <2>2. got[n] = <<>> /\ eofs[n] = Cardinality(In(n))
    BY <1>3, <2>1 DEF CountOK, HandOK, Final, Taking
  <2>3. Cardinality(Drained(n)) = Cardinality(In(n))
    BY <2>1, <2>2, CountEmpty, InOut DEF CountOK
  <2>4. Drained(n) \in SUBSET In(n)
    BY DEF Drained
  <2>5. Drained(n) = In(n)
    BY <2>3, <2>4, InOut, FS_Subset
  <2>6. Told(e)
    BY <2>5 DEF Drained, Ripe
  <2> QED
    BY <2>6, NoneNoEof DEF Told
<1> QED
  BY <1>2, <1>3

(* Its children have opened theirs, for they have taken its "EOF". *)
LEMMA ChildrenOpened ==
  ASSUME WorkInv, stops = 0, NEW n \in Node, pc[n] = "flush", tok[n] = <<EOF>>, Flush(n), NEW e \in Out(n)
  PROVE  pc[e[2]] \notin Opening
<1>1. e \in Edge /\ EdgeOK(e) /\ e[1] = n /\ HandOK(n)
  BY DEF WorkInv, Out
<1>2. slot[e] = None
  <2>1. e \in to[n]
    BY <1>1, AloneEof DEF HandOK
  <2> QED
    BY <2>1, Calm, FlushCalm DEF WorkInv
<1>3. sent[e] # <<>>
  BY <1>1, NoneNoEof DEF EdgeOK, Ended, Told
<1> QED
  BY <1>1, <1>2, <1>3 DEF EdgeOK
(* No thread goes back, and only ClosePipes closes a pipe. *)
LEMMA PlacesStep ==
  ASSUME TInv, stops = 0, NEW n \in Node, HandOK(n), Thread(n)
  PROVE  /\ \A m \in Node : /\ pc'[m] \in Opening => pc[m] \in Opening
                            /\ pc[m] \in Closing => pc'[m] \in Closing
                            /\ pc[m] = "gone" => pc'[m] = "gone"
         /\ \A m \in Node : pc'[m] \in Past /\ pc[m] \notin Past => m = n /\ pc[n] = "flush" /\ tok[n] = <<EOF>> /\ Flush(n)
         /\ \A m \in Node : pc'[m] \in {"closing", "gone"} /\ pc[m] \notin {"closing", "gone"} =>
              m = n /\ pc[n] = "barrier" /\ pc'[n] = "closing" /\ nodecount = 0
         /\ \A e \in Edge : pipe'[e] = "closed" /\ pipe[e] # "closed" => e[1] = n /\ pc'[n] = "gone"
<1>0. Types /\ CountedOK /\ ~term[n] /\ tev[n] # "set" /\ pc \in [Node -> PCs]
  BY Calm DEF CountedOK
<1>a. \A m \in Node : m # n => pc'[m] = pc[m]
  BY <1>0, OthersAlone DEF OwnKept
<1>1. CASE Create(n) \/ ConnectPipe(n) \/ OpenPipe(n) \/ MakeEvent(n)
  <2>1. /\ pc[n] \in {"create", "connect", "open", "event"}
        /\ pc'[n] \in {"create", "connect", "open", "event", "top", "read"}
    <3>1. /\ pc[n] \in {"create", "connect", "open", "event"}
          /\ \/ pc' = pc
             \/ \E place \in {"create", "connect", "open", "event", "top", "read"} : pc' = [pc EXCEPT ![n] = place]
      BY <1>1 DEF Create, ConnectPipe, OpenPipe, MakeEvent, Goto
    <3> QED
      BY <1>0, <3>1
  <2>2. \A e \in Edge : pipe'[e] = "closed" => pipe[e] = "closed"
    <3>1. CASE Create(n)
      BY <3>1 DEF Create
    <3>2. CASE OpenPipe(n)
      <4>1. pipe' = pipe \/ \E d : pipe' = [pipe EXCEPT ![d] = "open"]
        BY <3>2 DEF OpenPipe
      <4> QED
        BY <1>0, <4>1 DEF Types
    <3>3. CASE ConnectPipe(n) \/ MakeEvent(n)
      BY <3>3 DEF ConnectPipe, MakeEvent, pipes
    <3> QED
      BY <1>1, <3>1, <3>2, <3>3
  <2> QED
    BY <1>a, <2>1, <2>2 DEF Opening, Past, Closing
<1>2. CASE ReadPipe(n) \/ WaitRead(n)
  <2>1. pc[n] \in {"read", "wait"} /\ pc'[n] \in {"read", "wait", "end", "top"} /\ pipe' = pipe
    BY <1>2, ReadTakes DEF ReadPipe, WaitRead, pipes
  <2> QED
    BY <1>a, <2>1 DEF Opening, Past, Closing
<1>3. CASE Top(n) \/ For(n) \/ RunCommand(n) \/ End(n)
  <2>1. pc[n] \in {"top", "for", "exec", "end"} /\ pipe' = pipe
    BY <1>3 DEF Top, For, RunCommand, End, pipes
  <2>2. pc'[n] \in {"for", "end", "read", "exec", "write"}
    <3>1. \/ pc' = pc /\ pc[n] = "for"
          \/ \E place \in {"for", "end", "read", "exec", "write"} : pc' = [pc EXCEPT ![n] = place]
      BY <1>3 DEF Top, For, RunCommand, End, Emit, Goto, writing
    <3> QED
      BY <1>0, <3>1
  <2> QED
    BY <1>a, <2>1, <2>2 DEF Opening, Past, Closing
<1>4. CASE Write(n)
  <2>1. pc[n] = "write" /\ pc'[n] = "flush" /\ pipe' = pipe
    BY <1>0, <1>4, WriteCalm DEF pipes
  <2> QED
    BY <1>a, <2>1 DEF Opening, Past, Closing
<1>5. CASE Flush(n)
  <2>1. pc[n] = "flush" /\ (pc'[n] = IF tok[n] = <<EOF>> THEN "close" ELSE "for") /\ pipe' = pipe
    BY <1>0, <1>5, FlushCalm DEF pipes
  <2> QED
    BY <1>a, <1>5, <2>1 DEF Opening, Past, Closing
<1>6. CASE Close(n)
  <2>1. pc[n] = "close" /\ pc'[n] = "barrier" /\ pipe' = pipe
    BY <1>0, <1>6 DEF Close, Goto, pipes
  <2> QED
    BY <1>a, <2>1 DEF Opening, Past, Closing
<1>7. CASE Barrier(n)
  <2>1. pc[n] = "barrier" /\ pc'[n] = "closing" /\ pipe' = pipe /\ nodecount = 0
    BY <1>0, <1>7 DEF Barrier, BarrierOpen, Goto, pipes
  <2> QED
    BY <1>a, <2>1 DEF Opening, Past, Closing
<1>8. CASE ClosePipes(n)
  <2>1. /\ pc[n] = "closing" /\ pc'[n] = "gone"
        /\ \A e \in Edge : pipe'[e] = "closed" /\ pipe[e] # "closed" => e \in Out(n)
    BY <1>0, <1>8 DEF ClosePipes, Goto
  <2> QED
    BY <1>a, <2>1 DEF Opening, Past, Closing, Out
<1> QED
  BY <1>1, <1>2, <1>3, <1>4, <1>5, <1>6, <1>7, <1>8 DEF Thread

LEMMA ClosedStep ==
  ASSUME FailAlone, ClosedInv, stops = 0, NEW n \in Node, Thread(n), NEW m \in Node
  PROVE  ClosedOK(m)'
<1>0. WorkInv /\ TInv /\ HandOK(n) /\ \A k \in Node : ClosedOK(k)
  BY DEF ClosedInv, WorkInv
<1>1. /\ \A k \in Node : /\ pc'[k] \in Opening => pc[k] \in Opening
                         /\ pc[k] \in Closing => pc'[k] \in Closing
                         /\ pc[k] = "gone" => pc'[k] = "gone"
      /\ pc'[m] \in Past /\ pc[m] \notin Past => m = n /\ pc[n] = "flush" /\ tok[n] = <<EOF>> /\ Flush(n)
      /\ pc'[m] \in {"closing", "gone"} /\ pc[m] \notin {"closing", "gone"} =>
           m = n /\ pc[n] = "barrier" /\ pc'[n] = "closing" /\ nodecount = 0
      /\ \A e \in Edge : pipe'[e] = "closed" /\ pipe[e] # "closed" => e[1] = n /\ pc'[n] = "gone"
  BY <1>0, PlacesStep
<1>2. /\ \A e \in In(m) : e \in Edge /\ e[1] \in Node /\ e[2] = m
      /\ \A e \in Out(m) : e \in Edge /\ e[2] \in Node /\ e[1] = m
      /\ In(m)' = In(m) /\ Out(m)' = Out(m)
  BY EdgeFinite DEF In, Out
<1>3. pc'[m] \in Past => /\ \A e \in In(m) : pc[e[1]] \notin Opening
                         /\ \A e \in Out(m) : pc[e[2]] \notin Opening
  <2>1. CASE pc[m] \in Past
    BY <1>0, <2>1 DEF ClosedOK
  <2>2. CASE pc[m] \notin Past /\ pc'[m] \in Past
    <3>1. m = n /\ Final(n) /\ pc[n] = "flush" /\ tok[n] = <<EOF>> /\ Flush(n)
      BY <1>1, <2>2 DEF Final
    <3> QED
      BY <1>0, <3>1, ParentsOpened, ChildrenOpened
  <2> QED
    BY <2>1, <2>2
<1>4. pc'[m] \in {"closing", "gone"} => /\ \A e \in In(m) : pc[e[1]] \in Closing
                                        /\ \A e \in Out(m) : pc[e[2]] \in Closing
  <2>1. CASE pc[m] \in {"closing", "gone"}
    BY <1>0, <2>1 DEF ClosedOK
  <2>2. CASE pc[m] \notin {"closing", "gone"} /\ pc'[m] \in {"closing", "gone"}
    <3>1. m = n /\ pc[n] = "barrier" /\ nodecount = 0 /\ pc'[m] \in Past
      BY <1>1, <2>2 DEF Past, Closing
    <3>2. \A k \in Node : pc[k] \in Opening \cup Closing
      <4>1. Running \in SUBSET Node
        BY DEF Running
      <4>2. IsFiniteSet(Running) /\ Cardinality(Running) = 0
        BY <1>0, <3>1, <4>1, Calm, NodeFinite, FS_Subset DEF CountedOK
      <4>3. Running = {}
        BY <4>2, FS_EmptySet
      <4> QED
        BY <4>3 DEF Running
    <3> QED
      BY <1>2, <1>3, <3>1, <3>2
  <2> QED
    BY <2>1, <2>2
<1>5. \A e \in Out(m) : pipe'[e] = "closed" => pc'[m] = "gone"
  BY <1>0, <1>1, <1>2 DEF ClosedOK
<1> QED
  BY <1>1, <1>2, <1>3, <1>4, <1>5 DEF ClosedOK

LEMMA ClosedKept == PlainData /\ FailAlone /\ ClosedInv /\ [Next]_vars => ClosedInv'
<1> SUFFICES ASSUME PlainData, FailAlone, ClosedInv, [Next]_vars PROVE ClosedInv'
  OBVIOUS
<1>1. WorkInv' /\ TInv
  BY WorkKept DEF ClosedInv, WorkInv
<1>2. CASE stops = 0
  <2>1. CASE Terminate \/ StopStep
    BY <1>1, <2>1, TerminateT, StopStepT DEF ClosedInv
  <2>2. CASE UNCHANGED vars
    BY <1>1, <2>2 DEF ClosedInv, ClosedOK, In, Out, vars, graph, pipes
  <2>3. CASE Start
    <3>1. /\ \A m \in Node : pc'[m] = pc[m] \/ (pc[m] = "off" /\ pc'[m] = "create")
          /\ UNCHANGED <<stops, pipes>>
      BY <1>1, <2>3, StartPlaces
    <3>2. \A m \in Node : /\ pc'[m] \in Opening <=> pc[m] \in Opening
                          /\ pc'[m] \in Past <=> pc[m] \in Past
                          /\ pc'[m] \in Closing <=> pc[m] \in Closing
                          /\ pc'[m] \in {"closing", "gone"} <=> pc[m] \in {"closing", "gone"}
                          /\ pc'[m] = "gone" <=> pc[m] = "gone"
      BY <3>1 DEF Opening, Past, Closing
    <3>3. ASSUME NEW m \in Node PROVE ClosedOK(m)'
      <4>1. \A e \in In(m) \cup Out(m) : e[1] \in Node /\ e[2] \in Node
        BY EdgeFinite DEF In, Out
      <4>2. ClosedOK(m)
        BY <1>2 DEF ClosedInv
      <4> QED
        BY <3>1, <3>2, <4>1, <4>2 DEF ClosedOK, In, Out, pipes
    <3> QED
      BY <1>1, <3>3 DEF ClosedInv
  <2>4. ASSUME NEW n \in Node, Thread(n) PROVE ClosedInv'
    BY <1>1, <1>2, <2>4, ClosedStep DEF ClosedInv
  <2> QED
    BY <2>1, <2>2, <2>3, <2>4 DEF Next
<1>3. CASE stops # 0
  <2>1. stops' # 0
    BY <1>1, <1>3, StopsKept
  <2> QED
    BY <1>1, <2>1 DEF ClosedInv
<1> QED
  BY <1>2, <1>3

(* No pipe is closed while the node at its other end may use it, until
   Terminate is called: the threads wait for each other in
   CloseWindowsPipes.  A batch node with several parents, or a node with
   several whose command fails, may be done before one of them has opened
   its pipes, and is left out.                                              *)
THEOREM ClosesTogether ==
  ASSUME PlainData, FailAlone
  PROVE  Spec => []ClosedTogether
<1>1. ClosedInv => ClosedTogether
  <2> SUFFICES ASSUME ClosedInv, stops = 0, NEW e \in Edge, pipe[e] = "closed" \/ pc[e[2]] = "gone"
               PROVE  pc[e[1]] \in Closing /\ pc[e[2]] \in Closing
    BY DEF ClosedTogether
  <2>1. e[1] \in Node /\ e[2] \in Node /\ e \in In(e[2]) /\ e \in Out(e[1]) /\ ClosedOK(e[1]) /\ ClosedOK(e[2])
    BY EdgeFinite DEF In, Out, ClosedInv
  <2>2. CASE pipe[e] = "closed"
    BY <2>1, <2>2 DEF ClosedOK, Closing
  <2>3. CASE pc[e[2]] = "gone"
    BY <2>1, <2>3 DEF ClosedOK, Closing
  <2> QED
    BY <2>2, <2>3
<1>2. Init => ClosedInv
  BY InitWork, InitClosed DEF ClosedInv
<1>3. ClosedInv /\ [Next]_vars => ClosedInv'
  BY ClosedKept
<1> QED
  BY <1>1, <1>2, <1>3, PTL DEF Spec
-----------------------------------------------------------------------------
(* No line is lost on its way from the parents to the node.                 *)

(* Batch nodes with several parents are not told apart from the others by    *)
(* ReadInputs, which may stop early; a distro node forgets what it holds     *)
(* with the last "EOF".                                                      *)
OneParent   == \A n \in Batch : Cardinality(In(n)) <= 1
RootDistros == \A n \in Node : Kind[n] = "distro" => Root(n)

Piped(n, l, f) == Copies(l, [e \in In(n) |-> f[e]])

TokenOK(n) ==
  \A l \in Line \ {EOF} :
    Piped(n, l, sent) = Piped(n, l, slot) + Piped(n, l, arrived) + Count(l, got[n])
                          + Copies(l, inputs[n]) + Copies(l, ran[n])

LEMMA PipedType ==
  ASSUME NEW n \in Node, NEW l, NEW f \in [Edge -> Seq(Line)]
  PROVE  Piped(n, l, f) \in Nat
<1>1. [e \in In(n) |-> f[e]] \in [In(n) -> Seq(Line)]
  BY InOut
<1> QED
  BY <1>1, InOut, PlacesFinite DEF Piped

LEMMA PipedSame ==
  ASSUME NEW n \in Node, NEW l, NEW f, NEW g, \A e \in In(n) : f[e] = g[e]
  PROVE  Piped(n, l, f) = Piped(n, l, g)
<1>1. [e \in In(n) |-> f[e]] = [e \in In(n) |-> g[e]]
  OBVIOUS
<1> QED
  BY <1>1 DEF Piped

Flow == [Edge -> Seq(Line)]
Alike(n, e, f, g) == \A d \in In(n) : d # e => f[d] = g[d]

LEMMA PipedChange ==
  ASSUME NEW n \in Node, NEW l, NEW f \in Flow, NEW g \in Flow, NEW e \in In(n), Alike(n, e, f, g)
  PROVE  Piped(n, l, f) + Count(l, g[e]) = Piped(n, l, g) + Count(l, f[e])
<1> USE DEF Flow, Alike
<1> DEFINE F == [d \in In(n) |-> f[d]]
           G == [d \in In(n) |-> g[d]]
<1>1. F \in [In(n) -> Seq(Line)] /\ G \in [In(n) -> Seq(Line)]
  BY InOut
<1>2. \A d \in In(n) : d # e => F[d] = G[d]
  OBVIOUS
<1>3. F[e] = f[e] /\ G[e] = g[e]
  OBVIOUS
<1> HIDE DEF F, G
<1>4. Copies(l, F) + Count(l, G[e]) = Copies(l, G) + Count(l, F[e])
  <2>1. IsFiniteSet(In(n))
    BY InOut
  <2>2. SameBut(In(n), e, F, G)
    BY <1>1, <1>2 DEF SameBut
  <2> QED
    BY <2>1, <2>2, CopiesChange
<1> QED
  BY <1>3, <1>4 DEF Piped, F, G

LEMMA PipedNone ==
  ASSUME NEW n \in Node, NEW l, NEW f, \A e \in In(n) : f[e] = None
  PROVE  Piped(n, l, f) = 0
<1> DEFINE F == [e \in In(n) |-> f[e]]
<1>1. \A e \in In(n) : F[e] = <<>>
  BY DEF None
<1>2. DOMAIN F = In(n)
  OBVIOUS
<1> HIDE DEF F
<1>3. Places(l, F) = {}
  <2> SUFFICES ASSUME NEW p \in Places(l, F) PROVE FALSE
    OBVIOUS
  <2>1. p[1] \in DOMAIN F /\ p[2] \in DOMAIN F[p[1]]
    BY PlacesOf
  <2> QED
    BY <1>1, <1>2, <2>1
<1>4. Copies(l, F) = Cardinality(Places(l, F))
  BY DEF Copies, Places
<1> QED
  BY <1>3, <1>4, FS_EmptySet DEF Piped, F

LEMMA CopiesTail ==
  ASSUME NEW l \in Line \ {EOF}, NEW s \in Seq(String), s # <<>>
  PROVE  Copies(l, s) = Count(l, Head(s)) + Copies(l, Tail(s))
<1> DEFINE t == SubSeq(s, 2, Len(s))
           u == Tail(s)
<1>1. Len(s) \in Nat \ {0} /\ s[1] = Head(s) /\ 1 \in 1..Len(s)
  OBVIOUS
<1>2. t \in Seq(String) /\ Len(t) = Len(s) - 1 /\ \A i \in 1..(Len(s) - 1) : t[i] = s[i + 1]
  <2>1. \A x \in 2..Len(s) : s[x] \in String
    BY <1>1
  <2>2. t = [i \in 1..(1 + Len(s) - 2) |-> s[2 + i - 1]]
    OBVIOUS
  <2>3. 1 + Len(s) - 2 = Len(s) - 1 /\ Len(s) - 1 \in Nat /\ \A i \in 1..(Len(s) - 1) : 2 + i - 1 = i + 1 /\ i + 1 \in 2..Len(s)
    BY <1>1
  <2>4. t = [i \in 1..(Len(s) - 1) |-> s[i + 1]]
    <3> HIDE DEF t
    <3> QED
      BY <2>2, <2>3
  <2>5. \A i \in 1..(Len(s) - 1) : s[i + 1] \in String
    BY <2>1, <2>3
  <2> HIDE DEF t
  <2> QED
    BY <2>3, <2>4, <2>5
<1>3. u \in Seq(String) /\ Len(u) = Len(s) - 1 /\ \A i \in 1..(Len(s) - 1) : u[i] = s[i + 1]
  BY <1>1
<1>4. \A j \in 1..(1 - 1) : s[j] = <<EOF>>
  OBVIOUS
<1>5. Copies(l, s) = Count(l, s[1]) + Copies(l, SubSeq(s, 1 + 1, Len(s)))
  BY <1>1, <1>4, CopiesTaken
<1>6. SubSeq(s, 1 + 1, Len(s)) = t
  OBVIOUS
<1> HIDE DEF t, u
<1>7. t = u
  BY <1>2, <1>3
<1> QED
  BY <1>1, <1>5, <1>6, <1>7 DEF u

LEMMA HandTypes ==
  ASSUME Types, NEW n \in Node, NEW l
  PROVE  /\ Piped(n, l, sent) \in Nat /\ Piped(n, l, slot) \in Nat /\ Piped(n, l, arrived) \in Nat
         /\ Count(l, got[n]) \in Nat /\ Copies(l, inputs[n]) \in Nat /\ Copies(l, ran[n]) \in Nat
BY PipedType, CountType, CopiesType DEF Types

LEMMA InitToken == ASSUME Init, NEW n \in Node PROVE TokenOK(n)
<1> SUFFICES ASSUME NEW l \in Line \ {EOF}
             PROVE  Piped(n, l, sent) = Piped(n, l, slot) + Piped(n, l, arrived) + Count(l, got[n])
                                          + Copies(l, inputs[n]) + Copies(l, ran[n])
  BY DEF TokenOK
<1>1. \A e \in In(n) : sent[e] = None /\ slot[e] = None /\ arrived[e] = None
  BY DEF Init, Each, In, None
<1>2. got[n] = <<>> /\ inputs[n] = <<>> /\ ran[n] = <<>>
  BY DEF Init, All
<1>3. Piped(n, l, sent) = 0 /\ Piped(n, l, slot) = 0 /\ Piped(n, l, arrived) = 0
  BY <1>1, PipedNone
<1>4. Count(l, <<>>) = 0 /\ Copies(l, <<>>) = 0
  BY CountEmpty, CopiesEmpty
<1> QED
  BY <1>2, <1>3, <1>4

(* What the next state has to satisfy. *)
LEMMA TokenNext ==
  ASSUME NEW n \in Node,
         \A l \in Line \ {EOF} :
           Piped(n, l, sent') = Piped(n, l, slot') + Piped(n, l, arrived') + Count(l, got'[n])
                                  + Copies(l, inputs'[n]) + Copies(l, ran'[n])
  PROVE  TokenOK(n)'
BY DEF TokenOK, Piped, In

(* A write adds a string to one pipe, and to what has been written to it. *)
LEMMA WriteToken ==
  ASSUME WorkInv, stops = 0, NEW n \in Node, Write(n), NEW m \in Node, TokenOK(m)
  PROVE  TokenOK(m)'
<1> DEFINE takers == {e \in to[n] : e \in pend /\ arrived[e] = None}
<1>0. Types /\ TInv /\ ~term[n] /\ HandOK(n)
  BY Calm DEF WorkInv
<1>1. /\ pc[n] = "write" /\ UNCHANGED <<got, inputs, ran>>
      /\ arrived' = [e \in Edge |-> IF e \in takers THEN tok[n] ELSE arrived[e]]
      /\ slot' = [e \in Edge |-> IF e \in to[n] \ takers THEN tok[n] ELSE slot[e]]
      /\ sent' = [e \in Edge |-> IF e \in to[n] THEN sent[e] \o tok[n] ELSE sent[e]]
  BY <1>0, WriteCalm DEF reading, strings
<1>2. /\ arrived' \in [Edge -> Seq(Line)] /\ slot' \in [Edge -> Seq(Line)] /\ sent' \in [Edge -> Seq(Line)]
      /\ arrived \in [Edge -> Seq(Line)] /\ slot \in [Edge -> Seq(Line)] /\ sent \in [Edge -> Seq(Line)]
      /\ tok[n] \in Seq(Line)
  <2>1. Types'
    BY <1>0, WriteT DEF TInv, Kept
  <2> QED
    BY <1>0, <2>1 DEF Types
<1>3. \A e \in In(m) : e \in Edge /\ e[2] = m /\ e = <<e[1], e[2]>>
  BY EdgeFinite DEF In
<1>4. CASE \A e \in In(m) : e \notin to[n]
  <2>1. \A e \in In(m) : slot'[e] = slot[e] /\ arrived'[e] = arrived[e] /\ sent'[e] = sent[e]
    BY <1>1, <1>3, <1>4
  <2>2. \A l : /\ Piped(m, l, slot') = Piped(m, l, slot) /\ Piped(m, l, sent') = Piped(m, l, sent)
               /\ Piped(m, l, arrived') = Piped(m, l, arrived)
    BY <2>1, PipedSame
  <2>3. ASSUME NEW l \in Line \ {EOF}
        PROVE  Piped(m, l, sent') = Piped(m, l, slot') + Piped(m, l, arrived') + Count(l, got'[m])
                                      + Copies(l, inputs'[m]) + Copies(l, ran'[m])
    BY <1>1, <2>2 DEF TokenOK
  <2> QED
    BY <2>3, TokenNext
<1>5. ASSUME NEW e \in In(m), e \in to[n] PROVE TokenOK(m)'
  <2>1. e[1] = n /\ slot[e] = None
    BY <1>0, <1>1, <1>3, <1>5 DEF HandOK, Out, WorkInv, EdgeOK
  <2>2. \A d \in In(m) : d # e => d \notin to[n]
    <3>1. \A d \in to[n] : d[1] = n
      BY <1>0, <1>1 DEF HandOK, Out
    <3> QED
      BY <1>3, <2>1, <3>1
  <2>3. \A d \in In(m) : d # e => slot'[d] = slot[d] /\ arrived'[d] = arrived[d] /\ sent'[d] = sent[d]
    BY <1>1, <1>3, <2>2
  <2>4. sent'[e] = sent[e] \o tok[n]
    BY <1>1, <1>3, <1>5
  <2>5. \/ slot'[e] = tok[n] /\ arrived'[e] = arrived[e]
        \/ arrived'[e] = tok[n] /\ arrived[e] = None /\ slot'[e] = slot[e]
    BY <1>1, <1>3, <1>5
  <2>6. ASSUME NEW l \in Line \ {EOF}
        PROVE  Piped(m, l, sent') = Piped(m, l, slot') + Piped(m, l, arrived') + Count(l, got'[m])
                                      + Copies(l, inputs'[m]) + Copies(l, ran'[m])
    <3>1. Piped(m, l, sent) = Piped(m, l, slot) + Piped(m, l, arrived) + Count(l, got[m])
                                + Copies(l, inputs[m]) + Copies(l, ran[m])
      BY DEF TokenOK
    <3>2. /\ Piped(m, l, sent) + Count(l, sent'[e]) = Piped(m, l, sent') + Count(l, sent[e])
          /\ Piped(m, l, slot) + Count(l, slot'[e]) = Piped(m, l, slot') + Count(l, slot[e])
          /\ Piped(m, l, arrived) + Count(l, arrived'[e]) = Piped(m, l, arrived') + Count(l, arrived[e])
      <4>0. {sent, sent', slot, slot', arrived, arrived'} \subseteq Flow
        BY <1>2 DEF Flow
      <4>1. Alike(m, e, sent, sent') /\ Alike(m, e, slot, slot') /\ Alike(m, e, arrived, arrived')
        BY <2>3 DEF Alike
      <4>4. Piped(m, l, sent) + Count(l, sent'[e]) = Piped(m, l, sent') + Count(l, sent[e])
        BY <1>5, <4>0, <4>1, PipedChange
      <4>5. Piped(m, l, slot) + Count(l, slot'[e]) = Piped(m, l, slot') + Count(l, slot[e])
        BY <1>5, <4>0, <4>1, PipedChange
      <4>6. Piped(m, l, arrived) + Count(l, arrived'[e]) = Piped(m, l, arrived') + Count(l, arrived[e])
        BY <1>5, <4>0, <4>1, PipedChange
      <4> QED
        BY <4>4, <4>5, <4>6
    <3>3. Count(l, sent'[e]) = Count(l, sent[e]) + Count(l, tok[n])
      BY <1>2, <1>3, <2>4, CountConcat
    <3>4. Count(l, None) = 0
      BY CountEmpty DEF None
    <3>5. /\ Piped(m, l, sent) \in Nat /\ Piped(m, l, slot) \in Nat /\ Piped(m, l, arrived) \in Nat
          /\ Piped(m, l, sent') \in Nat /\ Piped(m, l, slot') \in Nat /\ Piped(m, l, arrived') \in Nat
          /\ Count(l, got[m]) \in Nat /\ Copies(l, inputs[m]) \in Nat /\ Copies(l, ran[m]) \in Nat
          /\ Count(l, tok[n]) \in Nat /\ Count(l, sent[e]) \in Nat /\ Count(l, arrived[e]) \in Nat
      BY <1>0, <1>2, <1>3, HandTypes, PipedType, CountType
    <3>6. UNCHANGED <<got, inputs, ran>>
      BY <1>1
    <3>7. Piped(m, l, sent') = Piped(m, l, sent) + Count(l, tok[n])
      BY <3>2, <3>3, <3>5
    <3>8. Piped(m, l, slot') + Piped(m, l, arrived') = Piped(m, l, slot) + Piped(m, l, arrived) + Count(l, tok[n])
      BY <2>1, <2>5, <3>2, <3>4, <3>5
    <3> QED
      BY <3>1, <3>5, <3>6, <3>7, <3>8
  <2> QED
    BY <2>6, TokenNext
<1> QED
  BY <1>4, <1>5
(* ReadInputs takes a string out of a pipe, and splits what it has got. *)
LEMMA TokenReading ==
  ASSUME RootDistros, WorkInv, stops = 0, NEW n \in Node, ~Root(n), ReadPipe(n) \/ WaitRead(n), TokenOK(n)
  PROVE  TokenOK(n)'
<1>0. Types /\ CountedOK /\ TInv /\ ~term[n] /\ HandOK(n) /\ \A e \in Edge : EdgeOK(e)
  BY Calm DEF WorkInv
<1>1. PICK g \in Seq(Line) :
        /\ Taking(n) /\ UNCHANGED <<sent, ran, tok>>
        /\ \/ g = got[n] /\ UNCHANGED <<slot, arrived>>
           \/ \E e \in Edge, x \in Seq(Line) : TakesString(n, e, x) /\ g = got[n] \o x
        /\ \/ Return(n, g)
           \/ got'[n] = g /\ UNCHANGED strings /\ pc'[n] \in {"read", "wait"}
  BY <1>0, ReadingCalm
<1>2. slot \in [Edge -> Seq(Line)] /\ arrived \in [Edge -> Seq(Line)] /\ got[n] \in Seq(Line) /\ inputs[n] \in Seq(String)
  BY <1>0 DEF Types
<1> SUFFICES ASSUME NEW l \in Line \ {EOF}
             PROVE  Piped(n, l, sent') = Piped(n, l, slot') + Piped(n, l, arrived') + Count(l, got'[n])
                                           + Copies(l, inputs'[n]) + Copies(l, ran'[n])
  BY TokenNext
<1>3. /\ Piped(n, l, sent) \in Nat /\ Piped(n, l, slot) \in Nat /\ Piped(n, l, arrived) \in Nat
      /\ Count(l, got[n]) \in Nat /\ Copies(l, inputs[n]) \in Nat /\ Copies(l, ran[n]) \in Nat
      /\ Count(l, g) \in Nat
  BY <1>0, HandTypes, CountType
<1>4. /\ Piped(n, l, slot') \in Nat /\ Piped(n, l, arrived') \in Nat
      /\ Piped(n, l, slot) + Piped(n, l, arrived) + Count(l, got[n])
           = Piped(n, l, slot') + Piped(n, l, arrived') + Count(l, g)
  <2>1. CASE g = got[n] /\ UNCHANGED <<slot, arrived>>
    BY <1>3, <2>1
  <2>2. CASE \E e \in Edge, x \in Seq(Line) : TakesString(n, e, x) /\ g = got[n] \o x
    <3>1. PICK e \in Edge, x \in Seq(Line) : TakesString(n, e, x) /\ g = got[n] \o x
      BY <2>2
    <3>2. Count(l, g) = Count(l, got[n]) + Count(l, x) /\ Count(l, x) \in Nat /\ Count(l, None) = 0
      BY <1>2, <3>1, CountConcat, CountType, CountEmpty DEF None
    <3>3. ASSUME NEW f \in [Edge -> Seq(Line)], NEW h \in [Edge -> Seq(Line)], h = [f EXCEPT ![e] = None], f[e] = x
          PROVE  Piped(n, l, f) = Piped(n, l, h) + Count(l, x)
      <4>1. e \in In(n) /\ \A d \in In(n) : d \in Edge
        BY <3>1 DEF TakesString, In
      <4>2. h[e] = None /\ \A d \in In(n) : d # e => f[d] = h[d]
        BY <3>3, <4>1
      <4>3. Piped(n, l, f) + Count(l, h[e]) = Piped(n, l, h) + Count(l, f[e])
        <5>1. f \in Flow /\ h \in Flow /\ Alike(n, e, f, h)
          BY <4>2 DEF Flow, Alike
        <5> QED
          BY <4>1, <5>1, PipedChange
      <4>4. Piped(n, l, f) \in Nat /\ Piped(n, l, h) \in Nat
        BY PipedType
      <4> QED
        BY <3>2, <3>3, <4>2, <4>3, <4>4
    <3>4. CASE slot[e] = x /\ slot' = [slot EXCEPT ![e] = None] /\ arrived' = arrived
      <4>1. slot' \in [Edge -> Seq(Line)]
        BY <1>2, <3>4 DEF None
      <4>2. Piped(n, l, slot) = Piped(n, l, slot') + Count(l, x)
        BY <1>2, <3>3, <3>4, <4>1
      <4>3. Piped(n, l, slot') \in Nat
        BY <4>1, PipedType
      <4> QED
        BY <1>3, <3>2, <3>4, <4>2, <4>3
    <3>5. CASE arrived[e] = x /\ arrived' = [arrived EXCEPT ![e] = None] /\ slot' = slot
      <4>1. arrived' \in [Edge -> Seq(Line)]
        BY <1>2, <3>5 DEF None
      <4>2. Piped(n, l, arrived) = Piped(n, l, arrived') + Count(l, x)
        BY <1>2, <3>3, <3>5, <4>1
      <4>3. Piped(n, l, arrived') \in Nat
        BY <4>1, PipedType
      <4> QED
        BY <1>3, <3>2, <3>5, <4>2, <4>3
    <3> QED
      BY <3>1, <3>4, <3>5 DEF TakesString
  <2> QED
    BY <1>1, <2>1, <2>2
<1>5. /\ Count(l, got'[n]) \in Nat /\ Copies(l, inputs'[n]) \in Nat
      /\ Count(l, got'[n]) + Copies(l, inputs'[n]) = Count(l, g) + Copies(l, inputs[n])
  <2>1. CASE got'[n] = g /\ UNCHANGED strings
    BY <1>3, <2>1 DEF strings
  <2>2. CASE Return(n, g)
    <3> DEFINE all   == AsStrings(g) \o inputs[n]
               sum   == eofs[n] + EofsIn(all)
               place == Whereto(n, sum = Cardinality(In(n)))
    <3>1. /\ all \in Seq(String) /\ got'[n] = <<>>
          /\ \/ n \in Batch \ called /\ place # "read" /\ Concat(n, all)
             \/ (n \notin Batch \ called \/ place = "read") /\ inputs'[n] = IF place = "end" THEN <<>> ELSE all
      BY <1>0, <2>2, ReturnCalm
    <3>2. place # "end"
      BY DEF Whereto, RootDistros
    <3>3. Copies(l, all) = Count(l, g) + Copies(l, inputs[n])
      <4>1. AsStrings(g) \in Seq(String)
        BY AsStringsType
      <4>2. Copies(l, all) = Copies(l, AsStrings(g)) + Copies(l, inputs[n])
        BY <1>2, <4>1, CopiesConcat
      <4> QED
        BY <4>2, CopiesAsStrings
    <3>4. n \notin called => Single(all)
      <4>1. AsStrings(g) \in Seq(String) /\ Single(AsStrings(g)) /\ (n \notin called => Single(inputs[n]))
        BY <1>0, AsStringsType, SplitSingle DEF HandOK
      <4> QED
        BY <1>2, <4>1, SingleConcat
    <3> HIDE DEF all, sum, place
    <3>5. Copies(l, inputs'[n]) = Copies(l, all)
      <4>1. CASE n \in Batch \ called /\ Concat(n, all)
        BY <1>0, <3>1, <3>4, <4>1, ConcatOK
      <4>2. CASE inputs'[n] = all
        BY <4>2
      <4> QED
        BY <3>1, <3>2, <4>1, <4>2
    <3>6. Count(l, <<>>) = 0
      BY CountEmpty
    <3> QED
      BY <1>3, <3>1, <3>3, <3>5, <3>6
  <2> QED
    BY <1>1, <2>1, <2>2
<1>6. Piped(n, l, sent) = Piped(n, l, slot) + Piped(n, l, arrived) + Count(l, got[n])
                            + Copies(l, inputs[n]) + Copies(l, ran[n])
  BY DEF TokenOK
<1>7. Piped(n, l, sent') = Piped(n, l, sent) /\ Copies(l, ran'[n]) = Copies(l, ran[n])
  BY <1>1
<1> DEFINE written == Piped(n, l, sent)     had == Copies(l, ran[n])
           s0 == Piped(n, l, slot)          s1 == Piped(n, l, slot')
           a0 == Piped(n, l, arrived)       a1 == Piped(n, l, arrived')
           g0 == Count(l, got[n])           g1 == Count(l, got'[n])
           i0 == Copies(l, inputs[n])       i1 == Copies(l, inputs'[n])
           cut == Count(l, g)
<1>8. /\ had \in Nat /\ s0 \in Nat /\ s1 \in Nat /\ a0 \in Nat /\ a1 \in Nat /\ g0 \in Nat
      /\ g1 \in Nat /\ i0 \in Nat /\ i1 \in Nat /\ cut \in Nat
      /\ s0 + a0 + g0 = s1 + a1 + cut /\ g1 + i1 = cut + i0
      /\ written = s0 + a0 + g0 + i0 + had
  <2>1. had \in Nat /\ s0 \in Nat /\ a0 \in Nat /\ g0 \in Nat /\ i0 \in Nat /\ cut \in Nat
    BY <1>3
  <2>2. s1 \in Nat /\ a1 \in Nat /\ g1 \in Nat /\ i1 \in Nat
    BY <1>4, <1>5
  <2>3. s0 + a0 + g0 = s1 + a1 + cut
    BY <1>4
  <2>4. g1 + i1 = cut + i0
    BY <1>5
  <2>5. written = s0 + a0 + g0 + i0 + had
    BY <1>6
  <2> QED
    BY <2>1, <2>2, <2>3, <2>4, <2>5
<1>9. Piped(n, l, sent') = written /\ Copies(l, ran'[n]) = had
  BY <1>7
<1>10. written = s1 + a1 + g1 + i1 + had
  <2> HIDE DEF written, had, s0, s1, a0, a1, g0, g1, i0, i1, cut
  <2> QED
    BY <1>8
<1> QED
  BY <1>9, <1>10

(* What a node has in hand: the pipes alone, a string is taken and run, and
   nothing but "EOF"s is thrown away.                                       *)
LEMMA TokenStep ==
  ASSUME WorkInv, stops = 0, NEW n \in Node, Thread(n), ~Root(n), Steady(n), n \notin Fails \ Batch,
         ~Write(n), ~ReadPipe(n), ~WaitRead(n), TokenOK(n)
  PROVE  TokenOK(n)'
<1>0. Types /\ CountedOK /\ HandOK(n) /\ CountOK(n) /\ TInv
  BY Calm DEF WorkInv
<1>1. UNCHANGED <<slot, arrived, sent, got>>
  <2>1. UNCHANGED reading
    BY DEF Thread, Create, ConnectPipe, OpenPipe, MakeEvent, Top, For, RunCommand, Flush, End,
       Close, Barrier, ClosePipes
  <2> QED
    BY <1>0, <2>1, QuietStep DEF reading
<1>2. SUFFICES ASSUME NEW l \in Line \ {EOF}
               PROVE  Copies(l, inputs'[n]) + Copies(l, ran'[n]) = Copies(l, inputs[n]) + Copies(l, ran[n])
                      /\ Copies(l, inputs'[n]) \in Nat /\ Copies(l, ran'[n]) \in Nat
  <2>1. ASSUME NEW l \in Line \ {EOF}
        PROVE  Piped(n, l, sent') = Piped(n, l, slot') + Piped(n, l, arrived') + Count(l, got'[n])
                                      + Copies(l, inputs'[n]) + Copies(l, ran'[n])
    <3>1. Copies(l, inputs'[n]) + Copies(l, ran'[n]) = Copies(l, inputs[n]) + Copies(l, ran[n])
          /\ Copies(l, inputs'[n]) \in Nat /\ Copies(l, ran'[n]) \in Nat
      BY <1>2
    <3>2. Piped(n, l, sent) = Piped(n, l, slot) + Piped(n, l, arrived) + Count(l, got[n])
                                + Copies(l, inputs[n]) + Copies(l, ran[n])
      BY DEF TokenOK
    <3>3. /\ Piped(n, l, sent) \in Nat /\ Piped(n, l, slot) \in Nat /\ Piped(n, l, arrived) \in Nat
          /\ Count(l, got[n]) \in Nat /\ Copies(l, inputs[n]) \in Nat /\ Copies(l, ran[n]) \in Nat
      BY <1>0, HandTypes
    <3> QED
      BY <1>1, <3>1, <3>2, <3>3
  <2> QED
    BY <2>1, TokenNext
<1>3. Copies(l, inputs[n]) \in Nat /\ Copies(l, ran[n]) \in Nat
  BY <1>0, HandTypes
<1>f. For(n) => PlainFor(n)
  <2>1. ~term[n]
    BY Calm DEF WorkInv
  <2> QED
    BY <1>0, <2>1, ForPlain DEF RootOK
<1>4. CASE For(n) /\ inputs[n] # <<>>
  <2> DEFINE t == Head(inputs[n])
  <2>1. inputs[n] \in Seq(String) /\ ran[n] \in Seq(String) /\ t \in String /\ Tail(inputs[n]) \in Seq(String)
    BY <1>0, <1>4, TailOK DEF Types
  <2>2. inputs'[n] = Tail(inputs[n])
    BY <1>0, <1>f, <1>4 DEF PlainFor, Types
  <2>3. Copies(l, inputs[n]) = Count(l, t) + Copies(l, Tail(inputs[n]))
    BY <1>4, <2>1, CopiesTail
  <2>4. Count(l, t) \in Nat /\ Copies(l, Tail(inputs[n])) \in Nat
    BY <2>1, StringType, CountType, CopiesType
  <2>5. CASE t = <<EOF>>
    <3>1. ran' = ran /\ Count(l, t) = 0
      BY <1>f, <1>4, <2>5, EofElsewhere DEF PlainFor
    <3> QED
      BY <1>3, <2>2, <2>3, <2>4, <3>1
  <2>6. CASE t # <<EOF>>
    <3>1. ran'[n] = Append(ran[n], t)
      BY <1>0, <1>f, <1>4, <2>6 DEF PlainFor, Types
    <3>2. Copies(l, Append(ran[n], t)) = Copies(l, ran[n]) + Count(l, t)
      BY <2>1, CopiesAppend
    <3> HIDE DEF t
    <3> QED
      BY <1>3, <2>2, <2>3, <2>4, <3>1, <3>2
  <2> QED
    BY <2>5, <2>6
<1>5. CASE End(n)
  <2>1. pc[n] = "end" /\ inputs'[n] = <<>> /\ ran' = ran
    BY <1>0, <1>5 DEF End, Types, history
  <2>2. AllEof(inputs[n]) /\ inputs[n] \in Seq(String)
    BY <1>0, <2>1 DEF CountOK, Types
  <2>3. Copies(l, inputs[n]) = 0 /\ Copies(l, <<>>) = 0
    BY <2>2, CopiesEofs, CopiesEmpty DEF AllEof
  <2> QED
    BY <1>3, <2>1, <2>3
<1>6. CASE ~(For(n) /\ inputs[n] # <<>>) /\ ~End(n)
  <2>1. inputs'[n] = inputs[n] /\ ran' = ran
    BY <1>6 DEF Thread, Create, ConnectPipe, OpenPipe, MakeEvent, Top, For, RunCommand, Flush,
       Close, Barrier, ClosePipes, strings, history
  <2> QED
    BY <1>3, <2>1
<1> QED
  BY <1>4, <1>5, <1>6

LEMMA TokenKept ==
  ASSUME RootDistros, WorkInv, stops = 0, NEW n \in Node, Thread(n),
         NEW m \in Node, ~Root(m), Steady(m), m \notin Fails \ Batch, TokenOK(m)
  PROVE  TokenOK(m)'
<1>0. Types /\ CountedOK /\ HandOK(n) /\ TInv
  BY Calm DEF WorkInv
<1>1. CASE Write(n)
  BY <1>1, WriteToken
<1>2. CASE ~Write(n) /\ m = n
  BY <1>2, TokenReading, TokenStep
<1>3. CASE ~Write(n) /\ m # n
  <2>1. OwnKept(m)
    BY <1>0, <1>3, OthersAlone
  <2>2. \A e \in In(m) : slot'[e] = slot[e] /\ arrived'[e] = arrived[e] /\ sent'[e] = sent[e]
    <3>1. CASE ReadPipe(n) \/ WaitRead(n)
      <4>1. sent' = sent /\ (UNCHANGED <<slot, arrived, pend>> \/ \E d \in Edge : Takes(n, d))
        BY <1>0, <3>1, ReadTakes
      <4>2. \A e \in In(m) : e \in Edge /\ e[2] # n
        BY <1>3 DEF In
      <4> QED
        BY <4>1, <4>2 DEF Takes
    <3>2. CASE ~ReadPipe(n) /\ ~WaitRead(n)
      BY <1>0, <1>3, <3>2, QuietStep
    <3> QED
      BY <3>1, <3>2
  <2>3. ASSUME NEW l \in Line \ {EOF}
        PROVE  Piped(m, l, sent') = Piped(m, l, slot') + Piped(m, l, arrived') + Count(l, got'[m])
                                      + Copies(l, inputs'[m]) + Copies(l, ran'[m])
    <3>1. /\ Piped(m, l, sent') = Piped(m, l, sent) /\ Piped(m, l, slot') = Piped(m, l, slot)
          /\ Piped(m, l, arrived') = Piped(m, l, arrived)
      BY <2>2, PipedSame
    <3> QED
      BY <2>1, <3>1 DEF TokenOK, OwnKept
  <2> QED
    BY <2>3, TokenNext
<1> QED
  BY <1>1, <1>2, <1>3

TokenInv ==
  /\ WorkInv
  /\ stops = 0 => \A n \in Node \ (Fails \ Batch) : ~Root(n) => TokenOK(n)

LEMMA TokenInvKept == PlainData /\ OneParent /\ RootDistros /\ TokenInv /\ [Next]_vars => TokenInv'
<1> SUFFICES ASSUME PlainData, OneParent, RootDistros, TokenInv, [Next]_vars PROVE TokenInv'
  OBVIOUS
<1>1. WorkInv /\ WorkInv' /\ TInv
  BY WorkKept DEF TokenInv, WorkInv
<1>2. CASE stops = 0
  <2>1. CASE Terminate \/ StopStep
    BY <1>1, <2>1, TerminateT, StopStepT DEF TokenInv
  <2>2. CASE UNCHANGED vars \/ Start
    <3>1. UNCHANGED <<stops, sent, slot, arrived, got, inputs, ran>>
      BY <2>2 DEF Start, vars, graph, data, reading, strings, history
    <3> QED
      BY <1>1, <3>1 DEF TokenInv, TokenOK, Piped, In, Root
  <2>3. ASSUME NEW n \in Node, Thread(n) PROVE TokenInv'
    <3>1. ASSUME NEW m \in Node \ (Fails \ Batch), ~Root(m) PROVE TokenOK(m)'
      BY <1>1, <1>2, <2>3, <3>1, TokenKept DEF TokenInv, OneParent, Steady
    <3> QED
      BY <1>1, <3>1 DEF TokenInv, Root, In
  <2> QED
    BY <2>1, <2>2, <2>3 DEF Next
<1>3. CASE stops # 0
  <2>1. stops' # 0
    BY <1>1, <1>3, StopsKept
  <2> QED
    BY <1>1, <2>1 DEF TokenInv
<1> QED
  BY <1>2, <1>3

(* A node that has sent "EOF" has run, until Terminate is called, on every
   line that its parents have written.                                      *)
THEOREM EveryLineRun ==
  ASSUME PlainData, OneParent, RootDistros
  PROVE  Spec => []GetsAll
<1>1. TokenInv => GetsAll
  <2> SUFFICES ASSUME TokenInv, stops = 0, NEW n \in Node \ (Fails \ Batch),
                      pc[n] \in {"close"} \cup Closing, ~Root(n), NEW l \in Line \ {EOF}
               PROVE  Piped(n, l, sent) = Copies(l, ran[n])
    BY DEF GetsAll, Piped
  <2>1. /\ Types /\ TokenOK(n) /\ CountOK(n) /\ HandOK(n) /\ \A e \in Edge : EdgeOK(e)
    BY Calm DEF TokenInv, WorkInv, OneParent, Steady
  <2>2. eofs[n] = Cardinality(In(n)) /\ AllEof(inputs[n]) /\ got[n] = <<>>
    BY <2>1 DEF CountOK, HandOK, Past, Taking, Closing
  <2>3. Drained(n) = In(n)
    <3>1. Cardinality(Drained(n)) = Cardinality(In(n))
      BY <2>1, <2>2, CountEmpty, InOut DEF CountOK
    <3>2. Drained(n) \in SUBSET In(n)
      BY DEF Drained
    <3> QED
      BY <3>1, <3>2, InOut, FS_Subset
  <2>4. \A e \in In(n) : slot[e] = None /\ arrived[e] = None
    BY <2>1, <2>3 DEF Drained, Ripe, EdgeOK, In
  <2>5. Piped(n, l, slot) = 0 /\ Piped(n, l, arrived) = 0
    BY <2>4, PipedNone
  <2>6. Copies(l, inputs[n]) = 0 /\ Count(l, got[n]) = 0
    BY <2>1, <2>2, CopiesEofs, CountEmpty DEF AllEof, Types
  <2>7. Piped(n, l, sent) = Piped(n, l, slot) + Piped(n, l, arrived) + Count(l, got[n])
                              + Copies(l, inputs[n]) + Copies(l, ran[n])
    BY <2>1 DEF TokenOK
  <2>8. Copies(l, ran[n]) \in Nat
    BY <2>1, HandTypes
  <2> QED
    BY <2>5, <2>6, <2>7, <2>8
<1>2. Init => TokenInv
  BY InitWork, InitToken DEF TokenInv
<1>3. TokenInv /\ [Next]_vars => TokenInv'
  BY TokenInvKept
<1> QED
  BY <1>1, <1>2, <1>3, PTL DEF Spec
=============================================================================
