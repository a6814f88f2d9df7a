--------------------------- MODULE PipelineProofs ---------------------------
(***************************************************************************)
(* Pipeline for every graph, every input and every capacity: its types,    *)
(* that no process exits before it has told its children, and that a       *)
(* stream ends once and is read to its end.                                *)
(*                                                                         *)
(* Type correctness.  Two facts carry it: a distributor without outputs    *)
(* never gets to its loop, so output_it_ always points to an output when   *)
(* it is used; and WriteOutputs always has a string to write.              *)
(***************************************************************************)
EXTENDS Pipeline, StringsProofs

(* output_it_ points to an output, and a distributor that has none is still
   before its Execute or has returned from it.                              *)
DistroOK ==
  \A n \in Node : Kind[n] = "distro" =>
    /\ Outputs[n] # <<>> => next[n] \in 1..Len(Outputs[n])
    /\ Outputs[n] = <<>> => /\ pc[n] \in {"begin", "poll", "read", "enter", "exited"}
                            /\ pc[n] # "exited" => ~called[n]

(* While a string is being written it is the first of outq. *)
OutqOK == \A n \in Node : pc[n] \in {"pollout", "write"} => outq[n] # <<>>

TInv == TypeOK /\ DistroOK /\ OutqOK

-----------------------------------------------------------------------------
(* The operators the actions are built from. *)

LEMMA OutListType ==
  ASSUME NEW n \in Node
  PROVE  /\ OutList(n) \in Seq(Edge)
         /\ Len(OutList(n)) = Len(Outputs[n])
<1>1. Outputs[n] \in Seq(Node)
  BY GraphAssumption
<1>2. \A i \in 1..Len(Outputs[n]) : <<n, Outputs[n][i]>> \in Edge
  BY <1>1 DEF Edge
<1> QED
  BY <1>1, <1>2 DEF OutList

LEMMA TargetsType ==
  ASSUME TInv, NEW n \in Node,
         Kind[n] = "distro" => Outputs[n] # <<>>
  PROVE  Targets(n) \in Seq(Edge)
<1>1. CASE Kind[n] = "distro"
  <2>1. next[n] \in 1..Len(OutList(n))
    BY <1>1, OutListType DEF TInv, DistroOK
  <2> QED
    BY <1>1, <2>1, OutListType DEF Targets
<1>2. CASE Kind[n] # "distro"
  BY <1>2, OutListType DEF Targets
<1> QED
  BY <1>1, <1>2

LEMMA ResultType ==
  ASSUME NEW n \in Node, NEW s \in String
  PROVE  Result(n, s) \in Seq(String)
<1>1. s[1] \in Line
  BY StringType
<1>2. <<s>> \in Seq(String)
  OBVIOUS
<1>3. Table[n][s[1]] \in Seq(String)
  BY <1>1, DataAssumption
<1> QED
  BY <1>2, <1>3 DEF Result

LEMMA InitTInv == Init => TInv
BY BoundAssumption DEF Init, TInv, TypeOK, DistroOK, OutqOK, PCs

-----------------------------------------------------------------------------
(* One lemma per action. *)

LEMMA BeginT == ASSUME TInv, NEW n \in Node, Begin(n) PROVE TInv'
<1>0. AsStrings(Args) \in Seq(String)
  BY AsStringsType, DataAssumption
<1>1. inputs' \in [Node -> Seq(String)]
  BY <1>0 DEF TInv, TypeOK, Begin
<1>2. readers' \in [Edge -> BOOLEAN]
  BY DEF TInv, TypeOK, Begin
<1>3. \E l \in {"poll", "enter"} : pc' = [pc EXCEPT ![n] = l]
  BY DEF Begin, GoTo
<1>4. /\ pc[n] = "begin"
      /\ UNCHANGED <<called, closing, stat, fifo, buf, eofs, writing, ready, history>>
  BY DEF Begin
<1>5. TypeOK'
  BY <1>1, <1>2, <1>3, <1>4 DEF TInv, TypeOK, PCs, writing, history
<1>6. DistroOK' /\ OutqOK'
  BY <1>3, <1>4 DEF TInv, TypeOK, DistroOK, OutqOK, writing, history
<1> QED
  BY <1>5, <1>6 DEF TInv

LEMMA PollT == ASSUME TInv, NEW n \in Node, Poll(n) PROVE TInv'
<1>1. TypeOK'
  BY DEF TInv, TypeOK, Poll, GoTo, PCs, pipes, reading, writing, history, In
<1>2. DistroOK' /\ OutqOK'
  BY DEF TInv, TypeOK, DistroOK, OutqOK, Poll, GoTo, PCs, pipes, reading, writing, history
<1> QED
  BY <1>1, <1>2 DEF TInv

(* What Collect, the end of every ReadInputs, does to the node's state. *)
LEMMA CollectT ==
  ASSUME TInv, NEW n \in Node, NEW new \in Seq(Line), Collect(n, new),
         pc[n] \in {"poll", "read"}
  PROVE  /\ inputs' \in [Node -> Seq(String)]
         /\ buf' \in [Node -> Seq(Line)]
         /\ eofs' \in [Node -> 0..MaxEofs]
         /\ \E l \in {"poll", "join", "enter", "end", "work"} :
              /\ pc' = [pc EXCEPT ![n] = l]
              /\ Kind[n] = "distro" /\ Outputs[n] = <<>> => l = "enter"
<1> DEFINE strs == AsStrings(new) \o inputs[n]
           sum  == eofs[n] + EofsIn(strs)
<1>1. strs \in Seq(String)
  BY AsStringsType DEF TInv, TypeOK
<1>2. sum \in Nat
  <2>1. EofsIn(strs) \in Nat
    BY <1>1, EofsInType
  <2>2. eofs[n] \in Nat
    BY BoundAssumption DEF TInv, TypeOK
  <2> HIDE DEF strs
  <2> QED
    BY <2>1, <2>2
<1>3. inputs' = [inputs EXCEPT ![n] = strs] /\ buf' = [buf EXCEPT ![n] = <<>>]
  BY DEF Collect
<1>4. eofs' = [eofs EXCEPT ![n] = IF sum <= MaxEofs THEN sum ELSE MaxEofs]
  BY DEF Collect
<1>5. \E l \in {"poll", "join", "enter", "end", "work"} :
        /\ pc' = [pc EXCEPT ![n] = l]
        /\ ~called[n] /\ n \notin Batch => l = "enter"
  BY DEF Collect, GoTo
<1>6. Kind[n] = "distro" /\ Outputs[n] = <<>> => ~called[n] /\ n \notin Batch
  BY GraphAssumption DEF TInv, DistroOK
<1> HIDE DEF strs, sum
<1>7. inputs' \in [Node -> Seq(String)] /\ buf' \in [Node -> Seq(Line)]
  BY <1>1, <1>3 DEF TInv, TypeOK
<1>8. eofs' \in [Node -> 0..MaxEofs]
  BY <1>2, <1>4, BoundAssumption DEF TInv, TypeOK
<1> QED
  BY <1>5, <1>6, <1>7, <1>8

LEMMA ReadT == ASSUME TInv, NEW n \in Node, Read(n) PROVE TInv'
<1>1. PICK e \in ready[n] :
        /\ fifo' = [fifo EXCEPT ![e] = <<>>]
        /\ ready' = [ready EXCEPT ![n] = @ \ {e}]
        /\ IF ready[n] = {e}
             THEN Collect(n, buf[n] \o fifo[e])
             ELSE /\ buf' = [buf EXCEPT ![n] = @ \o fifo[e]]
                  /\ UNCHANGED <<pc, inputs, eofs>>
  BY DEF Read
<1>2. e \in Edge /\ buf[n] \o fifo[e] \in Seq(Line)
  BY DEF TInv, TypeOK
<1>3. fifo' \in [Edge -> Seq(Line)] /\ ready' \in [Node -> SUBSET Edge]
  BY <1>1, <1>2 DEF TInv, TypeOK
<1>4. pc[n] = "read" /\ UNCHANGED <<called, closing, stat, readers, writing, history>>
  BY DEF Read
<1>5. CASE ready[n] = {e}
  <2>1. /\ inputs' \in [Node -> Seq(String)]
        /\ buf' \in [Node -> Seq(Line)]
        /\ eofs' \in [Node -> 0..MaxEofs]
        /\ \E l \in {"poll", "join", "enter", "end", "work"} :
             /\ pc' = [pc EXCEPT ![n] = l]
             /\ Kind[n] = "distro" /\ Outputs[n] = <<>> => l = "enter"
    BY <1>1, <1>2, <1>4, <1>5, CollectT
  <2>2. TypeOK'
    BY <2>1, <1>3, <1>4 DEF TInv, TypeOK, PCs, writing, history
  <2>3. DistroOK' /\ OutqOK'
    BY <2>1, <1>4 DEF TInv, TypeOK, DistroOK, OutqOK, PCs, writing, history
  <2> QED
    BY <2>2, <2>3 DEF TInv
<1>6. CASE ready[n] # {e}
  <2>1. buf' = [buf EXCEPT ![n] = @ \o fifo[e]] /\ UNCHANGED <<pc, inputs, eofs>>
    BY <1>1, <1>6
  <2>2. TypeOK'
    BY <2>1, <1>2, <1>3, <1>4 DEF TInv, TypeOK, writing, history
  <2>3. DistroOK' /\ OutqOK'
    BY <2>1, <1>4 DEF TInv, DistroOK, OutqOK, writing, history
  <2> QED
    BY <2>2, <2>3 DEF TInv
<1> QED
  BY <1>5, <1>6

LEMMA TimeoutT == ASSUME TInv, NEW n \in Node, Timeout(n) PROVE TInv'
<1>1. pc[n] = "poll" /\ UNCHANGED <<called, closing, stat, pipes, writing, ready, history>>
  BY DEF Timeout
<1>2. /\ inputs' \in [Node -> Seq(String)]
      /\ buf' \in [Node -> Seq(Line)]
      /\ eofs' \in [Node -> 0..MaxEofs]
      /\ \E l \in {"poll", "join", "enter", "end", "work"} :
           /\ pc' = [pc EXCEPT ![n] = l]
           /\ Kind[n] = "distro" /\ Outputs[n] = <<>> => l = "enter"
  <2>1. Collect(n, <<>>) /\ <<>> \in Seq(Line)
    BY DEF Timeout
  <2> QED
    BY <2>1, <1>1, CollectT
<1>3. TypeOK'
  BY <1>1, <1>2 DEF TInv, TypeOK, PCs, pipes, writing, history
<1>4. DistroOK' /\ OutqOK'
  BY <1>1, <1>2 DEF TInv, TypeOK, DistroOK, OutqOK, PCs, pipes, writing, history
<1> QED
  BY <1>3, <1>4 DEF TInv

LEMMA JoinT == ASSUME TInv, NEW n \in Node, Join(n) PROVE TInv'
<1> DEFINE strs == inputs[n]
           data == {i \in DOMAIN strs : strs[i] # <<EOF>>}
<1>1. PICK k \in 0..Len(strs) : \E p \in [1..k -> data] :
        inputs' = [inputs EXCEPT ![n] =
          IF k = 0 THEN <<<<EOF>>>> ELSE <<[j \in 1..k |-> strs[p[j]][1]], <<EOF>>>>]
  BY DEF Join
<1>2. PICK p \in [1..k -> data] :
        inputs' = [inputs EXCEPT ![n] =
          IF k = 0 THEN <<<<EOF>>>> ELSE <<[j \in 1..k |-> strs[p[j]][1]], <<EOF>>>>]
  BY <1>1
<1>3. strs \in Seq(String)
  BY DEF TInv, TypeOK
<1>4. <<EOF>> \in String
  BY LineAssumption, SingletonType
<1>5. \A j \in 1..k : strs[p[j]][1] \in Line
  BY <1>3, StringType
<1>6. k # 0 => [j \in 1..k |-> strs[p[j]][1]] \in String
  <2> SUFFICES ASSUME k # 0 PROVE [j \in 1..k |-> strs[p[j]][1]] \in String
    OBVIOUS
  <2> DEFINE s == [j \in 1..k |-> strs[p[j]][1]]
  <2>1. s \in Seq(Line) /\ Len(s) = k
    BY <1>3, <1>5
  <2> HIDE DEF s
  <2>2. s # <<>>
    BY <2>1
  <2>3. s \in String
    BY <2>1, <2>2 DEF String
  <2> QED
    BY <2>3 DEF s
<1> DEFINE joined == IF k = 0 THEN <<<<EOF>>>> ELSE <<[j \in 1..k |-> strs[p[j]][1]], <<EOF>>>>
<1>7. joined \in Seq(String)
  BY <1>4, <1>6
<1>8. inputs' = [inputs EXCEPT ![n] = joined]
  BY <1>2
<1> HIDE DEF joined
<1>9. inputs' \in [Node -> Seq(String)]
  BY <1>7, <1>8 DEF TInv, TypeOK
<1>10. /\ pc[n] = "join" /\ \E l \in {"work", "enter"} : pc' = [pc EXCEPT ![n] = l]
       /\ UNCHANGED <<called, closing, stat, pipes, buf, eofs, writing, ready, history>>
  BY DEF Join, GoTo
<1>11. TypeOK'
  BY <1>9, <1>10 DEF TInv, TypeOK, PCs, pipes, writing, history
<1>12. DistroOK' /\ OutqOK'
  BY <1>10 DEF TInv, TypeOK, DistroOK, OutqOK, pipes, writing, history
<1> QED
  BY <1>11, <1>12 DEF TInv

LEMMA EnterT == ASSUME TInv, NEW n \in Node, Enter(n) PROVE TInv'
<1>1. /\ pc[n] = "enter" /\ called' = [called EXCEPT ![n] = TRUE]
      /\ UNCHANGED <<closing, fifo, reading, outq, toOpen, pending, next, ready, history>>
  BY DEF Enter
<1>2. \E l \in {"exited", "end", "join", "work"} :
        /\ pc' = [pc EXCEPT ![n] = l]
        /\ Kind[n] = "distro" /\ Outputs[n] = <<>> => l = "exited"
  BY DEF Enter, Exit, GoTo
<1>3. readers' \in [Edge -> BOOLEAN] /\ opened' \in [Node -> SUBSET Edge]
  <2>1. readers \in [Edge -> BOOLEAN] /\ opened \in [Node -> SUBSET Edge]
    BY DEF TInv, TypeOK
  <2>2. CASE UNCHANGED <<readers, opened>>
    BY <2>1, <2>2
  <2>3. CASE Exit(n)
    BY <2>1, <2>3 DEF Exit, CloseReads
  <2> QED
    BY <2>2, <2>3 DEF Enter
<1>4. stat' \in [Node -> BOOLEAN]
  BY DEF TInv, TypeOK, Enter
<1>5. called' \in [Node -> BOOLEAN] /\ pc' \in [Node -> PCs]
  BY <1>1, <1>2 DEF TInv, TypeOK, PCs
<1>6. TypeOK'
  BY <1>1, <1>3, <1>4, <1>5 DEF TInv, TypeOK, reading, history
<1>7. DistroOK'
  BY <1>1, <1>2 DEF TInv, TypeOK, DistroOK
<1>8. OutqOK'
  BY <1>1, <1>2 DEF TInv, TypeOK, OutqOK
<1> QED
  BY <1>6, <1>7, <1>8 DEF TInv

LEMMA RunT == ASSUME TInv, NEW n \in Node, Run(n) PROVE TInv'
<1>1. PICK i \in DOMAIN inputs[n] :
        /\ At(n, i)
        /\ inputs' = [inputs EXCEPT ![n] = Rest(n, i)]
        /\ handled' = [handled EXCEPT ![n] = Append(@, inputs[n][i])]
        /\ outq' = [outq EXCEPT ![n] = Result(n, inputs[n][i])]
        /\ IF Kind[n] = "command" \/ Result(n, inputs[n][i]) # <<>>
             THEN toOpen' = [toOpen EXCEPT ![n] = Targets(n)] /\ GoTo(n, "open")
             ELSE UNCHANGED <<toOpen, pc>>
        /\ UNCHANGED <<called, closing, stat, pipes, buf, eofs, opened, pending, next,
                       ready, sent>>
  BY DEF Run
<1>2. pc[n] = "work"
  BY <1>1 DEF At
<1>3. inputs[n] \in Seq(String) /\ inputs[n][i] \in String /\ i \in 1..Len(inputs[n])
  BY DEF TInv, TypeOK
<1>4. Rest(n, i) \in Seq(String)
  BY <1>3 DEF Rest
<1>5. Result(n, inputs[n][i]) \in Seq(String)
  BY <1>3, ResultType
<1>6. Targets(n) \in Seq(Edge)
  BY <1>2, TargetsType DEF TInv, DistroOK
<1>7. inputs' \in [Node -> Seq(String)]
  BY <1>1, <1>4 DEF TInv, TypeOK
<1>8. handled' \in [Node -> Seq(String)]
  BY <1>1, <1>3 DEF TInv, TypeOK
<1>9. outq' \in [Node -> Seq(String)]
  BY <1>1, <1>5 DEF TInv, TypeOK
<1>10. toOpen' \in [Node -> Seq(Edge)]
  BY <1>1, <1>6 DEF TInv, TypeOK
<1>11. pc' = pc \/ pc' = [pc EXCEPT ![n] = "open"]
  BY <1>1 DEF GoTo
<1>12. TypeOK'
  BY <1>1, <1>7, <1>8, <1>9, <1>10, <1>11 DEF TInv, TypeOK, PCs, pipes
<1>13. DistroOK'
  BY <1>1, <1>2, <1>11 DEF TInv, TypeOK, DistroOK, pipes
<1>14. OutqOK'
  BY <1>1, <1>2, <1>11 DEF TInv, TypeOK, OutqOK
<1> QED
  BY <1>12, <1>13, <1>14 DEF TInv

LEMMA FailT == ASSUME TInv, NEW n \in Node, Fail(n) PROVE TInv'
<1>1. /\ pc[n] = "work" /\ pc' = [pc EXCEPT ![n] = "end"]
      /\ stat' = [stat EXCEPT ![n] = FALSE]
      /\ UNCHANGED <<called, closing, pipes, reading, writing, ready, history>>
  BY DEF Fail, At, GoTo
<1>2. TypeOK'
  BY <1>1 DEF TInv, TypeOK, PCs, pipes, reading, writing, history
<1>3. DistroOK' /\ OutqOK'
  BY <1>1 DEF TInv, TypeOK, DistroOK, OutqOK, writing
<1> QED
  BY <1>2, <1>3 DEF TInv

LEMMA LoopEndT == ASSUME TInv, NEW n \in Node, LoopEnd(n) PROVE TInv'
<1>1. TypeOK'
  BY DEF TInv, TypeOK, LoopEnd, GoTo, PCs, pipes, writing, history
<1>2. DistroOK' /\ OutqOK'
  BY DEF TInv, TypeOK, DistroOK, OutqOK, LoopEnd, GoTo, PCs, pipes, writing, history
<1> QED
  BY <1>1, <1>2 DEF TInv

LEMMA SendEofT == ASSUME TInv, NEW n \in Node, SendEof(n) PROVE TInv'
<1>0. OutList(n) \in Seq(Edge) /\ <<<<EOF>>>> \in Seq(String)
  BY OutListType, SingletonType, LineAssumption
<1>1. TypeOK'
  BY <1>0 DEF TInv, TypeOK, SendEof, GoTo, PCs, CloseReads, reading, history
<1>2. DistroOK' /\ OutqOK'
  BY DEF TInv, TypeOK, DistroOK, OutqOK, SendEof, GoTo, PCs, CloseReads, reading, history
<1> QED
  BY <1>1, <1>2 DEF TInv

(* StartWrite: either there is nothing to write, or the first string is. *)
LEMMA StartWriteT ==
  ASSUME TInv, NEW n \in Node, NEW fds \in SUBSET Edge, StartWrite(n, fds)
  PROVE  /\ outq' \in [Node -> Seq(String)] /\ pending' \in [Node -> SUBSET Edge]
         /\ \/ pc' = [pc EXCEPT ![n] = "wrote"] /\ outq' = [outq EXCEPT ![n] = <<>>]
            \/ pc' = [pc EXCEPT ![n] = "pollout"] /\ outq' = outq /\ outq[n] # <<>>
<1>1. <<>> \in Seq(String)
  OBVIOUS
<1>2. outq' \in [Node -> Seq(String)]
  BY <1>1 DEF TInv, TypeOK, StartWrite
<1>3. pending' \in [Node -> SUBSET Edge]
  BY DEF TInv, TypeOK, StartWrite
<1> QED
  BY <1>2, <1>3 DEF StartWrite, GoTo

LEMMA OpenT == ASSUME TInv, NEW n \in Node, Open(n) PROVE TInv'
<1> DEFINE fds == opened[n] \cup {Head(toOpen[n])}
<1>1. /\ pc[n] = "open" /\ toOpen[n] # <<>>
      /\ opened' = [opened EXCEPT ![n] = fds]
      /\ toOpen' = [toOpen EXCEPT ![n] = Tail(@)]
      /\ StartWrite(n, fds) \/ UNCHANGED <<pc, outq, pending>>
      /\ UNCHANGED <<called, closing, stat, pipes, reading, next, ready, history>>
  BY DEF Open
<1>2. fds \in SUBSET Edge /\ Tail(toOpen[n]) \in Seq(Edge)
  BY <1>1 DEF TInv, TypeOK
<1> HIDE DEF fds
<1>3. /\ outq' \in [Node -> Seq(String)] /\ pending' \in [Node -> SUBSET Edge]
      /\ \/ pc' = [pc EXCEPT ![n] = "wrote"] /\ outq' = [outq EXCEPT ![n] = <<>>]
         \/ pc' = [pc EXCEPT ![n] = "pollout"] /\ outq' = outq /\ outq[n] # <<>>
         \/ pc' = pc /\ outq' = outq
  <2>1. CASE StartWrite(n, fds)
    BY <2>1, <1>2, StartWriteT
  <2>2. CASE UNCHANGED <<pc, outq, pending>>
    BY <2>2 DEF TInv, TypeOK
  <2> QED
    BY <2>1, <2>2, <1>1
<1>4. /\ opened' \in [Node -> SUBSET Edge]
      /\ toOpen' \in [Node -> Seq(Edge)]
  BY <1>1, <1>2 DEF TInv, TypeOK
<1>5. pc' \in [Node -> PCs]
  BY <1>3 DEF TInv, TypeOK, PCs
<1>6. TypeOK'
  BY <1>1, <1>3, <1>4, <1>5 DEF TInv, TypeOK, pipes, reading, history
<1>7. DistroOK'
  BY <1>1, <1>3 DEF TInv, TypeOK, DistroOK
<1>8. OutqOK'
  BY <1>1, <1>3 DEF TInv, TypeOK, OutqOK
<1> QED
  BY <1>6, <1>7, <1>8 DEF TInv

LEMMA OpenNoneT == ASSUME TInv, NEW n \in Node, OpenNone(n) PROVE TInv'
<1>1. /\ pc[n] = "open" /\ StartWrite(n, {})
      /\ UNCHANGED <<called, closing, stat, pipes, reading, toOpen, opened, next, ready, history>>
  BY DEF OpenNone
<1>2. /\ outq' \in [Node -> Seq(String)] /\ pending' \in [Node -> SUBSET Edge]
      /\ \/ pc' = [pc EXCEPT ![n] = "wrote"] /\ outq' = [outq EXCEPT ![n] = <<>>]
         \/ pc' = [pc EXCEPT ![n] = "pollout"] /\ outq' = outq /\ outq[n] # <<>>
  BY <1>1, StartWriteT
<1>3. pc' \in [Node -> PCs]
  BY <1>2 DEF TInv, TypeOK, PCs
<1>4. TypeOK'
  BY <1>1, <1>2, <1>3 DEF TInv, TypeOK, pipes, reading, history
<1>5. DistroOK'
  BY <1>1, <1>2 DEF TInv, TypeOK, DistroOK
<1>6. OutqOK'
  BY <1>1, <1>2 DEF TInv, TypeOK, OutqOK
<1> QED
  BY <1>4, <1>5, <1>6 DEF TInv

LEMMA PollOutT == ASSUME TInv, NEW n \in Node, PollOut(n) PROVE TInv'
<1>1. TypeOK'
  BY DEF TInv, TypeOK, PollOut, GoTo, PCs, pipes, reading, writing, history
<1>2. DistroOK' /\ OutqOK'
  BY DEF TInv, TypeOK, DistroOK, OutqOK, PollOut, GoTo, PCs, pipes, reading, writing, history
<1> QED
  BY <1>1, <1>2 DEF TInv

LEMMA WriteT == ASSUME TInv, NEW n \in Node, Write(n) PROVE TInv'
<1>1. PICK e \in ready[n] :
        /\ fifo' = [fifo EXCEPT ![e] = @ \o Head(outq[n])]
        /\ sent' = [sent EXCEPT ![e] = @ \o Head(outq[n])]
        /\ ready' = [ready EXCEPT ![n] = @ \ {e}]
        /\ \/ /\ pending' = [pending EXCEPT ![n] = @ \ {e}]
              /\ UNCHANGED outq
              /\ pc' = pc \/ GoTo(n, "pollout")
           \/ /\ outq' = [outq EXCEPT ![n] = Tail(@)]
              /\ \/ /\ Len(outq[n]) > 1
                    /\ pending' = [pending EXCEPT ![n] = opened[n]]
                    /\ GoTo(n, "pollout")
                 \/ pending' = [pending EXCEPT ![n] = {}] /\ GoTo(n, "wrote")
  BY DEF Write
<1>2. /\ pc[n] = "write"
      /\ UNCHANGED <<called, closing, stat, readers, reading, toOpen, opened, next, handled>>
  BY DEF Write
<1>3. outq[n] \in Seq(String) /\ outq[n] # <<>> /\ e \in Edge
  BY <1>2 DEF TInv, TypeOK, OutqOK
<1>4. Head(outq[n]) \in Seq(Line) /\ Tail(outq[n]) \in Seq(String)
  BY <1>3 DEF String
<1>5. fifo' \in [Edge -> Seq(Line)] /\ sent' \in [Edge -> Seq(Line)]
  BY <1>1, <1>3, <1>4 DEF TInv, TypeOK
<1>6. ready' \in [Node -> SUBSET Edge] /\ pending' \in [Node -> SUBSET Edge]
  <2>1. ready[n] \ {e} \in SUBSET Edge /\ pending[n] \ {e} \in SUBSET Edge
    BY DEF TInv, TypeOK
  <2>2. opened[n] \in SUBSET Edge
    BY DEF TInv, TypeOK
  <2>3. ready' \in [Node -> SUBSET Edge]
    BY <1>1, <2>1 DEF TInv, TypeOK
  <2>4. \E S \in SUBSET Edge : pending' = [pending EXCEPT ![n] = S]
    BY <1>1, <2>1, <2>2
  <2> QED
    BY <2>3, <2>4 DEF TInv, TypeOK
<1>7. outq' \in [Node -> Seq(String)]
  BY <1>1, <1>4 DEF TInv, TypeOK
<1>8. pc' \in [Node -> PCs]
  BY <1>1 DEF TInv, TypeOK, GoTo, PCs
<1>9. TypeOK'
  BY <1>2, <1>5, <1>6, <1>7, <1>8 DEF TInv, TypeOK, reading
<1>10. DistroOK'
  BY <1>1, <1>2 DEF TInv, TypeOK, DistroOK, GoTo
<1>11. OutqOK'
  <2> SUFFICES ASSUME NEW m \in Node, pc'[m] \in {"pollout", "write"}
               PROVE  outq'[m] # <<>>
    BY DEF OutqOK
  <2>1. CASE m # n
    BY <2>1, <1>1 DEF TInv, TypeOK, OutqOK, GoTo
  <2>2. CASE m = n /\ outq' = outq
    BY <2>2, <1>3
  <2>3. CASE m = n /\ outq' # outq
    <3>1. outq' = [outq EXCEPT ![n] = Tail(@)] /\ Len(outq[n]) > 1
      BY <2>3, <1>1 DEF TInv, TypeOK, GoTo
    <3>2. outq'[n] = Tail(outq[n])
      BY <3>1 DEF TInv, TypeOK
    <3>3. \A t \in Seq(String) : Len(t) > 0 => t # <<>>
      OBVIOUS
    <3>4. Len(Tail(outq[n])) > 0
      BY <3>1, <1>3
    <3>5. Tail(outq[n]) # <<>>
      BY <3>3, <3>4, <1>4
    <3> QED
      BY <3>2, <3>5, <2>3
  <2> QED
    BY <2>1, <2>2, <2>3
<1> QED
  BY <1>9, <1>10, <1>11 DEF TInv

LEMMA BrokenPipeT == ASSUME TInv, NEW n \in Node, BrokenPipe(n) PROVE TInv'
<1>1. TypeOK'
  BY DEF TInv, TypeOK, BrokenPipe, GoTo, PCs, CloseReads, reading, history
<1>2. DistroOK' /\ OutqOK'
  BY DEF TInv, TypeOK, DistroOK, OutqOK, BrokenPipe, GoTo, PCs, CloseReads, reading, history
<1> QED
  BY <1>1, <1>2 DEF TInv

LEMMA CloseOutputsT == ASSUME TInv, NEW n \in Node, CloseOutputs(n) PROVE TInv'
<1>1. /\ pc[n] = "wrote"
      /\ UNCHANGED <<called, closing, stat, fifo, reading, outq, pending, ready, history>>
      /\ opened' = [opened EXCEPT ![n] = {}]
      /\ \/ Exit(n) /\ UNCHANGED <<toOpen, next>>
         \/ /\ next' = [next EXCEPT ![n] = NextOutput(n)]
            /\ UNCHANGED readers
            /\ \/ GoTo(n, "work") /\ UNCHANGED toOpen
               \/ GoTo(n, "open") /\ toOpen' = [toOpen EXCEPT ![n] = Targets(n)]
  BY DEF CloseOutputs, Exit
<1>2. Kind[n] = "distro" => Len(Outputs[n]) \in Nat \ {0} /\ next[n] \in 1..Len(Outputs[n])
  <2> SUFFICES ASSUME Kind[n] = "distro"
               PROVE  Len(Outputs[n]) \in Nat \ {0} /\ next[n] \in 1..Len(Outputs[n])
    OBVIOUS
  <2>1. Outputs[n] \in Seq(Node) /\ Outputs[n] # <<>>
    BY <1>1, GraphAssumption DEF TInv, DistroOK
  <2> QED
    BY <2>1 DEF TInv, DistroOK
<1>3. NextOutput(n) \in Nat /\ (Kind[n] = "distro" => NextOutput(n) \in 1..Len(Outputs[n]))
  BY <1>2 DEF TInv, TypeOK, NextOutput
<1>4. Targets(n) \in Seq(Edge)
  BY <1>1, TargetsType DEF TInv, DistroOK
<1>5. pc' \in [Node -> PCs] /\ readers' \in [Edge -> BOOLEAN]
  BY <1>1 DEF TInv, TypeOK, Exit, CloseReads, GoTo, PCs
<1>6. toOpen' \in [Node -> Seq(Edge)] /\ next' \in [Node -> Nat]
  <2>1. toOpen' = toOpen \/ toOpen' = [toOpen EXCEPT ![n] = Targets(n)]
    BY <1>1
  <2>2. next' = next \/ next' = [next EXCEPT ![n] = NextOutput(n)]
    BY <1>1
  <2>3. toOpen' \in [Node -> Seq(Edge)]
    BY <2>1, <1>4 DEF TInv, TypeOK
  <2>4. NextOutput(n) \in Nat
    BY <1>3
  <2>5. next' \in [Node -> Nat]
    BY <2>2, <2>4 DEF TInv, TypeOK
  <2> QED
    BY <2>3, <2>5
<1>7. TypeOK'
  BY <1>1, <1>5, <1>6 DEF TInv, TypeOK, reading, history
<1>8. DistroOK'
  BY <1>1, <1>3 DEF TInv, TypeOK, DistroOK, Exit, GoTo
<1>9. OutqOK'
  BY <1>1 DEF TInv, TypeOK, OutqOK, Exit, GoTo
<1> QED
  BY <1>7, <1>8, <1>9 DEF TInv

-----------------------------------------------------------------------------
LEMMA NextT == TInv /\ [Next]_vars => TInv'
<1> SUFFICES ASSUME TInv, [Next]_vars PROVE TInv'
  OBVIOUS
<1>1. CASE UNCHANGED vars
  BY <1>1 DEF TInv, TypeOK, DistroOK, OutqOK, vars, ctl, pipes, reading, writing, history
<1>2. ASSUME NEW n \in Node, Step(n)
      PROVE  TInv'
  <2>1. CASE Begin(n) \/ Poll(n) \/ Read(n) \/ Timeout(n) \/ Join(n)
    BY <2>1, BeginT, PollT, ReadT, TimeoutT, JoinT
  <2>2. CASE Enter(n) \/ Run(n) \/ Fail(n) \/ LoopEnd(n) \/ SendEof(n)
    BY <2>2, EnterT, RunT, FailT, LoopEndT, SendEofT
  <2>3. CASE Open(n) \/ OpenNone(n) \/ PollOut(n) \/ Write(n) \/ BrokenPipe(n)
    BY <2>3, OpenT, OpenNoneT, PollOutT, WriteT, BrokenPipeT
  <2>4. CASE CloseOutputs(n)
    BY <2>4, CloseOutputsT
  <2> QED
    BY <1>2, <2>1, <2>2, <2>3, <2>4 DEF Step
<1> QED
  BY <1>1, <1>2 DEF Next, Done

(* Every execution of every graph stays within the types: in particular the
   distributor's iterator points to an output whenever it is used, and
   WriteOutputs is never without a string.                                  *)
THEOREM TypeCorrect == Spec => []TypeOK
<1>1. Init => TInv
  BY InitTInv
<1>2. TInv /\ [Next]_vars => TInv'
  BY NextT
<1>3. TInv => TypeOK
  BY DEF TInv
<1> QED
  BY <1>1, <1>2, <1>3, PTL DEF Spec

-----------------------------------------------------------------------------
(***************************************************************************)
(* No process exits before it has told its children: EofBeforeExit, for    *)
(* every graph, with whatever failures.  The children of a node are told   *)
(* one pipe at a time, so the invariant follows the pipes: while the node  *)
(* is closing, each of its pipes is still to be opened, or open and still  *)
(* to be written, or ends with "EOF".                                      *)
(***************************************************************************)

Idle == {"begin", "poll", "read", "enter", "join", "work", "end"}

ToOpen(n, e) == \E i \in 1..Len(toOpen[n]) : toOpen[n][i] = e

(* A node has only pipes of its own open, and none outside run_command or
   the writing of "EOF".                                                    *)
OwnOutputs(n) ==
  /\ opened[n] \subseteq Out(n)
  /\ pending[n] \subseteq Out(n)
  /\ pc[n] = "write" => ready[n] \subseteq Out(n)
  /\ \A i \in 1..Len(toOpen[n]) : toOpen[n][i] \in Out(n)
  /\ pc[n] \in Idle => opened[n] = {}
  /\ pc[n] = "open" /\ toOpen[n] = <<>> => opened[n] = {}

(* After the loop "EOF" is all that is left to write. *)
LastWord(n) ==
  closing[n] =>
    /\ pc[n] \notin Idle
    /\ pc[n] \in {"open", "pollout", "write"} => outq[n] = <<<<EOF>>>>

(* How far the pipe e has got. *)
OnItsWay(n, e) ==
  /\ pc[n] = "open" => e \in opened[n] \/ ToOpen(n, e)
  /\ pc[n] \in {"pollout", "write"} => e \in pending[n] \/ EndsWithEof(sent[e])
  /\ pc[n] = "wrote" => EndsWithEof(sent[e])

Told(n) ==
  /\ closing[n] => \A e \in Out(n) : OnItsWay(n, e)
  /\ pc[n] = "exited" => \A e \in Out(n) : EndsWithEof(sent[e])

NodeOK(n) == OwnOutputs(n) /\ LastWord(n) /\ Told(n)

EofInv == TInv /\ \A n \in Node : NodeOK(n)

-----------------------------------------------------------------------------
LEMMA OutEdge ==
  ASSUME NEW n \in Node
  PROVE  /\ \A i \in 1..Len(OutList(n)) : OutList(n)[i] \in Out(n)
         /\ \A e \in Out(n) : \E i \in 1..Len(OutList(n)) : OutList(n)[i] = e
<1>1. Outputs[n] \in Seq(Node) /\ DOMAIN Outputs[n] = 1..Len(Outputs[n])
  BY GraphAssumption
<1>2. Len(OutList(n)) = Len(Outputs[n]) /\ OutList(n) = [i \in 1..Len(Outputs[n]) |-> <<n, Outputs[n][i]>>]
  BY <1>1, OutListType DEF OutList
<1>3. ASSUME NEW i \in 1..Len(OutList(n)) PROVE OutList(n)[i] \in Out(n)
  BY <1>1, <1>2, <1>3 DEF Out, Edge
<1>4. ASSUME NEW e \in Out(n) PROVE \E i \in 1..Len(OutList(n)) : OutList(n)[i] = e
  <2>1. e \in Node \X Node /\ e[1] = n
    BY <1>4 DEF Out, Edge
  <2>2. PICK i \in 1..Len(Outputs[n]) : Outputs[n][i] = e[2]
    BY <1>1, <1>4, <2>1 DEF Out, Edge
  <2>3. e = <<n, Outputs[n][i]>>
    BY <2>1, <2>2
  <2> QED
    BY <1>2, <2>2, <2>3
<1> QED
  BY <1>3, <1>4

LEMMA OutSubset == ASSUME NEW n \in Node PROVE Out(n) \subseteq Edge
BY DEF Out

(* "EOF" is what a stream ends with once it has been appended. *)
LEMMA AppendEof == ASSUME NEW s \in Seq(Line) PROVE EndsWithEof(s \o <<EOF>>)
<1>1. <<EOF>> \in Seq(Line)
  BY LineAssumption
<1>2. Len(s \o <<EOF>>) = Len(s) + 1 /\ (s \o <<EOF>>)[Len(s) + 1] = EOF
  BY <1>1
<1>3. s \o <<EOF>> # <<>>
  BY <1>1
<1> QED
  BY <1>2, <1>3 DEF EndsWithEof

(* What node n knows about itself depends on its own variables only. *)
LEMMA Unmoved ==
  ASSUME NEW m \in Node, NodeOK(m),
         pc'[m] = pc[m], closing'[m] = closing[m], outq'[m] = outq[m],
         toOpen'[m] = toOpen[m], opened'[m] = opened[m], pending'[m] = pending[m],
         ready'[m] = ready[m], \A e \in Out(m) : sent'[e] = sent[e]
  PROVE  NodeOK(m)'
<1>1. OwnOutputs(m)'
  BY DEF NodeOK, OwnOutputs
<1>2. LastWord(m)'
  BY DEF NodeOK, LastWord
<1>3. Told(m)'
  BY DEF NodeOK, Told, OnItsWay, ToOpen, EndsWithEof
<1> QED
  BY <1>1, <1>2, <1>3 DEF NodeOK

(* A step that stays before the end of the loop changes nothing either. *)
LEMMA StillIdle ==
  ASSUME NEW n \in Node, NodeOK(n), pc[n] \in Idle, pc'[n] \in Idle,
         closing'[n] = closing[n], toOpen'[n] = toOpen[n],
         opened'[n] = opened[n], pending'[n] = pending[n]
  PROVE  NodeOK(n)'
<1>1. OwnOutputs(n)'
  BY DEF NodeOK, OwnOutputs, Idle
<1>2. ~closing'[n]
  BY DEF NodeOK, LastWord
<1> QED
  BY <1>1, <1>2 DEF NodeOK, LastWord, Told, Idle

(* What node n does leaves the variables of another node m alone. *)
Elsewhere(m) ==
  /\ pc'[m] = pc[m] /\ closing'[m] = closing[m] /\ outq'[m] = outq[m]
  /\ toOpen'[m] = toOpen[m] /\ opened'[m] = opened[m] /\ pending'[m] = pending[m]
  /\ ready'[m] = ready[m] /\ \A e \in Out(m) : sent'[e] = sent[e]

LEMMA Others ==
  ASSUME TInv, NEW n \in Node, OwnOutputs(n), Step(n), NEW m \in Node, m # n
  PROVE  Elsewhere(m)
<1> USE DEF TInv, TypeOK, Elsewhere, GoTo
<1>1. CASE Begin(n)
  BY <1>1 DEF Begin, writing, history
<1>2. CASE Poll(n)
  BY <1>2 DEF Poll, reading, pipes, writing, history
<1>3. CASE Join(n)
  BY <1>3 DEF Join, pipes, writing, history
<1>4. CASE Enter(n)
  BY <1>4 DEF Enter, Exit, reading, history
<1>5. CASE Fail(n)
  BY <1>5 DEF Fail, pipes, reading, writing, history
<1>6. CASE LoopEnd(n)
  BY <1>6 DEF LoopEnd, pipes, writing, history
<1>7. CASE SendEof(n)
  BY <1>7 DEF SendEof, reading, history
<1>8. CASE PollOut(n)
  BY <1>8 DEF PollOut, pipes, reading, writing, history
<1>9. CASE BrokenPipe(n)
  BY <1>9 DEF BrokenPipe, reading, history
<1>10. CASE CloseOutputs(n)
  BY <1>10 DEF CloseOutputs, Exit, reading, history
<1>11. CASE Read(n)
  <2>1. \/ pc' = pc
        \/ \E l \in PCs : pc' = [pc EXCEPT ![n] = l]
    BY <1>11 DEF Read, Collect, PCs
  <2>2. \E S : ready' = [ready EXCEPT ![n] = S]
    BY <1>11 DEF Read
  <2> QED
    BY <1>11, <2>1, <2>2 DEF Read, writing, history
<1>12. CASE Timeout(n)
  <2>1. \E l \in PCs : pc' = [pc EXCEPT ![n] = l]
    BY <1>12 DEF Timeout, Collect, PCs
  <2> QED
    BY <1>12, <2>1 DEF Timeout, writing, history
<1>13. CASE Run(n)
  <2>1. \E S, T : outq' = [outq EXCEPT ![n] = S] /\ (toOpen' = toOpen \/ toOpen' = [toOpen EXCEPT ![n] = T])
    BY <1>13 DEF Run
  <2>2. pc' = pc \/ pc' = [pc EXCEPT ![n] = "open"]
    BY <1>13 DEF Run
  <2>3. UNCHANGED <<closing, opened, pending, ready, sent>>
    BY <1>13 DEF Run
  <2> QED
    BY <2>1, <2>2, <2>3
<1>14. CASE Open(n)
  BY <1>14 DEF Open, StartWrite, pipes, reading, history
<1>15. CASE OpenNone(n)
  BY <1>15 DEF OpenNone, StartWrite, pipes, reading, history
<1>16. CASE Write(n)
  <2>1. PICK e \in ready[n] :
          /\ sent' = [sent EXCEPT ![e] = @ \o Head(outq[n])]
          /\ ready' = [ready EXCEPT ![n] = @ \ {e}]
          /\ pc' = pc \/ \E l \in PCs : pc' = [pc EXCEPT ![n] = l]
          /\ \E S : pending' = [pending EXCEPT ![n] = S]
          /\ outq' = outq \/ outq' = [outq EXCEPT ![n] = Tail(@)]
    BY <1>16 DEF Write, PCs
  <2>2. e \in Out(n)
    BY <1>16 DEF Write, OwnOutputs
  <2>3. \A f \in Out(m) : f # e
    BY <2>2 DEF Out
  <2>4. \A f \in Out(m) : sent'[f] = sent[f]
    BY <2>1, <2>3, OutSubset
  <2>5. UNCHANGED <<closing, toOpen, opened>>
    BY <1>16 DEF Write
  <2> QED
    BY <2>1, <2>4, <2>5
<1> QED
  BY <1>1, <1>2, <1>3, <1>4, <1>5, <1>6, <1>7, <1>8, <1>9, <1>10, <1>11, <1>12, <1>13, <1>14, <1>15, <1>16 DEF Step

-----------------------------------------------------------------------------
(* What each action does to the node that takes it. *)

LEMMA IdleOwn ==
  ASSUME TInv, NEW n \in Node, NodeOK(n),
         \/ Begin(n) \/ Poll(n) \/ Timeout(n) \/ Join(n) \/ Fail(n) \/ LoopEnd(n)
  PROVE  NodeOK(n)'
<1>1. pc[n] \in Idle /\ pc'[n] \in Idle
  <2>1. CASE Begin(n)
    BY <2>1 DEF TInv, TypeOK, Begin, GoTo, Idle
  <2>2. CASE Poll(n)
    BY <2>2 DEF TInv, TypeOK, Poll, GoTo, Idle
  <2>3. CASE Timeout(n)
    BY <2>3 DEF TInv, TypeOK, Timeout, Collect, GoTo, Idle
  <2>4. CASE Join(n)
    BY <2>4 DEF TInv, TypeOK, Join, GoTo, Idle
  <2>5. CASE Fail(n)
    BY <2>5 DEF TInv, TypeOK, Fail, At, GoTo, Idle
  <2>6. CASE LoopEnd(n)
    BY <2>6 DEF TInv, TypeOK, LoopEnd, GoTo, Idle
  <2> QED
    BY <2>1, <2>2, <2>3, <2>4, <2>5, <2>6
<1>2. UNCHANGED <<closing, toOpen, opened, pending>>
  BY DEF Begin, Poll, Timeout, Join, Fail, LoopEnd, writing
<1> QED
  BY <1>1, <1>2, StillIdle

LEMMA ReadOwn ==
  ASSUME TInv, NEW n \in Node, NodeOK(n), Read(n)
  PROVE  NodeOK(n)'
<1>1. pc' = pc \/ \E l \in Idle : pc' = [pc EXCEPT ![n] = l]
  BY DEF Read, Collect, GoTo, Idle
<1>2. pc[n] = "read" /\ UNCHANGED <<closing, toOpen, opened, pending>>
  BY DEF Read, writing
<1>3. pc[n] \in Idle /\ pc'[n] \in Idle
  BY <1>1, <1>2 DEF TInv, TypeOK, Idle
<1> QED
  BY <1>2, <1>3, StillIdle

(* Only a distributor without children exits here. *)
LEMMA EnterOwn ==
  ASSUME TInv, NEW n \in Node, NodeOK(n), Enter(n)
  PROVE  NodeOK(n)'
<1>1. pc[n] = "enter" /\ UNCHANGED <<closing, toOpen, pending>>
  BY DEF Enter
<1>2. CASE Kind[n] = "distro" /\ Outputs[n] = <<>>
  <2>1. pc'[n] = "exited" /\ opened'[n] = {}
    BY <1>2 DEF TInv, TypeOK, Enter, Exit, GoTo
  <2>2. Out(n) = {}
    BY <1>2 DEF Out, Edge
  <2> QED
    BY <1>1, <2>1, <2>2 DEF NodeOK, OwnOutputs, LastWord, Told, Idle
<1>3. CASE ~(Kind[n] = "distro" /\ Outputs[n] = <<>>)
  <2>1. pc'[n] \in Idle /\ opened' = opened
    BY <1>3 DEF TInv, TypeOK, Enter, GoTo, Idle
  <2> QED
    BY <1>1, <2>1, StillIdle DEF Idle
<1> QED
  BY <1>2, <1>3

LEMMA TargetsOut ==
  ASSUME TInv, NEW n \in Node, Kind[n] = "distro" => Outputs[n] # <<>>
  PROVE  \A i \in 1..Len(Targets(n)) : Targets(n)[i] \in Out(n)
<1>1. CASE Kind[n] = "distro"
  <2>1. next[n] \in 1..Len(OutList(n))
    BY <1>1, OutListType DEF TInv, DistroOK
  <2> QED
    BY <1>1, <2>1, OutEdge DEF Targets
<1>2. CASE Kind[n] # "distro"
  BY <1>2, OutEdge DEF Targets
<1> QED
  BY <1>1, <1>2

LEMMA RunOwn ==
  ASSUME TInv, NEW n \in Node, NodeOK(n), Run(n)
  PROVE  NodeOK(n)'
<1>1. /\ pc[n] = "work" /\ UNCHANGED <<closing, opened, pending>>
      /\ \/ UNCHANGED <<toOpen, pc>>
         \/ toOpen' = [toOpen EXCEPT ![n] = Targets(n)] /\ pc' = [pc EXCEPT ![n] = "open"]
  BY DEF Run, At, GoTo
<1>2. CASE UNCHANGED <<toOpen, pc>>
  BY <1>1, <1>2, StillIdle DEF Idle
<1>3. CASE toOpen' = [toOpen EXCEPT ![n] = Targets(n)] /\ pc' = [pc EXCEPT ![n] = "open"]
  <2>1. toOpen'[n] = Targets(n) /\ pc'[n] = "open"
    BY <1>3 DEF TInv, TypeOK
  <2>2. \A i \in 1..Len(Targets(n)) : Targets(n)[i] \in Out(n)
    BY <1>1, TargetsOut DEF TInv, DistroOK
  <2>3. opened[n] = {} /\ ~closing[n]
    BY <1>1 DEF NodeOK, OwnOutputs, LastWord, Idle
  <2> QED
    BY <1>1, <2>1, <2>2, <2>3 DEF NodeOK, OwnOutputs, LastWord, Told
<1> QED
  BY <1>1, <1>2, <1>3

(* Closing begins with all the outputs still to be opened. *)
LEMMA SendEofOwn ==
  ASSUME TInv, NEW n \in Node, NodeOK(n), SendEof(n)
  PROVE  NodeOK(n)'
<1>1. /\ pc[n] = "end" /\ pc'[n] = "open"
      /\ outq'[n] = <<<<EOF>>>> /\ toOpen'[n] = OutList(n)
      /\ UNCHANGED <<opened, pending>>
  BY DEF TInv, TypeOK, SendEof, GoTo
<1>2. opened[n] = {}
  BY <1>1 DEF NodeOK, OwnOutputs, Idle
<1>3. OwnOutputs(n)'
  BY <1>1, <1>2, OutEdge DEF NodeOK, OwnOutputs, Idle
<1>4. LastWord(n)'
  BY <1>1 DEF LastWord, Idle
<1>5. Told(n)'
  BY <1>1, OutEdge DEF Told, OnItsWay, ToOpen
<1> QED
  BY <1>3, <1>4, <1>5 DEF NodeOK

LEMMA OpenOwn ==
  ASSUME TInv, NEW n \in Node, NodeOK(n), Open(n)
  PROVE  NodeOK(n)'
<1> DEFINE h   == Head(toOpen[n])
           fds == opened[n] \cup {h}
<1>1. /\ pc[n] = "open" /\ toOpen[n] # <<>> /\ toOpen[n] \in Seq(Edge)
      /\ opened'[n] = fds /\ toOpen'[n] = Tail(toOpen[n])
      /\ UNCHANGED <<closing, ready, sent>>
  BY DEF TInv, TypeOK, Open, history
<1>2. h \in Out(n) /\ fds \subseteq Out(n) /\ h = toOpen[n][1]
  BY <1>1 DEF NodeOK, OwnOutputs
<1>3. /\ Len(Tail(toOpen[n])) = Len(toOpen[n]) - 1
      /\ \A i \in 1..Len(Tail(toOpen[n])) : Tail(toOpen[n])[i] = toOpen[n][i + 1]
  BY <1>1
<1>4. \A i \in 1..Len(Tail(toOpen[n])) : Tail(toOpen[n])[i] \in Out(n)
  BY <1>1, <1>3 DEF NodeOK, OwnOutputs
<1>5. ASSUME NEW e \in Out(n), closing[n]
      PROVE  e \in fds \/ \E i \in 1..Len(Tail(toOpen[n])) : Tail(toOpen[n])[i] = e
  <2>1. e \in opened[n] \/ \E i \in 1..Len(toOpen[n]) : toOpen[n][i] = e
    BY <1>1, <1>5 DEF NodeOK, Told, OnItsWay, ToOpen
  <2>2. ASSUME NEW i \in 1..Len(toOpen[n]), toOpen[n][i] = e, i # 1
        PROVE  i - 1 \in 1..Len(Tail(toOpen[n])) /\ Tail(toOpen[n])[i - 1] = e
    BY <1>1, <1>3, <2>2
  <2> QED
    BY <1>2, <2>1, <2>2
<1>6. CASE Len(toOpen[n]) = 1
  <2>1. StartWrite(n, fds) /\ fds # {}
    BY <1>6 DEF Open
  <2>2. CASE outq[n] = <<>>
    <3>1. pc'[n] = "wrote" /\ pending' = pending
      BY <2>1, <2>2 DEF TInv, TypeOK, StartWrite, GoTo
    <3>2. ~closing[n]
      BY <1>1, <2>2 DEF NodeOK, LastWord
    <3> HIDE DEF fds
    <3> QED
      BY <1>1, <1>2, <1>4, <3>1, <3>2 DEF NodeOK, OwnOutputs, LastWord, Told, Idle
  <2>3. CASE outq[n] # <<>>
    <3>1. pc'[n] = "pollout" /\ pending'[n] = fds /\ outq' = outq
      BY <2>1, <2>3 DEF TInv, TypeOK, StartWrite, GoTo
    <3>2. ASSUME NEW e \in Out(n), closing[n] PROVE e \in fds
      BY <1>3, <1>5, <1>6, <3>2
    <3> HIDE DEF fds
    <3>3. OwnOutputs(n)'
      BY <1>1, <1>2, <1>4, <3>1 DEF OwnOutputs, Idle
    <3>4. LastWord(n)'
      BY <1>1, <3>1 DEF NodeOK, LastWord, Idle
    <3>5. Told(n)'
      BY <1>1, <3>1, <3>2 DEF Told, OnItsWay
    <3> QED
      BY <3>3, <3>4, <3>5 DEF NodeOK
  <2> QED
    BY <2>2, <2>3
<1>7. CASE Len(toOpen[n]) # 1
  <2>1. UNCHANGED <<pc, outq, pending>>
    BY <1>7 DEF Open
  <2>2. Tail(toOpen[n]) # <<>>
    <3>1. \A t \in Seq(Edge) : Len(t) # 0 => t # <<>>
      OBVIOUS
    <3>2. Tail(toOpen[n]) \in Seq(Edge) /\ Len(Tail(toOpen[n])) # 0
      BY <1>1, <1>3, <1>7
    <3> QED
      BY <3>1, <3>2
  <2> HIDE DEF fds
  <2>3. OwnOutputs(n)'
    BY <1>1, <1>2, <1>4, <2>1, <2>2 DEF NodeOK, OwnOutputs, Idle
  <2>4. LastWord(n)'
    BY <1>1, <2>1 DEF NodeOK, LastWord
  <2>5. Told(n)'
    BY <1>1, <1>5, <2>1 DEF Told, OnItsWay, ToOpen
  <2> QED
    BY <2>3, <2>4, <2>5 DEF NodeOK
<1> QED
  BY <1>6, <1>7

(* With nothing to open there are no children to tell. *)
LEMMA OpenNoneOwn ==
  ASSUME TInv, NEW n \in Node, NodeOK(n), OpenNone(n)
  PROVE  NodeOK(n)'
<1>1. /\ pc[n] = "open" /\ pc'[n] = "wrote" /\ toOpen[n] = <<>>
      /\ UNCHANGED <<closing, toOpen, opened, pending, ready, sent>>
  BY DEF TInv, TypeOK, OpenNone, StartWrite, GoTo, history
<1>2. opened[n] = {} /\ ~ \E i \in 1..Len(toOpen[n]) : TRUE
  BY <1>1 DEF NodeOK, OwnOutputs
<1>3. closing[n] => Out(n) = {}
  BY <1>1, <1>2 DEF NodeOK, Told, OnItsWay, ToOpen
<1>4. OwnOutputs(n)'
  BY <1>1, <1>2 DEF NodeOK, OwnOutputs, Idle
<1>5. LastWord(n)' /\ Told(n)'
  BY <1>1, <1>3 DEF LastWord, Told, Idle
<1> QED
  BY <1>4, <1>5 DEF NodeOK

LEMMA PollOutOwn ==
  ASSUME TInv, NEW n \in Node, NodeOK(n), PollOut(n)
  PROVE  NodeOK(n)'
<1>1. /\ pc[n] = "pollout" /\ pc'[n] = "write" /\ ready'[n] \subseteq opened[n]
      /\ UNCHANGED <<closing, outq, toOpen, opened, pending, sent>>
  BY DEF TInv, TypeOK, PollOut, GoTo, writing, history
<1>2. OwnOutputs(n)'
  BY <1>1 DEF NodeOK, OwnOutputs, Idle
<1>3. LastWord(n)'
  BY <1>1 DEF NodeOK, LastWord, Idle
<1>4. Told(n)'
  BY <1>1 DEF NodeOK, Told, OnItsWay, EndsWithEof
<1> QED
  BY <1>2, <1>3, <1>4 DEF NodeOK

(* The pipe just written ends with "EOF", the others are as they were. *)
LEMMA WriteOwn ==
  ASSUME TInv, NEW n \in Node, NodeOK(n), Write(n)
  PROVE  NodeOK(n)'
<1>1. PICK e \in ready[n] :
        /\ sent' = [sent EXCEPT ![e] = @ \o Head(outq[n])]
        /\ ready' = [ready EXCEPT ![n] = @ \ {e}]
        /\ \/ /\ pending' = [pending EXCEPT ![n] = @ \ {e}]
              /\ UNCHANGED outq
              /\ pc' = pc \/ pc' = [pc EXCEPT ![n] = "pollout"]
           \/ /\ pending[n] \ {e} = {}
              /\ outq' = [outq EXCEPT ![n] = Tail(@)]
              /\ \/ /\ Len(outq[n]) > 1
                    /\ pending' = [pending EXCEPT ![n] = opened[n]]
                    /\ pc' = [pc EXCEPT ![n] = "pollout"]
                 \/ pending' = [pending EXCEPT ![n] = {}] /\ pc' = [pc EXCEPT ![n] = "wrote"]
  BY DEF Write, GoTo
<1>2. pc[n] = "write" /\ UNCHANGED <<closing, toOpen, opened>>
  BY DEF Write
<1>3. e \in Out(n) /\ ready[n] \subseteq Out(n) /\ opened[n] \subseteq Out(n) /\ pending[n] \subseteq Out(n)
  BY <1>2 DEF NodeOK, OwnOutputs
<1>4. pc'[n] \in {"write", "pollout", "wrote"}
  BY <1>1, <1>2 DEF TInv, TypeOK
<1>5. ready'[n] = ready[n] \ {e} /\ pending'[n] \subseteq Out(n)
  BY <1>1, <1>3 DEF TInv, TypeOK
<1>6. OwnOutputs(n)'
  BY <1>2, <1>3, <1>4, <1>5 DEF NodeOK, OwnOutputs, Idle
<1>7. CASE ~closing[n]
  BY <1>2, <1>4, <1>6, <1>7 DEF NodeOK, LastWord, Told
<1>8. CASE closing[n]
  <2>1. outq[n] = <<<<EOF>>>> /\ Len(outq[n]) = 1 /\ Head(outq[n]) = <<EOF>>
    BY <1>2, <1>8 DEF NodeOK, LastWord
  <2>2. sent[e] \in Seq(Line) /\ sent'[e] = sent[e] \o <<EOF>>
    BY <1>1, <1>3, <2>1, OutSubset DEF TInv, TypeOK
  <2>3. EndsWithEof(sent'[e])
    BY <2>2, AppendEof
  <2>4. ASSUME NEW f \in Out(n) PROVE f \in pending[n] \ {e} \/ EndsWithEof(sent'[f])
    <3>1. CASE f = e
      BY <2>3, <3>1
    <3>2. CASE f # e
      <4>1. sent'[f] = sent[f]
        BY <1>1, <3>2, OutSubset DEF TInv, TypeOK
      <4>2. f \in pending[n] \/ EndsWithEof(sent[f])
        BY <1>2, <1>8 DEF NodeOK, Told, OnItsWay
      <4> QED
        BY <3>2, <4>1, <4>2
    <3> QED
      BY <3>1, <3>2
  <2>5. CASE UNCHANGED outq /\ pending' = [pending EXCEPT ![n] = @ \ {e}]
             /\ (pc' = pc \/ pc' = [pc EXCEPT ![n] = "pollout"])
    <3>1. pc'[n] \in {"write", "pollout"} /\ pending'[n] = pending[n] \ {e}
      BY <1>2, <2>5 DEF TInv, TypeOK
    <3>2. Told(n)'
      BY <2>4, <3>1 DEF Told, OnItsWay
    <3>3. LastWord(n)'
      BY <2>1, <2>5, <3>1 DEF LastWord, Idle
    <3> QED
      BY <1>6, <3>2, <3>3 DEF NodeOK
  <2>6. CASE pending[n] \ {e} = {} /\ pc' = [pc EXCEPT ![n] = "wrote"]
    <3>1. pc'[n] = "wrote"
      BY <2>6 DEF TInv, TypeOK
    <3>2. Told(n)'
      BY <2>4, <2>6, <3>1 DEF Told, OnItsWay
    <3>3. LastWord(n)'
      BY <3>1 DEF LastWord, Idle
    <3> QED
      BY <1>6, <3>2, <3>3 DEF NodeOK
  <2>7. ~(Len(outq[n]) > 1)
    BY <2>1
  <2> QED
    BY <1>1, <2>5, <2>6, <2>7
<1> QED
  BY <1>7, <1>8

LEMMA BrokenPipeOwn ==
  ASSUME TInv, NEW n \in Node, NodeOK(n), BrokenPipe(n)
  PROVE  NodeOK(n)'
<1>1. /\ pc'[n] = "killed" /\ opened'[n] = {}
      /\ UNCHANGED <<closing, outq, toOpen, pending, ready>>
  BY DEF TInv, TypeOK, BrokenPipe, GoTo
<1> QED
  BY <1>1 DEF NodeOK, OwnOutputs, LastWord, Told, OnItsWay, Idle

(* The exit: all pipes have been written. *)
LEMMA CloseOutputsOwn ==
  ASSUME TInv, NEW n \in Node, NodeOK(n), CloseOutputs(n)
  PROVE  NodeOK(n)'
<1>1. /\ pc[n] = "wrote" /\ opened'[n] = {}
      /\ UNCHANGED <<closing, pending, ready, sent>>
  BY DEF TInv, TypeOK, CloseOutputs, Exit, history
<1>2. CASE closing[n]
  <2>1. pc'[n] = "exited" /\ toOpen' = toOpen
    BY <1>2 DEF TInv, TypeOK, CloseOutputs, Exit, GoTo
  <2>2. \A e \in Out(n) : EndsWithEof(sent[e])
    BY <1>1, <1>2 DEF NodeOK, Told, OnItsWay
  <2>3. OwnOutputs(n)'
    BY <1>1, <2>1 DEF NodeOK, OwnOutputs
  <2>4. Told(n)'
    BY <1>1, <2>1, <2>2 DEF Told, OnItsWay
  <2> QED
    BY <2>1, <2>3, <2>4 DEF NodeOK, LastWord, Idle
<1>3. CASE ~closing[n]
  <2>1. \/ pc'[n] = "work" /\ toOpen'[n] = toOpen[n]
        \/ pc'[n] = "open" /\ toOpen'[n] = Targets(n)
    BY <1>3 DEF TInv, TypeOK, CloseOutputs, GoTo
  <2>2. \A i \in 1..Len(Targets(n)) : Targets(n)[i] \in Out(n)
    BY <1>1, TargetsOut DEF TInv, DistroOK
  <2>3. OwnOutputs(n)'
    BY <1>1, <2>1, <2>2 DEF NodeOK, OwnOutputs
  <2> QED
    BY <1>1, <1>3, <2>1, <2>3 DEF NodeOK, LastWord, Told
<1> QED
  BY <1>2, <1>3

-----------------------------------------------------------------------------
LEMMA InitEof == Init => EofInv
<1> SUFFICES ASSUME Init PROVE EofInv
  OBVIOUS
<1>1. TInv
  BY InitTInv
<1>2. ASSUME NEW n \in Node PROVE NodeOK(n)
  <2>1. pc[n] = "begin" /\ opened[n] = {} /\ pending[n] = {} /\ toOpen[n] = <<>> /\ ~closing[n]
    BY DEF Init
  <2> QED
    BY <2>1 DEF NodeOK, OwnOutputs, LastWord, Told
<1> QED
  BY <1>1, <1>2 DEF EofInv

LEMMA NextEof == EofInv /\ [Next]_vars => EofInv'
<1> SUFFICES ASSUME EofInv, [Next]_vars PROVE EofInv'
  OBVIOUS
<1>1. TInv /\ TInv'
  BY NextT DEF EofInv
<1>2. CASE UNCHANGED vars
  <2>1. ASSUME NEW m \in Node PROVE NodeOK(m)'
    BY <1>2, Unmoved DEF EofInv, vars, ctl, writing, history
  <2> QED
    BY <1>1, <2>1 DEF EofInv
<1>3. ASSUME NEW n \in Node, Step(n) PROVE EofInv'
  <2>1. NodeOK(n)'
    BY <1>1, <1>3, IdleOwn, ReadOwn, EnterOwn, RunOwn, SendEofOwn, OpenOwn, OpenNoneOwn,
       PollOutOwn, WriteOwn, BrokenPipeOwn, CloseOutputsOwn DEF EofInv, Step
  <2>2. ASSUME NEW m \in Node, m # n PROVE NodeOK(m)'
    <3>1. Elsewhere(m)
      BY <1>1, <1>3, <2>2, Others DEF EofInv, NodeOK
    <3> QED
      BY <3>1, Unmoved DEF EofInv, Elsewhere
  <2> QED
    BY <1>1, <2>1, <2>2 DEF EofInv
<1> QED
  BY <1>2, <1>3 DEF Next, Done

(* A process that exits, even after a failure, has sent "EOF" to all its
   children (the end of every Execute): whatever the graph, the input, the
   size of the pipes and the interleaving.                                  *)
THEOREM ExitsAfterEof == Spec => []EofBeforeExit
<1>1. EofInv => EofBeforeExit
  BY DEF EofInv, NodeOK, Told, EofBeforeExit
<1> QED
  BY <1>1, InitEof, NextEof, PTL DEF Spec

-----------------------------------------------------------------------------
(***************************************************************************)
(* A stream is over once "EOF" has been written, and a node that leaves    *)
(* its loop in good order has had the "EOF"s of all its parents.  The      *)
(* first needs no more than that the data is not "EOF" itself; the second  *)
(* that no batch node has several parents, for ReadInputs counts what such *)
(* a node has kept anew with every call.                                   *)
(***************************************************************************)

(* No line of the user's data reads "EOF": not the graph's input, and not
   what commands, filters and lists of files write for other lines.         *)
PlainData ==
  /\ NoEof(Args)
  /\ \A n \in Node : \A l \in Line \ {EOF} :
       \A i \in 1..Len(Table[n][l]) : NoEof(Table[n][l][i])

(* What a node has in hand: an "EOF" stands alone, and what it will write
   before it is closing has none.                                           *)
ContentOK(n) ==
  /\ \A i \in 1..Len(inputs[n]) : inputs[n][i] = <<EOF>> \/ NoEof(inputs[n][i])
  /\ PlainData /\ Root(n) /\ Kind[n] # "command" =>
       \A i \in 1..Len(inputs[n]) : NoEof(inputs[n][i])
  /\ Root(n) => pc[n] \notin {"poll", "read"}
  /\ pc[n] = "join" => Kind[n] = "command"
  /\ PlainData /\ ~closing[n] => \A i \in 1..Len(outq[n]) : NoEof(outq[n][i])

ContentInv == EofInv /\ \A n \in Node : ContentOK(n)

(* Whether "EOF" may still be written to e, an output of n. *)
Unended(n, e) ==
  \/ ~closing[n]
  \/ pc[n] = "open"
  \/ pc[n] \in {"pollout", "write"} /\ e \in pending[n]

StreamOK(n) ==
  /\ \A e \in opened[n] : pc[e[2]] # "begin"
  /\ pc[n] = "write" => \A e \in ready[n] : e \in opened[n] /\ (readers[e] => e \in pending[n])
  /\ \A e \in Out(n) : OneEof(sent[e]) /\ (Unended(n, e) => NoEof(sent[e]))

Opened(e) == readers[e] => pc[e[2]] # "begin"

StreamInv ==
  /\ ContentInv
  /\ \A n \in Node : StreamOK(n)
  /\ \A e \in Edge : Opened(e)

(* The streams that node n has read to their end. *)
Drained(n) == {e \in In(n) : fifo[e] = <<>> /\ EndsWithEof(sent[e])}

FifoOK(e) ==
  /\ NoEof(sent[e]) => NoEof(fifo[e])
  /\ EndsWithEof(sent[e]) /\ fifo[e] # <<>> => EndsWithEof(fifo[e]) /\ OneEof(fifo[e])

CountOK(n) ==
  /\ eofs[n] + EofsIn(AsStrings(buf[n])) = Cardinality(Drained(n))
  /\ pc[n] # "read" => buf[n] = <<>>
  /\ pc[n] = "read" => \A e \in ready[n] : e \in In(n) /\ fifo[e] # <<>>
  /\ pc[n] \in {"begin", "poll", "read"} => \A i \in 1..Len(inputs[n]) : inputs[n][i] # <<EOF>>
  /\ (pc[n] = "end" \/ closing[n]) /\ stat[n] /\ ~Root(n) => eofs[n] = NIn(n)

CountInv == StreamInv /\ (\A n \in Node : CountOK(n)) /\ \A e \in Edge : FifoOK(e)

OneParent == \A n \in Batch : NIn(n) <= 1

-----------------------------------------------------------------------------
(* Lines and strings without "EOF". *)

LEMMA ArgsPlain ==
  ASSUME PlainData
  PROVE  \A i \in 1..Len(AsStrings(Args)) : NoEof(AsStrings(Args)[i])
<1>1. Args \in Seq(Line) /\ NoEof(Args)
  BY DataAssumption DEF PlainData
<1>2. Len(AsStrings(Args)) = Len(Args) /\ \A i \in 1..Len(Args) : AsStrings(Args)[i] = <<Args[i]>>
  BY <1>1 DEF AsStrings
<1>3. ASSUME NEW i \in 1..Len(Args) PROVE NoEof(<<Args[i]>>)
  BY <1>1 DEF NoEof
<1> QED
  BY <1>2, <1>3

(* What comes out of a node has no "EOF" if what went in had none. *)
LEMMA ResultPlain ==
  ASSUME PlainData, NEW n \in Node, NEW s \in String, NoEof(s)
  PROVE  \A i \in 1..Len(Result(n, s)) : NoEof(Result(n, s)[i])
<1>1. s[1] \in Line \ {EOF}
  BY StringType DEF NoEof
<1>2. \A i \in 1..Len(Table[n][s[1]]) : NoEof(Table[n][s[1]][i])
  BY <1>1 DEF PlainData
<1>3. \A i \in 1..Len(<<s>>) : NoEof(<<s>>[i])
  OBVIOUS
<1> QED
  BY <1>2, <1>3 DEF Result

-----------------------------------------------------------------------------
(* What a step of node n leaves alone in another node m. *)

Untouched(m) ==
  /\ inputs'[m] = inputs[m] /\ buf'[m] = buf[m] /\ eofs'[m] = eofs[m]
  /\ called'[m] = called[m] /\ stat'[m] = stat[m]

LEMMA CollectElsewhere ==
  ASSUME TypeOK, NEW n \in Node, NEW new, Collect(n, new), NEW m \in Node, m # n
  PROVE  inputs'[m] = inputs[m] /\ buf'[m] = buf[m] /\ eofs'[m] = eofs[m]
<1>1. \E S, T, U : /\ inputs' = [inputs EXCEPT ![n] = S]
                   /\ buf' = [buf EXCEPT ![n] = T]
                   /\ eofs' = [eofs EXCEPT ![n] = U]
  BY DEF Collect
<1> QED
  BY <1>1 DEF TypeOK

LEMMA InputsElsewhere ==
  ASSUME TypeOK, NEW n \in Node, Step(n), NEW m \in Node, m # n
  PROVE  Untouched(m)
<1> USE DEF TypeOK, Untouched
<1>1. CASE Begin(n)
  BY <1>1 DEF Begin
<1>2. CASE Poll(n)
  BY <1>2 DEF Poll, reading
<1>3. CASE Join(n)
  <2>1. \E S : inputs' = [inputs EXCEPT ![n] = S]
    BY <1>3 DEF Join
  <2>2. UNCHANGED <<called, stat, buf, eofs>>
    BY <1>3 DEF Join
  <2> QED
    BY <2>1, <2>2
<1>4. CASE Enter(n)
  <2>1. UNCHANGED <<inputs, buf, eofs>> /\ called' = [called EXCEPT ![n] = TRUE]
    BY <1>4 DEF Enter, reading
  <2>2. stat' = stat \/ stat' = [stat EXCEPT ![n] = n \notin BadRegex]
    BY <1>4 DEF Enter
  <2> QED
    BY <2>1, <2>2
<1>5. CASE Fail(n)
  BY <1>5 DEF Fail, reading
<1>6. CASE LoopEnd(n)
  BY <1>6 DEF LoopEnd
<1>7. CASE SendEof(n)
  BY <1>7 DEF SendEof, reading
<1>8. CASE PollOut(n)
  BY <1>8 DEF PollOut, reading
<1>9. CASE BrokenPipe(n)
  BY <1>9 DEF BrokenPipe, reading
<1>10. CASE CloseOutputs(n)
  BY <1>10 DEF CloseOutputs, reading
<1>11. CASE Read(n)
  <2>1. UNCHANGED <<called, stat>>
    BY <1>11 DEF Read
  <2>2. PICK e \in ready[n] :
          IF ready[n] = {e}
            THEN Collect(n, buf[n] \o fifo[e])
            ELSE buf' = [buf EXCEPT ![n] = @ \o fifo[e]] /\ UNCHANGED <<inputs, eofs>>
    BY <1>11 DEF Read
  <2> QED
    BY <2>1, <2>2, CollectElsewhere
<1>12. CASE Timeout(n)
  <2>1. Collect(n, <<>>) /\ UNCHANGED <<called, stat>>
    BY <1>12 DEF Timeout
  <2> QED
    BY <2>1, CollectElsewhere
<1>13. CASE Run(n)
  <2>1. \E S : inputs' = [inputs EXCEPT ![n] = S]
    BY <1>13 DEF Run
  <2>2. UNCHANGED <<called, stat, buf, eofs>>
    BY <1>13 DEF Run
  <2> QED
    BY <2>1, <2>2
<1>14. CASE Open(n) \/ OpenNone(n) \/ Write(n)
  BY <1>14 DEF Open, OpenNone, Write, reading
<1> QED
  BY <1>1, <1>2, <1>3, <1>4, <1>5, <1>6, <1>7, <1>8, <1>9, <1>10, <1>11, <1>12, <1>13, <1>14 DEF Step

(* A node begins once, and only then opens its inputs. *)
LEMMA BeginsOnce ==
  ASSUME TypeOK, NEW n \in Node, Step(n)
  PROVE  /\ pc'[n] # "begin"
         /\ \A e \in Edge : readers'[e] /\ ~readers[e] => e[2] = n /\ pc[n] = "begin"
<1> USE DEF TypeOK, GoTo
<1>1. CASE Begin(n)
  BY <1>1 DEF Begin, In
<1>2. CASE Poll(n) \/ Join(n) \/ Fail(n) \/ LoopEnd(n)
  BY <1>2 DEF Poll, Join, Fail, LoopEnd, pipes
<1>3. CASE Read(n)
  BY <1>3 DEF Read, Collect
<1>4. CASE Timeout(n)
  BY <1>4 DEF Timeout, Collect, pipes
<1>5. CASE Enter(n)
  BY <1>5 DEF Enter, Exit, CloseReads
<1>6. CASE Run(n)
  BY <1>6 DEF Run, At, pipes
<1>7. CASE SendEof(n)
  BY <1>7 DEF SendEof, CloseReads
<1>8. CASE Open(n) \/ OpenNone(n)
  BY <1>8 DEF Open, OpenNone, StartWrite, pipes
<1>9. CASE PollOut(n)
  BY <1>9 DEF PollOut, pipes
<1>10. CASE Write(n)
  BY <1>10 DEF Write
<1>11. CASE BrokenPipe(n) \/ CloseOutputs(n)
  BY <1>11 DEF BrokenPipe, CloseOutputs, Exit, CloseReads
<1> QED
  BY <1>1, <1>2, <1>3, <1>4, <1>5, <1>6, <1>7, <1>8, <1>9, <1>10, <1>11 DEF Step

-----------------------------------------------------------------------------
(* What a node has in hand. *)

LEMMA ContentUnmoved ==
  ASSUME NEW m \in Node, ContentOK(m),
         pc'[m] = pc[m], closing'[m] = closing[m], outq'[m] = outq[m], inputs'[m] = inputs[m]
  PROVE  ContentOK(m)'
BY DEF ContentOK, Root, In

LEMMA CollectContent ==
  ASSUME TInv, NEW n \in Node, ContentOK(n), NEW new \in Seq(Line), Collect(n, new),
         pc[n] \in {"poll", "read"}, UNCHANGED <<closing, outq>>
  PROVE  ContentOK(n)'
<1> DEFINE strs == AsStrings(new) \o inputs[n]
<1>1. ~Root(n)
  BY DEF ContentOK
<1>2. AsStrings(new) \in Seq(String) /\ inputs[n] \in Seq(String)
  BY AsStringsType DEF TInv, TypeOK
<1>3. inputs'[n] = strs
  BY DEF Collect, TInv, TypeOK
<1>4. \A i \in 1..Len(AsStrings(new)) : AsStrings(new)[i] = <<EOF>> \/ NoEof(AsStrings(new)[i])
  BY SplitPlain
<1>5. \A i \in 1..Len(inputs[n]) : inputs[n][i] = <<EOF>> \/ NoEof(inputs[n][i])
  BY DEF ContentOK
<1>6. \A i \in 1..Len(strs) : strs[i] = <<EOF>> \/ NoEof(strs[i])
  <2>1. ASSUME NEW i \in 1..Len(strs)
        PROVE  \/ i \in 1..Len(AsStrings(new)) /\ strs[i] = AsStrings(new)[i]
               \/ i - Len(AsStrings(new)) \in 1..Len(inputs[n])
                    /\ strs[i] = inputs[n][i - Len(AsStrings(new))]
    BY <1>2, <2>1
  <2> HIDE DEF strs
  <2> QED
    BY <1>4, <1>5, <2>1
<1>7. pc'[n] = "join" => n \in Batch
  BY DEF Collect, GoTo, TInv, TypeOK
<1>8. n \in Batch => Kind[n] = "command"
  BY GraphAssumption
<1> HIDE DEF strs
<1> QED
  BY <1>1, <1>3, <1>6, <1>7, <1>8 DEF ContentOK, Root, In

LEMMA ReadContent ==
  ASSUME TInv, NEW n \in Node, ContentOK(n), Read(n)
  PROVE  ContentOK(n)'
<1>1. PICK e \in ready[n] :
        IF ready[n] = {e}
          THEN Collect(n, buf[n] \o fifo[e])
          ELSE UNCHANGED <<pc, inputs, eofs>>
  BY DEF Read
<1>2. pc[n] = "read" /\ UNCHANGED <<closing, outq>>
  BY DEF Read, writing
<1>3. buf[n] \o fifo[e] \in Seq(Line)
  BY DEF TInv, TypeOK
<1>4. CASE ready[n] = {e}
  BY <1>1, <1>2, <1>3, <1>4, CollectContent
<1>5. CASE ready[n] # {e}
  BY <1>1, <1>2, <1>5, ContentUnmoved
<1> QED
  BY <1>4, <1>5

LEMMA BeginContent ==
  ASSUME TInv, NEW n \in Node, ContentOK(n), Begin(n)
  PROVE  ContentOK(n)'
<1>1. UNCHANGED <<closing, outq>>
  BY DEF Begin, writing
<1>2. CASE Root(n)
  <2>1. inputs'[n] = AsStrings(Args) /\ pc'[n] = "enter"
    BY <1>2 DEF Begin, GoTo, TInv, TypeOK
  <2> QED
    BY <1>1, <2>1, ArgsPlain, SplitPlain, DataAssumption DEF ContentOK
<1>3. CASE ~Root(n)
  <2>1. inputs' = inputs /\ pc'[n] = "poll"
    BY <1>3 DEF Begin, GoTo, TInv, TypeOK
  <2> QED
    BY <1>1, <1>3, <2>1 DEF ContentOK, Root, In
<1> QED
  BY <1>2, <1>3

(* concat_inputs leaves no "EOF" but the one it adds. *)
LEMMA JoinContent ==
  ASSUME TInv, NEW n \in Node, ContentOK(n), Join(n)
  PROVE  ContentOK(n)'
<1> DEFINE strs == inputs[n]
           data == {i \in DOMAIN strs : strs[i] # <<EOF>>}
<1>1. PICK k \in 0..Len(strs) : \E p \in [1..k -> data] :
        inputs' = [inputs EXCEPT ![n] =
          IF k = 0 THEN <<<<EOF>>>> ELSE <<[j \in 1..k |-> strs[p[j]][1]], <<EOF>>>>]
  BY DEF Join
<1>2. PICK p \in [1..k -> data] :
        inputs' = [inputs EXCEPT ![n] =
          IF k = 0 THEN <<<<EOF>>>> ELSE <<[j \in 1..k |-> strs[p[j]][1]], <<EOF>>>>]
  BY <1>1
<1> DEFINE s == [j \in 1..k |-> strs[p[j]][1]]
<1>3. strs \in Seq(String)
  BY DEF TInv, TypeOK
<1>4. \A j \in 1..k : NoEof(strs[p[j]]) /\ strs[p[j]] \in String
  <2>1. \A j \in 1..k : p[j] \in 1..Len(strs) /\ strs[p[j]] # <<EOF>>
    BY <1>3
  <2>2. \A i \in 1..Len(strs) : strs[i] = <<EOF>> \/ NoEof(strs[i])
    BY DEF ContentOK
  <2>3. \A i \in 1..Len(strs) : strs[i] \in String
    BY <1>3
  <2> QED
    BY <2>1, <2>2, <2>3
<1>5. \A j \in 1..k : strs[p[j]][1] # EOF
  BY <1>4, StringType DEF NoEof
<1>6. Len(s) = k /\ \A j \in 1..k : s[j] # EOF
  BY <1>5
<1>7. NoEof(s)
  BY <1>6 DEF NoEof
<1>8. inputs'[n] = IF k = 0 THEN <<<<EOF>>>> ELSE <<s, <<EOF>>>>
  BY <1>2 DEF TInv, TypeOK
<1> HIDE DEF s
<1>9. \A i \in 1..Len(inputs'[n]) : inputs'[n][i] = <<EOF>> \/ NoEof(inputs'[n][i])
  BY <1>7, <1>8
<1>10. pc[n] = "join" /\ pc'[n] \in {"work", "enter"} /\ UNCHANGED <<closing, outq>>
  BY DEF Join, GoTo, TInv, TypeOK, writing
<1> QED
  BY <1>9, <1>10 DEF ContentOK, Root, In

LEMMA RunContent ==
  ASSUME TInv, NEW n \in Node, ContentOK(n), Run(n)
  PROVE  ContentOK(n)'
<1>1. PICK i \in DOMAIN inputs[n] :
        /\ At(n, i)
        /\ inputs' = [inputs EXCEPT ![n] = Rest(n, i)]
        /\ outq' = [outq EXCEPT ![n] = Result(n, inputs[n][i])]
  BY DEF Run
<1>2. pc[n] = "work" /\ pc'[n] \in {"work", "open"} /\ UNCHANGED closing
  BY DEF Run, At, GoTo, TInv, TypeOK
<1>3. inputs[n] \in Seq(String) /\ inputs[n][i] \in String /\ i \in 1..Len(inputs[n])
  BY DEF TInv, TypeOK
<1>4. PlainData => NoEof(inputs[n][i])
  BY <1>1, <1>3 DEF At, Skipped, ContentOK
<1>5. PlainData => \A j \in 1..Len(outq'[n]) : NoEof(outq'[n][j])
  <2>1. outq'[n] = Result(n, inputs[n][i])
    BY <1>1 DEF TInv, TypeOK
  <2> QED
    BY <1>3, <1>4, <2>1, ResultPlain
<1>6. /\ inputs'[n] = SubSeq(inputs[n], i + 1, Len(inputs[n]))
      /\ \A j \in 1..Len(inputs'[n]) : j + i \in 1..Len(inputs[n]) /\ inputs'[n][j] = inputs[n][j + i]
  <2>1. inputs'[n] = SubSeq(inputs[n], i + 1, Len(inputs[n]))
    BY <1>1 DEF TInv, TypeOK, Rest
  <2>2. \A s \in Seq(String) : \A k \in 1..Len(s) :
          /\ SubSeq(s, k + 1, Len(s)) \in Seq(String) /\ Len(SubSeq(s, k + 1, Len(s))) = Len(s) - k
          /\ \A j \in 1..(Len(s) - k) : j + k \in 1..Len(s) /\ SubSeq(s, k + 1, Len(s))[j] = s[j + k]
    <3> SUFFICES ASSUME NEW s \in Seq(String), NEW k \in 1..Len(s)
                 PROVE  /\ SubSeq(s, k + 1, Len(s)) \in Seq(String)
                        /\ Len(SubSeq(s, k + 1, Len(s))) = Len(s) - k
                        /\ \A j \in 1..(Len(s) - k) :
                             j + k \in 1..Len(s) /\ SubSeq(s, k + 1, Len(s))[j] = s[j + k]
      OBVIOUS
    <3> DEFINE m == Len(s)
    <3>1. m \in Nat /\ k \in 1..m /\ k + 1 <= m + 1
      OBVIOUS
    <3>2. SubSeq(s, k + 1, m) \in Seq(String) /\ Len(SubSeq(s, k + 1, m)) = m - k
      BY <3>1
    <3>3. \A j \in 1..(m - k) : j + k \in 1..m
      BY <3>1
    <3>4. \A j \in 1..(m - k) : SubSeq(s, k + 1, m)[j] = s[j + k]
      BY <3>1
    <3> QED
      BY <3>2, <3>3, <3>4
  <2>3. Len(SubSeq(inputs[n], i + 1, Len(inputs[n]))) = Len(inputs[n]) - i
    BY <1>3, <2>2
  <2>4. \A j \in 1..(Len(inputs[n]) - i) :
          j + i \in 1..Len(inputs[n]) /\ SubSeq(inputs[n], i + 1, Len(inputs[n]))[j] = inputs[n][j + i]
    BY <1>3, <2>2
  <2> QED
    BY <2>1, <2>3, <2>4
<1>7. \A j \in 1..Len(inputs'[n]) : inputs'[n][j] = <<EOF>> \/ NoEof(inputs'[n][j])
  BY <1>6 DEF ContentOK
<1>8. PlainData /\ Root(n) /\ Kind[n] # "command" => \A j \in 1..Len(inputs'[n]) : NoEof(inputs'[n][j])
  BY <1>6 DEF ContentOK
<1> QED
  BY <1>2, <1>5, <1>7, <1>8 DEF ContentOK, Root, In

LEMMA LoopContent ==
  ASSUME TInv, NEW n \in Node, ContentOK(n),
         Poll(n) \/ Enter(n) \/ Fail(n) \/ LoopEnd(n) \/ SendEof(n) \/ BrokenPipe(n) \/ CloseOutputs(n)
  PROVE  ContentOK(n)'
<1>1. CASE Poll(n)
  BY <1>1 DEF TInv, TypeOK, ContentOK, Root, In, Poll, GoTo, reading, writing
<1>2. CASE Enter(n)
  <2>1. pc'[n] \in {"exited", "end", "join", "work"} /\ (pc'[n] = "join" => n \in Batch)
    BY <1>2 DEF TInv, TypeOK, Enter, Exit, GoTo
  <2>2. UNCHANGED <<inputs, closing, outq>>
    BY <1>2 DEF Enter, reading
  <2>3. n \in Batch => Kind[n] = "command"
    BY GraphAssumption
  <2> QED
    BY <2>1, <2>2, <2>3 DEF ContentOK, Root, In
<1>3. CASE Fail(n)
  BY <1>3 DEF TInv, TypeOK, ContentOK, Root, In, Fail, GoTo, reading, writing
<1>4. CASE LoopEnd(n)
  <2>1. inputs'[n] = <<>> /\ pc'[n] \in {"end", "poll"} /\ (Root(n) => pc'[n] = "end")
        /\ UNCHANGED <<closing, outq>>
    BY <1>4 DEF TInv, TypeOK, LoopEnd, GoTo, writing
  <2> QED
    BY <2>1 DEF ContentOK, Root, In
<1>5. CASE SendEof(n)
  <2>1. inputs' = inputs /\ pc'[n] = "open" /\ closing'[n]
    BY <1>5 DEF TInv, TypeOK, SendEof, GoTo, reading
  <2> QED
    BY <2>1 DEF ContentOK, Root, In
<1>6. CASE BrokenPipe(n) \/ CloseOutputs(n)
  <2>1. pc'[n] \in {"killed", "exited", "work", "open"} /\ UNCHANGED <<inputs, closing, outq>>
    BY <1>6 DEF TInv, TypeOK, BrokenPipe, CloseOutputs, Exit, GoTo, reading
  <2> QED
    BY <2>1 DEF ContentOK, Root, In
<1> QED
  BY <1>1, <1>2, <1>3, <1>4, <1>5, <1>6

(* Writing only takes from what is to be written. *)
LEMMA WriteContent ==
  ASSUME TInv, NEW n \in Node, ContentOK(n),
         Open(n) \/ OpenNone(n) \/ PollOut(n) \/ Write(n)
  PROVE  ContentOK(n)'
<1>1. UNCHANGED <<inputs, closing>>
  BY DEF Open, OpenNone, PollOut, Write, reading
<1>2. pc'[n] \in {"open", "wrote", "pollout", "write"}
  <2> USE DEF TInv, TypeOK, GoTo
  <2>1. CASE Open(n) \/ OpenNone(n)
    BY <2>1 DEF Open, OpenNone, StartWrite
  <2>2. CASE PollOut(n)
    BY <2>2 DEF PollOut
  <2>3. CASE Write(n)
    BY <2>3 DEF Write
  <2> QED
    BY <2>1, <2>2, <2>3
<1>3. outq[n] \in Seq(String) /\ (Write(n) => outq[n] # <<>>)
  BY DEF TInv, TypeOK, OutqOK, Write
<1>4. outq'[n] = outq[n] \/ outq'[n] = <<>> \/ (Write(n) /\ outq'[n] = Tail(outq[n]))
  BY DEF TInv, TypeOK, Open, OpenNone, PollOut, Write, StartWrite, writing
<1>5. ASSUME Write(n), NEW i \in 1..Len(Tail(outq[n]))
      PROVE  i + 1 \in 1..Len(outq[n]) /\ Tail(outq[n])[i] = outq[n][i + 1]
  BY <1>3, <1>5
<1>6. ASSUME PlainData, ~closing[n] PROVE \A i \in 1..Len(outq'[n]) : NoEof(outq'[n][i])
  <2>1. \A i \in 1..Len(outq[n]) : NoEof(outq[n][i])
    BY <1>6 DEF ContentOK
  <2>2. CASE outq'[n] = outq[n] \/ outq'[n] = <<>>
    BY <2>1, <2>2
  <2>3. CASE Write(n) /\ outq'[n] = Tail(outq[n])
    BY <1>5, <2>1, <2>3
  <2> QED
    BY <1>4, <2>2, <2>3
<1> QED
  BY <1>1, <1>2, <1>6 DEF ContentOK, Root, In

-----------------------------------------------------------------------------
(* What a node has written. *)

LEMMA EdgeNodes == \A e \in Edge : e[1] \in Node /\ e[2] \in Node
BY DEF Edge

(* No process begins anew, and no pipe is opened again for reading. *)
Onward ==
  /\ \A k \in Node : pc[k] # "begin" => pc'[k] # "begin"
  /\ \A e \in Edge : readers'[e] /\ ~readers[e] => pc[e[2]] = "begin"

LEMMA StepOnward ==
  ASSUME EofInv, NEW n \in Node, Step(n)
  PROVE  /\ Onward
         /\ \A e \in Edge : Opened(e) => Opened(e)'
<1>1. TInv /\ TypeOK /\ OwnOutputs(n)
  BY DEF EofInv, TInv, NodeOK
<1>2. pc'[n] # "begin" /\ \A e \in Edge : readers'[e] /\ ~readers[e] => e[2] = n /\ pc[n] = "begin"
  BY <1>1, BeginsOnce
<1>3. \A k \in Node : k # n => pc'[k] = pc[k]
  BY <1>1, Others DEF Elsewhere
<1>4. \A k \in Node : pc[k] # "begin" => pc'[k] # "begin"
  BY <1>2, <1>3
<1>5. ASSUME NEW e \in Edge, Opened(e) PROVE Opened(e)'
  BY <1>2, <1>4, <1>5, EdgeNodes DEF Opened
<1> QED
  BY <1>2, <1>4, <1>5 DEF Onward

LEMMA StreamUnmoved ==
  ASSUME NEW m \in Node, StreamOK(m), OwnOutputs(m), Elsewhere(m), Onward
  PROVE  StreamOK(m)'
<1>1. \A e \in opened[m] : e \in Edge /\ e[2] \in Node /\ pc[e[2]] # "begin"
  BY EdgeNodes, OutSubset DEF OwnOutputs, StreamOK
<1>2. \A e \in opened'[m] : pc'[e[2]] # "begin"
  BY <1>1 DEF Elsewhere, Onward
<1>3. ASSUME pc'[m] = "write", NEW e \in ready'[m]
      PROVE  e \in opened'[m] /\ (readers'[e] => e \in pending'[m])
  <2>1. e \in opened[m] /\ (readers[e] => e \in pending[m])
    BY <1>3 DEF Elsewhere, StreamOK
  <2>2. readers'[e] => readers[e]
    BY <1>1, <2>1 DEF Onward
  <2> QED
    BY <2>1, <2>2 DEF Elsewhere
<1>4. ASSUME NEW e \in Out(m)
      PROVE  OneEof(sent'[e]) /\ (Unended(m, e)' => NoEof(sent'[e]))
  <2>1. OneEof(sent[e]) /\ (Unended(m, e) => NoEof(sent[e])) /\ sent'[e] = sent[e]
    BY <1>4 DEF Elsewhere, StreamOK
  <2>2. Unended(m, e)' => Unended(m, e)
    BY DEF Elsewhere, Unended
  <2> QED
    BY <2>1, <2>2
<1> QED
  BY <1>2, <1>3, <1>4 DEF StreamOK, OneEof, NoEof

(* Before it is closing, a node whose pipes are closed writes nothing. *)
LEMMA StreamIdle ==
  ASSUME NEW n \in Node, StreamOK(n), ~closing[n],
         opened'[n] = {}, pc'[n] # "write", sent' = sent
  PROVE  StreamOK(n)'
<1>1. \A e \in Out(n) : OneEof(sent'[e]) /\ NoEof(sent'[e])
  BY DEF StreamOK, Unended
<1> QED
  BY <1>1 DEF StreamOK, OneEof, NoEof

LEMMA LoopStream ==
  ASSUME EofInv, NEW n \in Node, StreamOK(n),
         \/ Begin(n) \/ Poll(n) \/ Read(n) \/ Timeout(n) \/ Join(n) \/ Enter(n)
         \/ Run(n) \/ Fail(n) \/ LoopEnd(n) \/ SendEof(n)
  PROVE  StreamOK(n)'
<1>1. pc[n] \in Idle
  BY DEF Begin, Poll, Read, Timeout, Join, Enter, Run, Fail, At, LoopEnd, SendEof, Idle
<1>2. ~closing[n] /\ opened[n] = {}
  BY <1>1 DEF EofInv, NodeOK, OwnOutputs, LastWord
<1>3. sent' = sent
  BY DEF Begin, Poll, Read, Timeout, Join, Enter, Run, Fail, LoopEnd, SendEof, history
<1>4. opened'[n] = {}
  BY <1>2 DEF Begin, Poll, Read, Timeout, Join, Enter, Exit, Run, Fail, LoopEnd, SendEof, writing,
              EofInv, TInv, TypeOK
<1>5. pc'[n] # "write"
  <2> USE <1>1 DEF EofInv, TInv, TypeOK, GoTo, Idle
  <2>1. CASE Begin(n) \/ Poll(n) \/ SendEof(n)
    BY <2>1 DEF Begin, Poll, SendEof
  <2>5. CASE Join(n)
    BY <2>5 DEF Join
  <2>6. CASE Fail(n) \/ LoopEnd(n)
    BY <2>6 DEF Fail, LoopEnd
  <2>7. ASSUME NEW new, Collect(n, new) PROVE pc'[n] # "write"
    BY <2>7 DEF Collect
  <2>2. CASE Read(n)
    BY <2>2, <2>7 DEF Read
  <2>8. CASE Timeout(n)
    BY <2>7, <2>8 DEF Timeout
  <2>3. CASE Enter(n)
    BY <2>3 DEF Enter, Exit
  <2>4. CASE Run(n)
    BY <2>4 DEF Run
  <2> QED
    BY <2>1, <2>2, <2>3, <2>4, <2>5, <2>6, <2>8
<1> QED
  BY <1>2, <1>3, <1>4, <1>5, StreamIdle

LEMMA OpenStream ==
  ASSUME EofInv, NEW n \in Node, StreamOK(n), Open(n), \A e \in Edge : Opened(e), Onward
  PROVE  StreamOK(n)'
<1> DEFINE h == Head(toOpen[n])
<1>1. /\ pc[n] = "open" /\ toOpen[n] # <<>> /\ toOpen[n] \in Seq(Edge) /\ readers[h]
      /\ opened'[n] = opened[n] \cup {h}
      /\ UNCHANGED <<closing, readers, sent>>
  BY DEF EofInv, TInv, TypeOK, Open, pipes, history
<1>2. h \in Edge /\ pc[h[2]] # "begin"
  BY <1>1 DEF Opened
<1>3. pc'[n] \in {"open", "wrote", "pollout"}
  BY <1>1 DEF Open, StartWrite, GoTo, EofInv, TInv, TypeOK
<1>4. \A e \in opened[n] : e \in Edge /\ pc[e[2]] # "begin"
  BY OutSubset DEF EofInv, NodeOK, OwnOutputs, StreamOK
<1> HIDE DEF h
<1>5. \A e \in opened'[n] : pc'[e[2]] # "begin"
  BY <1>1, <1>2, <1>4, EdgeNodes DEF Onward
<1>6. \A e \in Out(n) : OneEof(sent'[e]) /\ NoEof(sent'[e])
  BY <1>1 DEF StreamOK, Unended
<1> QED
  BY <1>3, <1>5, <1>6 DEF StreamOK, OneEof, NoEof

LEMMA OpenNoneStream ==
  ASSUME EofInv, NEW n \in Node, StreamOK(n), OpenNone(n)
  PROVE  StreamOK(n)'
<1>1. /\ pc[n] = "open" /\ toOpen[n] = <<>> /\ pc'[n] = "wrote"
      /\ UNCHANGED <<closing, opened, sent>>
  BY DEF EofInv, TInv, TypeOK, OpenNone, StartWrite, GoTo, history
<1>2. opened'[n] = {}
  BY <1>1 DEF EofInv, NodeOK, OwnOutputs
<1>3. \A e \in Out(n) : OneEof(sent'[e]) /\ NoEof(sent'[e])
  BY <1>1 DEF StreamOK, Unended
<1> QED
  BY <1>1, <1>2, <1>3 DEF StreamOK, OneEof, NoEof

LEMMA PollOutStream ==
  ASSUME EofInv, NEW n \in Node, StreamOK(n), PollOut(n), Onward
  PROVE  StreamOK(n)'
<1>1. /\ pc[n] = "pollout" /\ pc'[n] = "write"
      /\ \A e \in ready'[n] : e \in opened[n] /\ (~readers[e] \/ e \in pending[n])
      /\ UNCHANGED <<closing, readers, opened, pending, sent>>
  BY DEF EofInv, TInv, TypeOK, PollOut, GoTo, pipes, writing, history
<1>2. \A e \in opened[n] : e \in Edge /\ pc[e[2]] # "begin"
  BY OutSubset DEF EofInv, NodeOK, OwnOutputs, StreamOK
<1>3. \A e \in opened'[n] : pc'[e[2]] # "begin"
  BY <1>1, <1>2, EdgeNodes DEF Onward
<1>4. \A e \in ready'[n] : e \in opened'[n] /\ (readers'[e] => e \in pending'[n])
  BY <1>1
<1>5. ASSUME NEW e \in Out(n)
      PROVE  OneEof(sent'[e]) /\ (Unended(n, e)' => NoEof(sent'[e]))
  <2>1. Unended(n, e)' => Unended(n, e)
    BY <1>1 DEF Unended
  <2> QED
    BY <1>1, <2>1 DEF StreamOK
<1> QED
  BY <1>3, <1>4, <1>5 DEF StreamOK, OneEof, NoEof

(* The head of outq goes to a pipe that has had no "EOF" yet. *)
LEMMA WriteStream ==
  ASSUME PlainData, EofInv, NEW n \in Node, ContentOK(n), StreamOK(n), Write(n), Onward
  PROVE  StreamOK(n)'
<1>1. PICK e \in ready[n] :
        /\ readers[e]
        /\ sent' = [sent EXCEPT ![e] = @ \o Head(outq[n])]
        /\ ready' = [ready EXCEPT ![n] = @ \ {e}]
        /\ \/ /\ pending' = [pending EXCEPT ![n] = @ \ {e}]
              /\ pc' = pc \/ pc' = [pc EXCEPT ![n] = "pollout"]
           \/ /\ Len(outq[n]) > 1 /\ ready[n] = {e}
              /\ pc' = [pc EXCEPT ![n] = "pollout"]
           \/ ready[n] = {e} /\ pc' = [pc EXCEPT ![n] = "wrote"]
  BY DEF Write, GoTo
<1>2. pc[n] = "write" /\ UNCHANGED <<closing, readers, opened>>
  BY DEF Write
<1>3. e \in opened[n] /\ e \in pending[n] /\ e \in Out(n) /\ e \in Edge
  BY <1>1, <1>2, OutSubset DEF StreamOK, EofInv, NodeOK, OwnOutputs
<1>4. NoEof(sent[e]) /\ sent[e] \in Seq(Line)
  BY <1>2, <1>3 DEF StreamOK, Unended, EofInv, TInv, TypeOK
<1>5. outq[n] \in Seq(String) /\ outq[n] # <<>> /\ Head(outq[n]) \in Seq(Line)
  BY <1>2, StringType DEF EofInv, TInv, TypeOK, OutqOK
<1>6. sent'[e] = sent[e] \o Head(outq[n]) /\ \A f \in Edge : f # e => sent'[f] = sent[f]
  BY <1>1, <1>3 DEF EofInv, TInv, TypeOK
<1>7. /\ \A f \in opened'[n] : pc'[f[2]] # "begin"
  BY <1>2, EdgeNodes, OutSubset DEF Onward, EofInv, NodeOK, OwnOutputs, StreamOK
<1>8. ready'[n] = ready[n] \ {e} /\ pc'[n] \in {"write", "pollout", "wrote"}
  BY <1>1, <1>2 DEF EofInv, TInv, TypeOK
<1>9. ASSUME pc'[n] = "write", NEW f \in ready'[n]
      PROVE  f \in opened'[n] /\ (readers'[f] => f \in pending'[n])
  <2>1. f \in ready[n] /\ f # e
    BY <1>8, <1>9
  <2>2. pending'[n] = pending[n] \ {e}
    BY <1>1, <1>9 DEF EofInv, TInv, TypeOK
  <2>3. f \in opened[n] /\ (readers[f] => f \in pending[n])
    BY <1>2, <2>1 DEF StreamOK
  <2> QED
    BY <1>2, <2>1, <2>2, <2>3
<1>10. CASE ~closing[n]
  <2>1. NoEof(Head(outq[n]))
    BY <1>5, <1>10 DEF ContentOK
  <2>2. NoEof(sent'[e]) /\ sent'[e] \in Seq(Line)
    BY <1>4, <1>5, <1>6, <2>1, NoEofConcat
  <2>3. OneEof(sent'[e])
    BY <2>2, NoEofOneEof
  <2>4. \A f \in Out(n) : f # e => OneEof(sent'[f]) /\ NoEof(sent'[f])
    BY <1>6, <1>10, OutSubset DEF StreamOK, Unended
  <2>5. \A f \in Out(n) : OneEof(sent'[f]) /\ NoEof(sent'[f])
    BY <2>2, <2>3, <2>4
  <2> QED
    BY <1>7, <1>9, <2>5 DEF StreamOK, OneEof, NoEof
<1>11. CASE closing[n]
  <2>1. outq[n] = <<<<EOF>>>>
    BY <1>2, <1>11 DEF EofInv, NodeOK, LastWord
  <2>2. Head(outq[n]) = <<EOF>> /\ Len(outq[n]) = 1
    BY <2>1
  <2>3. OneEof(sent'[e])
    BY <1>4, <1>6, <2>2, LastEof
  <2>4. pc'[n] \in {"write", "pollout"} => pending'[n] = pending[n] \ {e}
    BY <1>1, <2>2 DEF EofInv, TInv, TypeOK
  <2>5. ASSUME NEW f \in Out(n) PROVE OneEof(sent'[f]) /\ (Unended(n, f)' => NoEof(sent'[f]))
    <3>1. Unended(n, f)' => Unended(n, f) /\ f # e
      BY <1>2, <1>8, <1>11, <2>4 DEF Unended
    <3>2. CASE f = e
      BY <2>3, <3>1, <3>2
    <3>3. CASE f # e
      BY <1>6, <3>1, <3>3, OutSubset DEF StreamOK
    <3> QED
      BY <3>2, <3>3
  <2> QED
    BY <1>7, <1>9, <2>5 DEF StreamOK, OneEof, NoEof
<1> QED
  BY <1>10, <1>11

LEMMA CloseStream ==
  ASSUME EofInv, NEW n \in Node, StreamOK(n), BrokenPipe(n) \/ CloseOutputs(n)
  PROVE  StreamOK(n)'
<1>1. opened'[n] = {} /\ UNCHANGED <<closing, sent>>
  BY DEF EofInv, TInv, TypeOK, BrokenPipe, CloseOutputs, Exit, history
<1>2. /\ pc'[n] \in {"killed", "exited", "work", "open"}
      /\ closing[n] => pc'[n] \in {"killed", "exited"}
  BY DEF EofInv, TInv, TypeOK, BrokenPipe, CloseOutputs, Exit, GoTo
<1>3. ASSUME NEW e \in Out(n)
      PROVE  OneEof(sent'[e]) /\ (Unended(n, e)' => NoEof(sent'[e]))
  <2>1. Unended(n, e)' => Unended(n, e)
    BY <1>1, <1>2 DEF Unended
  <2> QED
    BY <1>1, <2>1 DEF StreamOK
<1> QED
  BY <1>1, <1>2, <1>3 DEF StreamOK, OneEof, NoEof

-----------------------------------------------------------------------------
LEMMA InitContent == Init => ContentInv
<1> SUFFICES ASSUME Init PROVE ContentInv
  OBVIOUS
<1>1. EofInv
  BY InitEof
<1>2. ASSUME NEW n \in Node PROVE ContentOK(n)
  <2>1. pc[n] = "begin" /\ inputs[n] = <<>> /\ outq[n] = <<>>
    BY DEF Init
  <2> QED
    BY <2>1 DEF ContentOK
<1> QED
  BY <1>1, <1>2 DEF ContentInv

LEMMA StepContent ==
  ASSUME EofInv, NEW n \in Node, ContentOK(n), Step(n)
  PROVE  ContentOK(n)'
<1>1. TInv
  BY DEF EofInv
<1>2. CASE Timeout(n)
  <2>1. Collect(n, <<>>) /\ <<>> \in Seq(Line) /\ pc[n] = "poll" /\ UNCHANGED <<closing, outq>>
    BY <1>2 DEF Timeout, writing
  <2> QED
    BY <1>1, <2>1, CollectContent
<1> QED
  BY <1>1, <1>2, BeginContent, ReadContent, JoinContent, RunContent, LoopContent, WriteContent DEF Step

LEMMA NextContent == ContentInv /\ [Next]_vars => ContentInv'
<1> SUFFICES ASSUME ContentInv, [Next]_vars PROVE ContentInv'
  OBVIOUS
<1>1. EofInv /\ EofInv'
  BY NextEof DEF ContentInv
<1>2. CASE UNCHANGED vars
  <2>1. ASSUME NEW m \in Node PROVE ContentOK(m)'
    BY <1>2, ContentUnmoved DEF ContentInv, vars, ctl, reading, writing
  <2> QED
    BY <1>1, <2>1 DEF ContentInv
<1>3. ASSUME NEW n \in Node, Step(n) PROVE ContentInv'
  <2>1. ContentOK(n)'
    BY <1>1, <1>3, StepContent DEF ContentInv
  <2>2. ASSUME NEW m \in Node, m # n PROVE ContentOK(m)'
    <3>1. Elsewhere(m) /\ Untouched(m)
      BY <1>1, <1>3, <2>2, Others, InputsElsewhere DEF EofInv, NodeOK, TInv
    <3> QED
      BY <3>1, ContentUnmoved DEF ContentInv, Elsewhere, Untouched
  <2>3. \A m \in Node : ContentOK(m)'
    BY <2>1, <2>2
  <2> QED
    BY <1>1, <2>3 DEF ContentInv
<1> QED
  BY <1>2, <1>3 DEF Next, Done

LEMMA InitStream == Init => StreamInv
<1> SUFFICES ASSUME Init PROVE StreamInv
  OBVIOUS
<1>1. ContentInv
  BY InitContent
<1>2. ASSUME NEW n \in Node PROVE StreamOK(n)
  <2>1. pc[n] = "begin" /\ opened[n] = {}
    BY DEF Init
  <2>2. \A e \in Out(n) : sent[e] = <<>>
    BY OutSubset DEF Init
  <2>3. OneEof(<<>>) /\ NoEof(<<>>)
    BY DEF OneEof, NoEof
  <2> QED
    BY <2>1, <2>2, <2>3 DEF StreamOK
<1>3. \A e \in Edge : Opened(e)
  BY DEF Init, Opened
<1> QED
  BY <1>1, <1>2, <1>3 DEF StreamInv, ContentInv

LEMMA StepStream ==
  ASSUME PlainData, EofInv, NEW n \in Node, ContentOK(n), StreamOK(n), \A e \in Edge : Opened(e), Step(n), Onward
  PROVE  StreamOK(n)'
BY LoopStream, OpenStream, OpenNoneStream, PollOutStream, WriteStream, CloseStream DEF Step

LEMMA NextStream == PlainData /\ StreamInv /\ [Next]_vars => StreamInv'
<1> SUFFICES ASSUME PlainData, StreamInv, [Next]_vars PROVE StreamInv'
  OBVIOUS
<1>1. EofInv /\ ContentInv'
  BY NextContent DEF StreamInv, ContentInv
<1>2. CASE UNCHANGED vars
  <2>1. ASSUME NEW m \in Node PROVE StreamOK(m)'
    <3>1. Elsewhere(m) /\ Onward
      BY <1>2 DEF Elsewhere, Onward, vars, ctl, pipes, writing, history
    <3> QED
      BY <1>1, <3>1, StreamUnmoved DEF StreamInv, EofInv, NodeOK
  <2>2. \A e \in Edge : Opened(e)'
    BY <1>2 DEF StreamInv, Opened, vars, ctl, pipes
  <2> QED
    BY <1>1, <2>1, <2>2 DEF StreamInv
<1>3. ASSUME NEW n \in Node, Step(n) PROVE StreamInv'
  <2>1. Onward /\ \A e \in Edge : Opened(e)'
    BY <1>1, <1>3, StepOnward DEF StreamInv
  <2>2. StreamOK(n)'
    BY <1>1, <1>3, <2>1, StepStream DEF StreamInv, ContentInv
  <2>3. ASSUME NEW m \in Node, m # n PROVE StreamOK(m)'
    <3>1. Elsewhere(m) /\ OwnOutputs(m)
      BY <1>1, <1>3, <2>3, Others DEF EofInv, NodeOK
    <3> QED
      BY <2>1, <3>1, StreamUnmoved DEF StreamInv
  <2>4. \A m \in Node : StreamOK(m)'
    BY <2>2, <2>3
  <2> QED
    BY <1>1, <2>1, <2>4 DEF StreamInv
<1> QED
  BY <1>2, <1>3 DEF Next, Done

(* The stream on every pipe of every graph is over once "EOF" has been
   written to it (the code after the loop of every Execute), with whatever
   failures, if no line of the data reads "EOF": the code could not tell it
   from the end of the stream (node.cpp:295).                               *)
THEOREM StreamsEndOnce ==
  ASSUME PlainData
  PROVE  Spec => []NothingAfterEof
<1>1. StreamInv => NothingAfterEof
  <2> SUFFICES ASSUME StreamInv, NEW e \in Edge PROVE OneEof(sent[e])
    BY DEF NothingAfterEof, OneEof
  <2>1. e[1] \in Node /\ e \in Out(e[1])
    BY EdgeNodes DEF Out
  <2> QED
    BY <2>1 DEF StreamInv, ContentInv, StreamOK
<1>2. StreamInv /\ [Next]_vars => StreamInv'
  BY NextStream
<1> QED
  BY <1>1, <1>2, InitStream, PTL DEF Spec

-----------------------------------------------------------------------------
(* Counting "EOF"s. *)

LEMMA InFinite ==
  ASSUME NEW n \in Node
  PROVE  IsFiniteSet(In(n)) /\ NIn(n) \in Nat /\ (NIn(n) = 0 => Root(n))
<1>1. IsFiniteSet(Node \X Node)
  BY GraphAssumption, FS_Product
<1>2. In(n) \in SUBSET (Node \X Node)
  BY DEF In, Edge
<1>3. IsFiniteSet(In(n))
  BY <1>1, <1>2, FS_Subset
<1> QED
  BY <1>3, FS_CardinalityType, FS_EmptySet DEF NIn, Root

-----------------------------------------------------------------------------
(* The streams that have been read to their end. *)

LEMMA EmptyPlain == NoEof(<<>>)
BY DEF NoEof

LEMMA PlainOrEnded ==
  ASSUME NEW s \in Seq(Line), OneEof(s)
  PROVE  /\ NoEof(s) \/ EndsWithEof(s)
         /\ ~(NoEof(s) /\ EndsWithEof(s))
<1>1. Len(s) \in Nat /\ (s # <<>> => Len(s) # 0)
  OBVIOUS
<1> QED
  BY <1>1 DEF OneEof, NoEof, EndsWithEof

LEMMA SentOnce ==
  ASSUME StreamInv, NEW e \in Edge
  PROVE  /\ sent[e] \in Seq(Line) /\ fifo[e] \in Seq(Line)
         /\ NoEof(sent[e]) \/ EndsWithEof(sent[e])
         /\ ~(NoEof(sent[e]) /\ EndsWithEof(sent[e]))
<1>1. e[1] \in Node /\ e \in Out(e[1])
  BY EdgeNodes DEF Out
<1>2. OneEof(sent[e])
  BY <1>1 DEF StreamInv, ContentInv, StreamOK
<1>3. sent[e] \in Seq(Line) /\ fifo[e] \in Seq(Line)
  BY DEF StreamInv, ContentInv, EofInv, TInv, TypeOK
<1> QED
  BY <1>2, <1>3, PlainOrEnded

(* A write goes to a pipe that has had no "EOF", and adds something to it. *)
LEMMA WriteAdds ==
  ASSUME PlainData, StreamInv, NEW k \in Node, Write(k)
  PROVE  \E e \in Edge : \E t \in Seq(Line) :
           /\ t # <<>> /\ (NoEof(t) \/ t = <<EOF>>) /\ NoEof(sent[e])
           /\ fifo' = [fifo EXCEPT ![e] = @ \o t]
           /\ sent' = [sent EXCEPT ![e] = @ \o t]
<1> DEFINE t == Head(outq[k])
<1>1. EofInv /\ TInv /\ StreamOK(k) /\ ContentOK(k) /\ NodeOK(k)
  BY DEF StreamInv, ContentInv, EofInv
<1>2. PICK e \in ready[k] :
        /\ readers[e]
        /\ fifo' = [fifo EXCEPT ![e] = @ \o Head(outq[k])]
        /\ sent' = [sent EXCEPT ![e] = @ \o Head(outq[k])]
  BY DEF Write
<1>3. pc[k] = "write"
  BY DEF Write
<1>4. e \in pending[k] /\ e \in Out(k) /\ e \in Edge
  BY <1>1, <1>2, <1>3, OutSubset DEF StreamOK, NodeOK, OwnOutputs
<1>5. NoEof(sent[e])
  BY <1>1, <1>3, <1>4 DEF StreamOK, Unended
<1>6. outq[k] \in Seq(String) /\ outq[k] # <<>> /\ outq[k][1] = t /\ t \in String /\ 1 \in 1..Len(outq[k])
  BY <1>1, <1>3 DEF TInv, TypeOK, OutqOK
<1>7. t \in Seq(Line) /\ t # <<>>
  BY <1>6, StringType
<1>8. closing[k] => t = <<EOF>>
  BY <1>1, <1>3, <1>6 DEF NodeOK, LastWord
<1>9. ~closing[k] => NoEof(t)
  BY <1>1, <1>6 DEF ContentOK
<1> QED
  BY <1>2, <1>4, <1>5, <1>7, <1>8, <1>9

(* Of all steps only Write and Read move lines. *)
LEMMA LinesStay ==
  ASSUME NEW k \in Node, Step(k), ~Write(k), ~Read(k)
  PROVE  UNCHANGED <<fifo, sent>>
BY DEF Step, Begin, Poll, Timeout, Join, Enter, Run, Fail, LoopEnd, SendEof, Open, OpenNone,
       PollOut, BrokenPipe, CloseOutputs, pipes, history

(* Nobody but the node itself takes from the pipes to it. *)
Kept(n) ==
  /\ Drained(n)' = Drained(n)
  /\ \A e \in In(n) : fifo[e] # <<>> => fifo'[e] # <<>>

LEMMA InSubset == ASSUME NEW n \in Node PROVE In(n) \subseteq Edge /\ In(n)' = In(n)
BY DEF In, Edge

LEMMA WriteKeeps ==
  ASSUME PlainData, StreamInv, NEW k \in Node, Write(k), NEW n \in Node
  PROVE  Kept(n)
<1>1. PICK e \in Edge, t \in Seq(Line) :
           /\ t # <<>> /\ NoEof(sent[e])
           /\ fifo' = [fifo EXCEPT ![e] = @ \o t]
           /\ sent' = [sent EXCEPT ![e] = @ \o t]
  BY WriteAdds
<1>2. /\ fifo'[e] = fifo[e] \o t /\ sent'[e] = sent[e] \o t
      /\ \A f \in Edge : f # e => fifo'[f] = fifo[f] /\ sent'[f] = sent[f]
  BY <1>1 DEF StreamInv, ContentInv, EofInv, TInv, TypeOK
<1>3. fifo'[e] # <<>>
  <2>1. fifo[e] \in Seq(Line)
    BY SentOnce
  <2>2. Len(t) # 0 /\ Len(fifo[e] \o t) = Len(fifo[e]) + Len(t)
    BY <1>1, <2>1
  <2> QED
    BY <1>2, <2>1, <2>2
<1>4. ~EndsWithEof(sent[e])
  BY <1>1, SentOnce
<1>5. ASSUME NEW f \in In(n)
      PROVE  f \in Drained(n)' <=> f \in Drained(n)
  BY <1>2, <1>3, <1>4, InSubset DEF Drained, EndsWithEof
<1>6. Drained(n) \subseteq In(n) /\ Drained(n)' \subseteq In(n)
  BY InSubset DEF Drained
<1>7. Drained(n)' = Drained(n)
  BY <1>5, <1>6
<1> QED
  BY <1>2, <1>3, <1>7, InSubset DEF Kept

LEMMA OthersKeep ==
  ASSUME PlainData, StreamInv, NEW k \in Node, CountOK(k), Step(k), NEW n \in Node, n = k => ~Read(k)
  PROVE  Kept(n)
<1>1. CASE Write(k)
  BY <1>1, WriteKeeps
<1>2. CASE ~Write(k) /\ ~Read(k)
  <2>1. UNCHANGED <<fifo, sent>>
    BY <1>2, LinesStay
  <2> QED
    BY <2>1 DEF Kept, Drained, In, EndsWithEof
<1>3. CASE Read(k)
  <2>1. PICK e \in ready[k] : fifo' = [fifo EXCEPT ![e] = <<>>]
    BY <1>3 DEF Read
  <2>2. e \in In(k) /\ sent' = sent
    BY <1>3 DEF Read, CountOK, history
  <2>3. n # k
    BY <1>3
  <2>4. \A f \in In(n) : f # e /\ f \in Edge
    BY <2>2, <2>3 DEF In
  <2>5. \A f \in In(n) : fifo'[f] = fifo[f] /\ sent'[f] = sent[f]
    BY <2>1, <2>2, <2>4 DEF StreamInv, ContentInv, EofInv, TInv, TypeOK
  <2>6. \A f \in In(n) : f \in Drained(n)' <=> f \in Drained(n)
    BY <2>5, InSubset DEF Drained, EndsWithEof
  <2>7. Drained(n) \subseteq In(n) /\ Drained(n)' \subseteq In(n)
    BY InSubset DEF Drained
  <2>8. Drained(n)' = Drained(n)
    BY <2>6, <2>7
  <2> QED
    BY <2>5, <2>8 DEF Kept
<1> QED
  BY <1>1, <1>2, <1>3

(* What is in a pipe ends like the stream it is the rest of. *)
LEMMA FifoStep ==
  ASSUME PlainData, StreamInv, NEW k \in Node, Step(k), NEW f \in Edge, FifoOK(f)
  PROVE  FifoOK(f)'
<1>1. CASE Write(k)
  <2>1. PICK e \in Edge, t \in Seq(Line) :
           /\ t # <<>> /\ (NoEof(t) \/ t = <<EOF>>) /\ NoEof(sent[e])
           /\ fifo' = [fifo EXCEPT ![e] = @ \o t]
           /\ sent' = [sent EXCEPT ![e] = @ \o t]
    BY <1>1, WriteAdds
  <2>2. /\ fifo'[e] = fifo[e] \o t /\ sent'[e] = sent[e] \o t
        /\ \A g \in Edge : g # e => fifo'[g] = fifo[g] /\ sent'[g] = sent[g]
    BY <2>1 DEF StreamInv, ContentInv, EofInv, TInv, TypeOK
  <2>3. CASE f # e
    BY <2>2, <2>3 DEF FifoOK, NoEof, OneEof, EndsWithEof
  <2>4. CASE f = e
    <3>1. /\ fifo[e] \in Seq(Line) /\ sent[e] \in Seq(Line) /\ NoEof(fifo[e])
          /\ fifo'[e] \in Seq(Line) /\ sent'[e] \in Seq(Line)
      BY <2>1, <2>2, <2>4, SentOnce DEF FifoOK
    <3>2. CASE NoEof(t)
      <4>1. NoEof(sent'[e]) /\ NoEof(fifo'[e])
        BY <2>1, <2>2, <3>1, <3>2, NoEofConcat
      <4>2. ~EndsWithEof(sent'[e])
        BY <3>1, <4>1, NoEofOneEof, PlainOrEnded
      <4> QED
        BY <2>4, <4>1, <4>2 DEF FifoOK, NoEof, OneEof, EndsWithEof
    <3>3. CASE t = <<EOF>>
      <4>1. EndsWithEof(sent'[e]) /\ EndsWithEof(fifo'[e]) /\ OneEof(fifo'[e]) /\ OneEof(sent'[e])
        BY <2>1, <2>2, <3>1, <3>3, AppendEof, LastEof
      <4>2. ~NoEof(sent'[e])
        BY <3>1, <4>1, PlainOrEnded
      <4> QED
        BY <2>4, <4>1, <4>2 DEF FifoOK, NoEof, OneEof, EndsWithEof
    <3> QED
      BY <2>1, <3>2, <3>3
  <2> QED
    BY <2>3, <2>4
<1>2. CASE ~Write(k) /\ ~Read(k)
  <2>1. UNCHANGED <<fifo, sent>>
    BY <1>2, LinesStay
  <2> QED
    BY <2>1 DEF FifoOK, NoEof, OneEof, EndsWithEof
<1>3. CASE Read(k)
  <2>1. PICK e : fifo' = [fifo EXCEPT ![e] = <<>>]
    BY <1>3 DEF Read
  <2>2. sent' = sent /\ (fifo'[f] = fifo[f] \/ fifo'[f] = <<>>)
    BY <1>3, <2>1 DEF Read, history, StreamInv, EofInv, TInv, TypeOK
  <2> QED
    BY <2>2, EmptyPlain DEF FifoOK, NoEof, OneEof, EndsWithEof
<1> QED
  BY <1>1, <1>2, <1>3

-----------------------------------------------------------------------------
(* eofs_ counts the streams that have been read to their end. *)

LEMMA DrainedBound ==
  ASSUME NEW n \in Node
  PROVE  /\ Cardinality(Drained(n)) \in Nat /\ Cardinality(Drained(n)) <= NIn(n)
         /\ Cardinality(Drained(n)) = NIn(n) => Drained(n) = In(n)
         /\ Cardinality(Drained(n)') \in Nat /\ Cardinality(Drained(n)') <= NIn(n)
<1>1. IsFiniteSet(In(n))
  BY InFinite
<1>2. Drained(n) \in SUBSET In(n) /\ Drained(n)' \in SUBSET In(n)
  BY InSubset DEF Drained
<1>3. IsFiniteSet(Drained(n)) /\ IsFiniteSet(Drained(n)')
  BY <1>1, <1>2, FS_Subset
<1>4. Cardinality(Drained(n)) \in Nat /\ Cardinality(Drained(n)') \in Nat
  BY <1>3, FS_CardinalityType
<1>5. Cardinality(Drained(n)) <= Cardinality(In(n)) /\ Cardinality(Drained(n)') <= Cardinality(In(n))
  BY <1>1, <1>2, FS_Subset
<1>6. Cardinality(Drained(n)) = Cardinality(In(n)) => Drained(n) = In(n)
  BY <1>1, <1>2, FS_Subset
<1> QED
  BY <1>4, <1>5, <1>6 DEF NIn

LEMMA CountUnmoved ==
  ASSUME NEW m \in Node, CountOK(m), Elsewhere(m), Untouched(m), Kept(m)
  PROVE  CountOK(m)'
<1>1. Drained(m)' = Drained(m) /\ In(m)' = In(m)
  BY InSubset DEF Kept
<1>2. UNCHANGED <<eofs[m], buf[m], pc[m], ready[m], inputs[m], closing[m], stat[m]>>
  BY DEF Elsewhere, Untouched
<1>3. (eofs[m] + EofsIn(AsStrings(buf[m])))' = Cardinality(Drained(m)')
  BY <1>1, <1>2 DEF CountOK, EofsIn, AsStrings
<1>4. pc'[m] = "read" => \A e \in ready'[m] : e \in In(m) /\ fifo'[e] # <<>>
  BY <1>2 DEF CountOK, Kept
<1> QED
  BY <1>1, <1>2, <1>3, <1>4 DEF CountOK, NIn, Root

(* Where a step neither reads nor decides anything, the count stands. *)
LEMMA CountStays ==
  ASSUME NEW n \in Node, CountOK(n), Kept(n), pc[n] # "read",
         eofs'[n] = eofs[n], buf'[n] = buf[n], closing'[n] = closing[n],
         closing[n] => stat'[n] = stat[n],
         pc'[n] \notin {"begin", "poll", "read", "end"}
  PROVE  CountOK(n)'
<1>1. (eofs[n] + EofsIn(AsStrings(buf[n])))' = Cardinality(Drained(n)')
  BY DEF CountOK, Kept, EofsIn, AsStrings
<1> QED
  BY <1>1 DEF CountOK, NIn, Root, In

LEMMA CollectCount ==
  ASSUME OneParent, TInv, NEW n \in Node, CountOK(n), ContentOK(n), NEW new \in Seq(Line),
         Collect(n, new), pc[n] \in {"poll", "read"}, ~closing[n],
         closing'[n] = closing[n],
         eofs[n] + EofsIn(AsStrings(new)) = Cardinality(Drained(n)')
  PROVE  CountOK(n)'
<1> DEFINE strs == AsStrings(new) \o inputs[n]
           sum  == eofs[n] + EofsIn(strs)
<1>1. /\ AsStrings(new) \in Seq(String) /\ inputs[n] \in Seq(String) /\ strs \in Seq(String)
      /\ \A i \in 1..Len(inputs[n]) : inputs[n][i] # <<EOF>>
  <2>1. AsStrings(new) \in Seq(String)
    BY AsStringsType
  <2>2. inputs[n] \in Seq(String)
    BY DEF TInv, TypeOK
  <2>3. \A i \in 1..Len(inputs[n]) : inputs[n][i] # <<EOF>>
    BY DEF CountOK
  <2> QED
    BY <2>1, <2>2, <2>3
<1>2. EofsIn(strs) = EofsIn(AsStrings(new))
  BY <1>1, EofsInKept
<1>3. EofsIn(strs) \in Nat /\ eofs[n] \in Nat
  <2>1. eofs[n] \in Nat
    BY BoundAssumption DEF TInv, TypeOK
  <2> HIDE DEF strs
  <2> QED
    BY <1>1, <2>1, EofsInType
<1>4. sum = Cardinality(Drained(n)') /\ sum \in Nat /\ sum <= NIn(n)
  BY <1>2, <1>3, DrainedBound
<1>5. NIn(n) \in Nat /\ NIn(n) < MaxEofs /\ NIn(n) # 0
  BY InFinite, BoundAssumption DEF ContentOK
<1>6. inputs'[n] = strs /\ buf'[n] = <<>>
  BY DEF Collect, TInv, TypeOK
<1>7. eofs'[n] = sum
  <2>1. eofs'[n] = IF sum <= MaxEofs THEN sum ELSE MaxEofs
    BY DEF Collect, TInv, TypeOK
  <2> HIDE DEF sum
  <2> QED
    BY <2>1, <1>4, <1>5, BoundAssumption
<1>8. \/ n \in Batch /\ sum # NIn(n) /\ pc'[n] = "poll"
      \/ pc'[n] \in {"join", "enter", "work"}
      \/ (sum > NIn(n) \/ sum = NIn(n)) /\ pc'[n] = "end"
  BY DEF Collect, GoTo, TInv, TypeOK
<1> HIDE DEF strs, sum
<1>9. (eofs[n] + EofsIn(AsStrings(buf[n])))' = Cardinality(Drained(n)')
  <2>1. EofsIn(AsStrings(buf[n]))' = 0
    BY <1>6, EofsInNothing DEF EofsIn, AsStrings
  <2> QED
    BY <1>4, <1>7, <2>1
<1>10. ASSUME pc'[n] = "poll" PROVE \A i \in 1..Len(inputs'[n]) : inputs'[n][i] # <<EOF>>
  <2>1. n \in Batch /\ sum # NIn(n) /\ NIn(n) <= 1
    BY <1>8, <1>10 DEF OneParent
  <2>2. sum = 0 /\ EofsIn(strs) = 0
    BY <2>1, <1>3, <1>4, <1>5 DEF sum
  <2> QED
    BY <1>1, <1>6, <2>2, NoneCounted
<1>11. pc'[n] = "end" => eofs'[n] = NIn(n)
  BY <1>4, <1>5, <1>7, <1>8
<1>12. pc'[n] # "read" /\ pc'[n] # "begin"
  BY <1>8
<1> QED
  BY <1>6, <1>9, <1>10, <1>11, <1>12 DEF CountOK, NIn, Root, In

(* Reading a pipe: its stream has now been read to the end, and one more
   "EOF" is in what was read; or neither.                                   *)
LEMMA ReadCount ==
  ASSUME OneParent, StreamInv, NEW n \in Node, CountOK(n), \A e \in Edge : FifoOK(e), Read(n)
  PROVE  CountOK(n)'
<1>0. EofInv /\ TInv /\ TypeOK /\ ContentOK(n) /\ NodeOK(n)
  BY DEF StreamInv, ContentInv, EofInv, TInv
<1>1. PICK e \in ready[n] :
        /\ fifo' = [fifo EXCEPT ![e] = <<>>]
        /\ ready' = [ready EXCEPT ![n] = @ \ {e}]
        /\ IF ready[n] = {e}
             THEN Collect(n, buf[n] \o fifo[e])
             ELSE /\ buf' = [buf EXCEPT ![n] = @ \o fifo[e]]
                  /\ UNCHANGED <<pc, inputs, eofs>>
  BY DEF Read
<1>2. pc[n] = "read" /\ UNCHANGED <<closing, stat, sent>>
  BY DEF Read, history
<1>3. e \in In(n) /\ e \in Edge /\ fifo[e] # <<>>
  BY <1>1, <1>2, InSubset DEF CountOK
<1>4. fifo'[e] = <<>> /\ \A f \in Edge : f # e => fifo'[f] = fifo[f]
  BY <1>0, <1>1, <1>3 DEF TypeOK
<1>5. buf[n] \in Seq(Line) /\ fifo[e] \in Seq(Line) /\ buf[n] \o fifo[e] \in Seq(Line)
  BY <1>0, <1>3 DEF TypeOK
<1>6. ~closing[n]
  BY <1>0, <1>2 DEF NodeOK, LastWord, Idle
<1>7. e \notin Drained(n)
  BY <1>3 DEF Drained
<1>8. Drained(n)' = IF EndsWithEof(sent[e]) THEN Drained(n) \cup {e} ELSE Drained(n)
  <2>1. \A f \in In(n) : f \in Drained(n)' <=>
          (f \in Drained(n) \/ (f = e /\ EndsWithEof(sent[e])))
    BY <1>2, <1>3, <1>4, InSubset DEF Drained, EndsWithEof
  <2>2. Drained(n) \subseteq In(n) /\ Drained(n)' \subseteq In(n)
    BY InSubset DEF Drained
  <2> QED
    BY <1>3, <2>1, <2>2
<1>9. eofs[n] + EofsIn(AsStrings(buf[n] \o fifo[e])) = Cardinality(Drained(n)')
  <2>1. FifoOK(e)
    BY <1>3
  <2>2. eofs[n] \in Nat /\ EofsIn(AsStrings(buf[n])) \in Nat
    BY <1>0, <1>5, AsStringsType, EofsInType, BoundAssumption DEF TypeOK
  <2>3. eofs[n] + EofsIn(AsStrings(buf[n])) = Cardinality(Drained(n))
    BY DEF CountOK
  <2>4. CASE EndsWithEof(sent[e])
    <3>1. EofsIn(AsStrings(buf[n] \o fifo[e])) = EofsIn(AsStrings(buf[n])) + 1
      BY <1>3, <1>5, <2>1, <2>4, EofsInMore DEF FifoOK
    <3>2. IsFiniteSet(Drained(n))
      <4>1. Drained(n) \in SUBSET In(n)
        BY DEF Drained
      <4> QED
        BY <4>1, InFinite, FS_Subset
    <3>3. Cardinality(Drained(n) \cup {e}) = Cardinality(Drained(n)) + 1
      BY <1>7, <3>2, FS_AddElement
    <3> QED
      BY <1>8, <2>2, <2>3, <2>4, <3>1, <3>3
  <2>5. CASE ~EndsWithEof(sent[e])
    <3>1. NoEof(fifo[e])
      BY <1>3, <2>1, <2>5, SentOnce DEF FifoOK
    <3>2. EofsIn(AsStrings(buf[n] \o fifo[e])) = EofsIn(AsStrings(buf[n]))
      BY <1>5, <3>1, EofsInMore
    <3> QED
      BY <1>8, <2>3, <2>5, <3>2
  <2> QED
    BY <2>4, <2>5
<1>10. CASE ready[n] = {e}
  <2>1. Collect(n, buf[n] \o fifo[e])
    BY <1>1, <1>10
  <2> QED
    BY <1>0, <1>2, <1>5, <1>6, <1>9, <2>1, CollectCount
<1>11. CASE ready[n] # {e}
  <2>1. buf'[n] = buf[n] \o fifo[e] /\ UNCHANGED <<pc, inputs, eofs>>
    BY <1>0, <1>1, <1>11 DEF TypeOK
  <2>2. (eofs[n] + EofsIn(AsStrings(buf[n])))' = Cardinality(Drained(n)')
    BY <1>9, <2>1 DEF EofsIn, AsStrings
  <2>3. \A f \in ready'[n] : f \in In(n) /\ fifo'[f] # <<>>
    <3>1. ready'[n] = ready[n] \ {e}
      BY <1>0, <1>1 DEF TypeOK
    <3> QED
      BY <1>2, <1>4, <3>1, InSubset DEF CountOK
  <2>4. pc'[n] = "read" /\ \A i \in 1..Len(inputs'[n]) : inputs'[n][i] # <<EOF>>
    BY <1>2, <2>1 DEF CountOK
  <2> QED
    BY <1>2, <1>6, <2>2, <2>3, <2>4 DEF CountOK, NIn, Root, In
<1> QED
  BY <1>10, <1>11

LEMMA TimeoutCount ==
  ASSUME OneParent, StreamInv, NEW n \in Node, CountOK(n), Timeout(n), Kept(n)
  PROVE  CountOK(n)'
<1>1. TInv /\ ContentOK(n) /\ NodeOK(n)
  BY DEF StreamInv, ContentInv, EofInv
<1>2. pc[n] = "poll" /\ Collect(n, <<>>) /\ <<>> \in Seq(Line) /\ UNCHANGED closing
  BY DEF Timeout
<1>3. ~closing[n] /\ buf[n] = <<>>
  BY <1>1, <1>2 DEF NodeOK, LastWord, Idle, CountOK
<1>4. eofs[n] + EofsIn(AsStrings(<<>>)) = Cardinality(Drained(n)')
  BY <1>3 DEF CountOK, Kept
<1> QED
  BY <1>1, <1>2, <1>3, <1>4, CollectCount

LEMMA LoopCount ==
  ASSUME StreamInv, NEW n \in Node, CountOK(n), Kept(n),
         Begin(n) \/ Poll(n) \/ Enter(n) \/ Fail(n) \/ LoopEnd(n) \/ SendEof(n)
  PROVE  CountOK(n)'
<1>1. TInv /\ TypeOK /\ NodeOK(n)
  BY DEF StreamInv, ContentInv, EofInv, TInv
<1>2. pc[n] \in Idle /\ pc[n] # "read"
  BY DEF Begin, Poll, Enter, Fail, At, LoopEnd, SendEof, Idle
<1>3. ~closing[n] /\ buf[n] = <<>>
  BY <1>1, <1>2 DEF NodeOK, LastWord, CountOK
<1>4. UNCHANGED <<eofs, buf>>
  BY DEF Begin, Poll, Enter, Fail, LoopEnd, SendEof, reading
<1>5. (eofs[n] + EofsIn(AsStrings(buf[n])))' = Cardinality(Drained(n)')
  BY <1>4 DEF CountOK, Kept, EofsIn, AsStrings
<1>6. eofs[n] = Cardinality(Drained(n))
  <2>1. eofs[n] \in Nat
    BY <1>1, BoundAssumption DEF TypeOK
  <2> QED
    BY <1>3, <2>1, EofsInNothing DEF CountOK
<1> USE <1>1 DEF TypeOK, GoTo
<1>7. CASE Begin(n)
  <2>1. /\ UNCHANGED closing /\ (pc'[n] = "enter" \/ (pc'[n] = "poll" /\ inputs' = inputs))
        /\ pc[n] = "begin"
    BY <1>7 DEF Begin
  <2> QED
    BY <1>3, <1>4, <1>5, <2>1 DEF CountOK, NIn, Root, In
<1>8. CASE Poll(n)
  <2>1. /\ pc[n] = "poll" /\ pc'[n] = "read" /\ UNCHANGED <<closing, inputs>>
        /\ \A e \in ready'[n] : e \in In(n) /\ fifo'[e] # <<>>
    BY <1>8 DEF Poll, pipes, reading
  <2> QED
    BY <1>3, <1>5, <2>1 DEF CountOK, NIn, Root, In
<1>9. CASE Enter(n)
  <2>1. UNCHANGED closing
    BY <1>9 DEF Enter
  <2>2. eofs[n] <= NIn(n) /\ eofs[n] \in Nat /\ NIn(n) \in Nat
    BY <1>6, DrainedBound, InFinite
  <2>3. pc'[n] \in {"exited", "join", "work"} \/ (pc'[n] = "end" /\ ~stat'[n])
    <3>1. CASE Kind[n] = "distro" /\ Outputs[n] = <<>>
      BY <1>9, <3>1 DEF Enter, Exit
    <3>2. CASE ~(Kind[n] = "distro" /\ Outputs[n] = <<>>) /\ n \in BadRegex
      <4>1. stat' = [stat EXCEPT ![n] = n \notin BadRegex]
        BY <1>9, <3>2 DEF Enter
      <4>2. ~stat'[n]
        BY <3>2, <4>1
      <4>3. n \notin Batch /\ ~(eofs[n] > NIn(n))
        <5>1. Kind[n] = "filter" /\ (n \in Batch => Kind[n] = "command")
          BY <3>2, GraphAssumption
        <5> QED
          BY <2>2, <5>1
      <4>4. pc'[n] = "end"
        BY <1>9, <3>2, <4>3 DEF Enter
      <4> QED
        BY <4>2, <4>4
    <3>3. CASE ~(Kind[n] = "distro" /\ Outputs[n] = <<>>) /\ n \notin BadRegex
      <4>1. ~(eofs[n] > NIn(n))
        BY <2>2
      <4> QED
        BY <1>9, <3>3, <4>1 DEF Enter
    <3> QED
      BY <3>1, <3>2, <3>3
  <2> QED
    BY <1>3, <1>4, <1>5, <2>1, <2>3 DEF CountOK, NIn, Root, In
<1>10. CASE Fail(n)
  <2>1. pc'[n] = "end" /\ ~stat'[n] /\ UNCHANGED closing
    BY <1>10 DEF Fail
  <2> QED
    BY <1>3, <1>4, <1>5, <2>1 DEF CountOK, NIn, Root, In
<1>11. CASE LoopEnd(n)
  <2>1. inputs'[n] = <<>> /\ UNCHANGED <<closing, stat>>
        /\ (pc'[n] = "poll" \/ (pc'[n] = "end" /\ (Root(n) \/ eofs[n] = NIn(n))))
    BY <1>11 DEF LoopEnd, AllEofs
  <2> QED
    BY <1>3, <1>4, <1>5, <2>1 DEF CountOK, NIn, Root, In
<1>12. CASE SendEof(n)
  <2>1. pc[n] = "end" /\ pc'[n] = "open" /\ UNCHANGED stat
    BY <1>12 DEF SendEof
  <2> QED
    BY <1>3, <1>4, <1>5, <2>1 DEF CountOK, NIn, Root, In
<1> QED
  BY <1>7, <1>8, <1>9, <1>10, <1>11, <1>12

LEMMA OtherCount ==
  ASSUME StreamInv, NEW n \in Node, CountOK(n), Kept(n),
         \/ Join(n) \/ Run(n) \/ Open(n) \/ OpenNone(n) \/ PollOut(n) \/ Write(n)
         \/ BrokenPipe(n) \/ CloseOutputs(n)
  PROVE  CountOK(n)'
<1>1. TypeOK
  BY DEF StreamInv, ContentInv, EofInv, TInv
<1>2. UNCHANGED <<eofs, buf, closing, stat>>
  BY DEF Join, Run, Open, OpenNone, PollOut, Write, BrokenPipe, CloseOutputs, reading
<1>3. pc[n] \in {"join", "work", "open", "pollout", "write", "wrote"}
  BY DEF Join, Run, At, Open, OpenNone, PollOut, Write, BrokenPipe, CloseOutputs
<1>4. pc'[n] \notin {"begin", "poll", "read", "end"}
  <2> USE <1>1, <1>3 DEF TypeOK, GoTo
  <2>1. CASE Open(n) \/ OpenNone(n)
    BY <2>1 DEF Open, OpenNone, StartWrite
  <2>5. CASE Join(n)
    BY <2>5 DEF Join
  <2>6. CASE PollOut(n)
    BY <2>6 DEF PollOut
  <2>2. CASE Run(n)
    BY <2>2 DEF Run
  <2>3. CASE Write(n)
    BY <2>3 DEF Write
  <2>4. CASE BrokenPipe(n) \/ CloseOutputs(n)
    BY <2>4 DEF BrokenPipe, CloseOutputs, Exit
  <2> QED
    BY <2>1, <2>2, <2>3, <2>4, <2>5, <2>6
<1> QED
  BY <1>2, <1>3, <1>4, CountStays

-----------------------------------------------------------------------------
LEMMA InitCount == Init => CountInv
<1> SUFFICES ASSUME Init PROVE CountInv
  OBVIOUS
<1>1. StreamInv
  BY InitStream
<1>2. ASSUME NEW n \in Node PROVE CountOK(n)
  <2>1. pc[n] = "begin" /\ buf[n] = <<>> /\ eofs[n] = 0 /\ inputs[n] = <<>> /\ ~closing[n]
    BY DEF Init
  <2>2. \A e \in In(n) : ~EndsWithEof(sent[e])
    BY InSubset DEF Init, EndsWithEof
  <2>3. Drained(n) = {}
    BY <2>2 DEF Drained
  <2>4. eofs[n] + EofsIn(AsStrings(buf[n])) = Cardinality(Drained(n))
    BY <2>1, <2>3, EofsInNothing, FS_EmptySet
  <2> QED
    BY <2>1, <2>4 DEF CountOK
<1>3. ASSUME NEW e \in Edge PROVE FifoOK(e)
  BY EmptyPlain DEF Init, FifoOK
<1> QED
  BY <1>1, <1>2, <1>3 DEF CountInv

LEMMA NextCount == PlainData /\ OneParent /\ CountInv /\ [Next]_vars => CountInv'
<1> SUFFICES ASSUME PlainData, OneParent, CountInv, [Next]_vars PROVE CountInv'
  OBVIOUS
<1>1. StreamInv /\ StreamInv'
  BY NextStream DEF CountInv
<1>2. CASE UNCHANGED vars
  <2>1. ASSUME NEW m \in Node PROVE CountOK(m)'
    <3>1. Elsewhere(m) /\ Untouched(m)
      BY <1>2 DEF Elsewhere, Untouched, vars, ctl, reading, writing, history
    <3>2. Kept(m)
      BY <1>2 DEF Kept, Drained, In, EndsWithEof, vars, pipes, history
    <3> QED
      BY <3>1, <3>2, CountUnmoved DEF CountInv
  <2>2. \A e \in Edge : FifoOK(e)'
    BY <1>2 DEF CountInv, FifoOK, NoEof, OneEof, EndsWithEof, vars, pipes, history
  <2> QED
    BY <1>1, <2>1, <2>2 DEF CountInv
<1>3. ASSUME NEW n \in Node, Step(n) PROVE CountInv'
  <2>1. \A e \in Edge : FifoOK(e)'
    BY <1>1, <1>3, FifoStep DEF CountInv
  <2>2. CountOK(n)'
    <3>1. CASE Read(n)
      BY <1>1, <3>1, ReadCount DEF CountInv
    <3>2. CASE ~Read(n)
      <4>1. Kept(n)
        BY <1>1, <1>3, <3>2, OthersKeep DEF CountInv
      <4> QED
        BY <1>1, <1>3, <3>2, <4>1, TimeoutCount, LoopCount, OtherCount DEF CountInv, Step
    <3> QED
      BY <3>1, <3>2
  <2>3. ASSUME NEW m \in Node, m # n PROVE CountOK(m)'
    <3>1. Elsewhere(m) /\ Untouched(m)
      BY <1>1, <1>3, <2>3, Others, InputsElsewhere DEF StreamInv, ContentInv, EofInv, NodeOK, TInv
    <3>2. Kept(m)
      BY <1>1, <1>3, <2>3, OthersKeep DEF CountInv
    <3> QED
      BY <3>1, <3>2, CountUnmoved DEF CountInv
  <2>4. \A m \in Node : CountOK(m)'
    BY <2>2, <2>3
  <2> QED
    BY <1>1, <2>1, <2>4 DEF CountInv
<1> QED
  BY <1>2, <1>3 DEF Next, Done

LEMMA CountCloses == CountInv => ClosesAfterEveryEof
<1> SUFFICES ASSUME CountInv, NEW n \in Node, pc[n] = "end" \/ closing[n], stat[n], NEW e \in In(n)
             PROVE  fifo[e] = <<>> /\ EndsWithEof(sent[e])
  BY DEF ClosesAfterEveryEof
<1>1. CountOK(n) /\ NodeOK(n) /\ TypeOK
  BY DEF CountInv, StreamInv, ContentInv, EofInv, TInv
<1>2. eofs[n] = NIn(n)
  BY <1>1 DEF CountOK, Root
<1>3. pc[n] # "read"
  BY <1>1 DEF NodeOK, LastWord, Idle
<1>4. buf[n] = <<>>
  BY <1>1, <1>3 DEF CountOK
<1>5. Cardinality(Drained(n)) = NIn(n)
  BY <1>1, <1>2, <1>4, EofsInNothing, InFinite DEF CountOK
<1>6. Drained(n) = In(n)
  BY <1>5, DrainedBound
<1> QED
  BY <1>6 DEF Drained

(* A node that leaves its loop in good order has had an "EOF" from every
   parent and has left nothing in a pipe (the counting of "EOF"s by
   Node::ReadInputs, and the loops of every Execute), in every graph in which
   no batch node has several parents.  For those it does not hold: they count
   what they have kept anew with every call.                                *)
THEOREM ClosesComplete ==
  ASSUME PlainData, OneParent
  PROVE  Spec => []ClosesAfterEveryEof
<1>1. CountInv /\ [Next]_vars => CountInv'
  BY NextCount
<1> QED
  BY <1>1, CountCloses, InitCount, PTL DEF Spec

-----------------------------------------------------------------------------
(***************************************************************************)
(* SIGPIPE.                                                                *)
(*                                                                         *)
(* Without failures a node closes its inputs only when their streams are   *)
(* over.  So a pipe that has lost its reader has had its "EOF", and a node *)
(* that writes to one is at its own last word.                             *)
(***************************************************************************)

(* No command fails, every expression compiles, and a distributor that has a
   parent has a child.                                                      *)
NothingFails ==
  /\ MayFail = {} /\ BadRegex = {}
  /\ \A n \in Node : Kind[n] = "distro" /\ Outputs[n] = <<>> => Root(n)

(* A pipe whose reader has gone. *)
Left(e) == pc[e[2]] # "begin" /\ ~readers[e]

BrokenOK(n) ==
  pc[n] = "killed" => closing[n] /\ \E e \in Out(n) : EndsWithEof(sent[e])

LeftInv ==
  /\ CountInv
  /\ \A n \in Node : stat[n] /\ BrokenOK(n)
  /\ \A e \in Edge : Left(e) => EndsWithEof(sent[e])

(* A stream that is over stays over. *)
LEMMA EndedStays ==
  ASSUME PlainData, StreamInv, NEW n \in Node, Step(n), NEW e \in Edge, EndsWithEof(sent[e])
  PROVE  EndsWithEof(sent[e])'
<1>1. CASE Write(n)
  <2>1. PICK d \in Edge, t \in Seq(Line) :
          NoEof(sent[d]) /\ sent' = [sent EXCEPT ![d] = @ \o t]
    BY <1>1, WriteAdds
  <2>2. d # e
    BY <2>1, SentOnce
  <2>3. sent'[e] = sent[e]
    BY <2>1, <2>2 DEF StreamInv, ContentInv, EofInv, TInv, TypeOK
  <2> QED
    BY <2>3 DEF EndsWithEof
<1>2. CASE ~Write(n)
  <2>1. sent' = sent
    BY <1>2 DEF Step, Begin, Poll, Read, Timeout, Join, Enter, Run, Fail, LoopEnd, SendEof, Open,
       OpenNone, PollOut, BrokenPipe, CloseOutputs, history
  <2> QED
    BY <2>1 DEF EndsWithEof
<1> QED
  BY <1>1, <1>2

(* What closes the inputs of a node. *)
LEMMA ClosesOwn ==
  ASSUME TypeOK, NEW n \in Node, Step(n), NEW e \in Edge, readers[e], ~readers'[e]
  PROVE  e \in In(n) /\ (SendEof(n) \/ Enter(n) \/ BrokenPipe(n) \/ CloseOutputs(n))
<1>1. ~(Begin(n) \/ Read(n) \/ Poll(n) \/ Timeout(n) \/ Join(n) \/ Run(n) \/ Fail(n) \/ LoopEnd(n)
        \/ Open(n) \/ OpenNone(n) \/ PollOut(n) \/ Write(n))
  BY DEF TypeOK, Begin, Read, Poll, Timeout, Join, Run, Fail, LoopEnd, Open, OpenNone, PollOut, Write,
     pipes
<1>2. CASE SendEof(n) \/ Enter(n) \/ BrokenPipe(n) \/ CloseOutputs(n)
  BY <1>2 DEF SendEof, Enter, BrokenPipe, CloseOutputs, Exit, CloseReads
<1> QED
  BY <1>1, <1>2 DEF Step

(* Somebody writes to a pipe that has lost its reader: all it had to say was
   "EOF", and there it has said it.                                         *)
LEMMA BrokenLast ==
  ASSUME PlainData, LeftInv, NEW n \in Node, BrokenPipe(n)
  PROVE  closing[n] /\ \E e \in Out(n) : EndsWithEof(sent[e])
<1>1. PICK e \in ready[n] : ~readers[e]
  BY DEF BrokenPipe
<1>2. StreamInv /\ StreamOK(n) /\ NodeOK(n) /\ pc[n] = "write"
  BY DEF LeftInv, CountInv, StreamInv, ContentInv, EofInv, BrokenPipe
<1>3. e \in opened[n] /\ pc[e[2]] # "begin" /\ e \in Out(n) /\ e \in Edge
  BY <1>1, <1>2, OutSubset DEF StreamOK, NodeOK, OwnOutputs
<1>4. EndsWithEof(sent[e])
  BY <1>1, <1>3 DEF LeftInv, Left
<1>5. ~NoEof(sent[e])
  BY <1>2, <1>3, <1>4, SentOnce
<1> QED
  BY <1>2, <1>3, <1>4, <1>5 DEF StreamOK, Unended

LEMMA LeftStep ==
  ASSUME PlainData, NothingFails, LeftInv, NEW n \in Node, Step(n), NEW e \in Edge, Left(e)'
  PROVE  EndsWithEof(sent[e])'
<1>1. StreamInv /\ TypeOK /\ EofInv /\ CountInv
  BY DEF LeftInv, CountInv, StreamInv, ContentInv, EofInv, TInv
<1>2. CASE readers[e]
  <2>1. e \in In(n) /\ (SendEof(n) \/ Enter(n) \/ BrokenPipe(n) \/ CloseOutputs(n))
    BY <1>1, <1>2, ClosesOwn DEF Left
  <2>2. CASE Enter(n)
    <3>1. Kind[n] = "distro" /\ Outputs[n] = <<>>
      BY <1>2, <2>2 DEF Enter, Left
    <3> QED
      BY <2>1, <3>1 DEF NothingFails, Root
  <2>3. CASE ~Enter(n)
    <3>1. pc[n] = "end" \/ closing[n]
      <4>1. CASE SendEof(n)
        BY <4>1 DEF SendEof
      <4>2. CASE BrokenPipe(n)
        BY <4>2, BrokenLast
      <4>3. CASE CloseOutputs(n)
        BY <1>2, <4>3 DEF CloseOutputs, Left
      <4> QED
        BY <2>1, <2>3, <4>1, <4>2, <4>3
    <3>2. EndsWithEof(sent[e])
      BY <1>1, <2>1, <3>1, CountCloses DEF ClosesAfterEveryEof, LeftInv
    <3> QED
      BY <1>1, <3>2, EndedStays
  <2> QED
    BY <2>2, <2>3
<1>3. CASE ~readers[e]
  <2>1. pc[e[2]] # "begin"
    <3> SUFFICES ASSUME pc[e[2]] = "begin" PROVE FALSE
      OBVIOUS
    <3>1. e[2] = n
      BY <1>1, EdgeNodes, Others DEF Left, Elsewhere, EofInv, NodeOK
    <3>2. Begin(n)
      BY <3>1 DEF Step, Begin, Poll, Read, Timeout, Join, Enter, Run, At, Fail, LoopEnd, SendEof, Open,
         OpenNone, PollOut, Write, BrokenPipe, CloseOutputs
    <3>3. e \in In(n)
      BY <3>1 DEF In
    <3> QED
      BY <3>2, <3>3 DEF Begin, Left, Root
  <2>2. EndsWithEof(sent[e])
    BY <1>3, <2>1 DEF LeftInv, Left
  <2> QED
    BY <1>1, <2>2, EndedStays
<1> QED
  BY <1>2, <1>3

LEMMA KilledBy ==
  ASSUME TypeOK, NEW n \in Node, Step(n), pc'[n] = "killed"
  PROVE  BrokenPipe(n)
<1> USE DEF TypeOK, GoTo
<1>1. ~(Begin(n) \/ Poll(n) \/ Join(n) \/ Enter(n) \/ Run(n) \/ Fail(n) \/ LoopEnd(n) \/ SendEof(n))
  BY DEF Begin, Poll, Join, Enter, Exit, Run, At, Fail, LoopEnd, SendEof
<1>2. ~(Read(n) \/ Timeout(n))
  BY DEF Read, Timeout, Collect
<1>3. ~(Open(n) \/ OpenNone(n))
  BY DEF Open, OpenNone, StartWrite
<1>4. ~(PollOut(n) \/ CloseOutputs(n))
  BY DEF PollOut, CloseOutputs, Exit
<1>5. ~Write(n)
  <2> SUFFICES ASSUME Write(n) PROVE FALSE
    OBVIOUS
  <2>1. pc[n] = "write" /\ (pc' = pc \/ GoTo(n, "pollout") \/ GoTo(n, "wrote"))
    BY DEF Write
  <2> QED
    BY <2>1
<1> QED
  BY <1>1, <1>2, <1>3, <1>4, <1>5 DEF Step

LEMMA StatStays ==
  ASSUME NothingFails, TypeOK, NEW n \in Node, Step(n), NEW m \in Node, stat[m]
  PROVE  stat'[m]
<1>1. CASE Enter(n)
  <2>1. stat' = stat \/ stat' = [stat EXCEPT ![n] = n \notin BadRegex]
    BY <1>1 DEF Enter
  <2> QED
    BY <2>1 DEF NothingFails, TypeOK
<1>2. CASE Fail(n)
  BY <1>2 DEF Fail, NothingFails
<1>3. CASE ~Enter(n) /\ ~Fail(n)
  BY <1>3 DEF Step, Begin, Poll, Read, Timeout, Join, Run, LoopEnd, SendEof, Open, OpenNone, PollOut,
     Write, BrokenPipe, CloseOutputs
<1> QED
  BY <1>1, <1>2, <1>3

LEMMA NextLeft == PlainData /\ OneParent /\ NothingFails /\ LeftInv /\ [Next]_vars => LeftInv'
<1> SUFFICES ASSUME PlainData, OneParent, NothingFails, LeftInv, [Next]_vars PROVE LeftInv'
  OBVIOUS
<1>1. CountInv'
  BY NextCount DEF LeftInv
<1>2. CASE UNCHANGED vars
  BY <1>1, <1>2 DEF LeftInv, BrokenOK, Left, EndsWithEof, vars, ctl, pipes, history
<1>3. ASSUME NEW n \in Node, Step(n) PROVE LeftInv'
  <2>1. StreamInv /\ TypeOK /\ EofInv
    BY DEF LeftInv, CountInv, StreamInv, ContentInv, EofInv, TInv
  <2>2. \A e \in Edge : Left(e)' => EndsWithEof(sent[e])'
    BY <1>3, LeftStep
  <2>3. \A m \in Node : stat'[m]
    BY <1>3, <2>1, StatStays DEF LeftInv
  <2>4. BrokenOK(n)'
    <3> SUFFICES ASSUME pc'[n] = "killed"
                 PROVE  closing'[n] /\ \E e \in Out(n) : EndsWithEof(sent[e])'
      BY DEF BrokenOK, Out
    <3>1. BrokenPipe(n)
      BY <1>3, <2>1, KilledBy
    <3>2. PICK e \in Out(n) : closing[n] /\ EndsWithEof(sent[e])
      BY <3>1, BrokenLast
    <3>3. closing' = closing /\ sent' = sent
      BY <3>1 DEF BrokenPipe, history
    <3> QED
      BY <3>2, <3>3 DEF EndsWithEof
  <2>5. ASSUME NEW m \in Node, m # n PROVE BrokenOK(m)'
    <3>1. Elsewhere(m) /\ BrokenOK(m)
      BY <1>3, <2>1, <2>5, Others DEF EofInv, NodeOK, LeftInv
    <3> QED
      BY <3>1 DEF Elsewhere, BrokenOK, EndsWithEof, Out
  <2>6. \A m \in Node : BrokenOK(m)'
    BY <2>4, <2>5
  <2> QED
    BY <1>1, <2>2, <2>3, <2>6 DEF LeftInv
<1> QED
  BY <1>2, <1>3 DEF Next, Done

LEMMA InitLeft == Init => LeftInv
<1> SUFFICES ASSUME Init PROVE LeftInv
  OBVIOUS
<1>1. \A n \in Node : pc[n] = "begin" /\ stat[n]
  BY DEF Init
<1>2. \A e \in Edge : pc[e[2]] = "begin"
  BY <1>1, EdgeNodes
<1> QED
  BY <1>1, <1>2, InitCount DEF LeftInv, BrokenOK, Left

(* A node that polls and writes outputs it has written before may be killed
   by SIGPIPE (Node::WriteOutputs), but not in the middle of its work: in
   every graph in which nothing fails and no batch node has several parents,
   it has then run on all that came to it, is sending its "EOF", and one of
   its children has got that.                                               *)
THEOREM KilledLate ==
  ASSUME PlainData, OneParent, NothingFails
  PROVE  Spec => []KilledAtTheEnd
<1>1. LeftInv => KilledAtTheEnd
  <2>1. LeftInv => ClosesAfterEveryEof
    BY CountCloses DEF LeftInv
  <2> QED
    BY <2>1 DEF LeftInv, BrokenOK, KilledAtTheEnd, ClosesAfterEveryEof
<1>2. LeftInv /\ [Next]_vars => LeftInv'
  BY NextLeft
<1> QED
  BY <1>1, <1>2, InitLeft, PTL DEF Spec
=============================================================================
