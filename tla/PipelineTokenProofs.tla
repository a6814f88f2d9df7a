------------------------ MODULE PipelineTokenProofs -------------------------
(***************************************************************************)
(* No token is lost, repeated or overtaken.  What has been written for a   *)
(* node is in its pipes, in what it has read, among its inputs or among    *)
(* what it has run on, so often in each that the sum is right; and behind  *)
(* a single parent the same holds of the positions.                        *)
(***************************************************************************)
EXTENDS PipelineProofs, PipelineProps

(* What is on its way to node n is in one place. *)
TokenOK(n) ==
  /\ \A l \in Line \ {EOF} :
       WrittenTo(n, l) = Copies(l, [e \in In(n) |-> fifo[e]]) + Count(l, buf[n])
                           + Copies(l, inputs[n]) + Copies(l, handled[n])
  /\ pc[n] \in {"poll", "read", "join"} => \A i \in 1..Len(inputs[n]) : Len(inputs[n][i]) = 1
  /\ \A i \in 1..Len(handled[n]) : NoEof(handled[n][i])

(* A node reads its own pipes, and nothing is left half read. *)
ReadOK(n) ==
  /\ pc[n] = "begin" => inputs[n] = <<>>
  /\ pc[n] = "read" => ready[n] \subseteq In(n)
  /\ pc[n] # "read" => buf[n] = <<>>

TokenInv ==
  /\ ContentInv
  /\ \A n \in Node : ReadOK(n) /\ (~Root(n) => TokenOK(n))

(* What is left over when node n leaves its loop in good order. *)
DoneOK(n) ==
  /\ pc[n] = "end" \/ closing[n] =>
       (stat[n] => \A i \in 1..Len(inputs[n]) : inputs[n][i] = <<EOF>>)
  /\ pc[n] = "exited" => closing[n]

DoneInv ==
  /\ TokenInv
  /\ CountInv
  /\ \A n \in Node : ~Root(n) => DoneOK(n)

RootDistros == \A n \in Node : Kind[n] = "distro" => Root(n)

(* What is on the stream st has been handled, is among the inputs, in the
   buffer or in the pipe, in this order.                                    *)
Ordered(hd, ip, bf, ff, st) ==
  LET h == Len(hd)
      i == Len(ip)
      b == Len(bf)
      f == Len(ff)
  IN
  /\ h + i + b + f <= Len(st)
  /\ NoEof(st) => h + i + b + f = Len(st)
  /\ \A j \in 1..h : hd[j] = <<st[j]>>
  /\ \A j \in 1..i : ip[j] = <<st[h + j]>>
  /\ \A j \in 1..b : bf[j] = st[h + i + j]
  /\ \A j \in 1..f : ff[j] = st[h + i + b + j]

(* So it is behind the only parent of node n. *)
OrderOK(n, e) ==
  /\ Ordered(handled[n], inputs[n], buf[n], fifo[e], sent[e])
  /\ pc[n] \in {"poll", "read"} => inputs[n] = <<>>
  /\ pc[n] # "join"

OrderInv ==
  /\ StreamInv
  /\ \A n \in Node : ReadOK(n)
  /\ \A n \in Node \ Batch, e \in Edge : In(n) = {e} => OrderOK(n, e)

-----------------------------------------------------------------------------
(* The lines on the pipes to node n. *)

Piped(n, l, f) == Copies(l, [e \in In(n) |-> f[e]])

LEMMA PipedType ==
  ASSUME NEW n \in Node, NEW l, NEW f \in [Edge -> Seq(Line)]
  PROVE  Piped(n, l, f) \in Nat
<1>1. [e \in In(n) |-> f[e]] \in [In(n) -> Seq(Line)]
  BY InSubset
<1> QED
  BY <1>1, InFinite, PlacesFinite DEF Piped

LEMMA PipedSame ==
  ASSUME NEW n \in Node, NEW l, NEW f, NEW g, \A e \in In(n) : f[e] = g[e]
  PROVE  Piped(n, l, f) = Piped(n, l, g)
<1>1. [e \in In(n) |-> f[e]] = [e \in In(n) |-> g[e]]
  OBVIOUS
<1> QED
  BY <1>1 DEF Piped

LEMMA PipedChange ==
  ASSUME NEW n \in Node, NEW l, NEW f \in [Edge -> Seq(Line)], NEW g \in [Edge -> Seq(Line)],
         NEW e \in In(n), \A d \in Edge : d # e => f[d] = g[d]
  PROVE  Piped(n, l, f) + Count(l, g[e]) = Piped(n, l, g) + Count(l, f[e])
<1> DEFINE F == [d \in In(n) |-> f[d]]
           G == [d \in In(n) |-> g[d]]
<1>1. F \in [In(n) -> Seq(Line)] /\ G \in [In(n) -> Seq(Line)]
  BY InSubset
<1>2. F[e] = f[e] /\ G[e] = g[e] /\ \A d \in In(n) : d # e => F[d] = G[d]
  BY InSubset
<1>3. Piped(n, l, f) = Copies(l, F) /\ Piped(n, l, g) = Copies(l, G)
  BY DEF Piped
<1>4. IsFiniteSet(In(n))
  BY InFinite
<1> HIDE DEF F, G
<1>5. Copies(l, F) + Count(l, G[e]) = Copies(l, G) + Count(l, F[e])
  <2>1. ASSUME NEW h \in [In(n) -> Seq(Line)], NEW k \in [In(n) -> Seq(Line)],
               \A d \in In(n) : d # e => h[d] = k[d]
        PROVE  Copies(l, h) + Count(l, k[e]) = Copies(l, k) + Count(l, h[e])
    <3>1. SameBut(In(n), e, h, k)
      BY <2>1 DEF SameBut
    <3> QED
      BY <1>4, <3>1, CopiesChange
  <2> QED
    BY <1>1, <1>2, <2>1
<1> QED
  BY <1>2, <1>3, <1>5

(* What a pipe gets is what is written to it. *)
LEMMA FlowsOn ==
  ASSUME TInv, TInv', NEW k \in Node, Step(k), ReadOK(k), NEW n \in Node, n = k => ~Read(k), NEW l
  PROVE  Piped(n, l, sent') + Piped(n, l, fifo) = Piped(n, l, sent) + Piped(n, l, fifo')
<1>1. /\ sent \in [Edge -> Seq(Line)] /\ fifo \in [Edge -> Seq(Line)]
      /\ sent' \in [Edge -> Seq(Line)] /\ fifo' \in [Edge -> Seq(Line)]
  BY DEF TInv, TypeOK
<1>2. /\ Piped(n, l, sent) \in Nat /\ Piped(n, l, fifo) \in Nat
      /\ Piped(n, l, sent') \in Nat /\ Piped(n, l, fifo') \in Nat
  BY <1>1, PipedType
<1>3. CASE Write(k)
  <2> DEFINE t == Head(outq[k])
  <2>1. PICK e \in ready[k] :
          fifo' = [fifo EXCEPT ![e] = @ \o t] /\ sent' = [sent EXCEPT ![e] = @ \o t]
    BY <1>3 DEF Write
  <2>2. outq[k] \in Seq(String) /\ outq[k] # <<>>
    BY <1>3 DEF Write, TInv, TypeOK, OutqOK
  <2>3. t \in Seq(Line)
    BY <2>2, StringType
  <2> HIDE DEF t
  <2>4. \A d \in Edge : d # e => fifo'[d] = fifo[d] /\ sent'[d] = sent[d]
    BY <1>1, <2>1
  <2>5. CASE e \in In(n)
    <3>1. e \in Edge /\ fifo[e] \in Seq(Line) /\ sent[e] \in Seq(Line)
      BY <1>1, <2>5, InSubset
    <3>2. fifo'[e] = fifo[e] \o t /\ sent'[e] = sent[e] \o t
      BY <1>1, <2>1, <3>1
    <3>3. Count(l, fifo'[e]) = Count(l, fifo[e]) + Count(l, t) /\ Count(l, sent'[e]) = Count(l, sent[e]) + Count(l, t)
      BY <2>3, <3>1, <3>2, CountConcat
    <3>0. /\ \A d \in Edge : d # e => sent'[d] = sent[d]
          /\ \A d \in Edge : d # e => fifo'[d] = fifo[d]
      BY <2>4
    <3>a. ASSUME NEW f \in [Edge -> Seq(Line)], NEW g \in [Edge -> Seq(Line)],
                 \A d \in Edge : d # e => f[d] = g[d]
          PROVE  Piped(n, l, f) + Count(l, g[e]) = Piped(n, l, g) + Count(l, f[e])
      BY <2>5, <3>a, PipedChange
    <3>b. \A f, g \in [Edge -> Seq(Line)] : (\A d \in Edge : d # e => f[d] = g[d]) =>
            Piped(n, l, f) + Count(l, g[e]) = Piped(n, l, g) + Count(l, f[e])
      BY <3>a
    <3>4. Piped(n, l, sent') + Count(l, sent[e]) = Piped(n, l, sent) + Count(l, sent'[e])
      BY <1>1, <3>0, <3>b
    <3>5. Piped(n, l, fifo') + Count(l, fifo[e]) = Piped(n, l, fifo) + Count(l, fifo'[e])
      BY <1>1, <3>0, <3>b
    <3>6. Count(l, fifo[e]) \in Nat /\ Count(l, sent[e]) \in Nat /\ Count(l, t) \in Nat
      BY <2>3, <3>1, CountType
    <3> QED
      BY <1>2, <3>3, <3>4, <3>5, <3>6
  <2>6. CASE e \notin In(n)
    <3>1. \A d \in In(n) : fifo'[d] = fifo[d] /\ sent'[d] = sent[d]
      BY <2>4, <2>6, InSubset
    <3>2. Piped(n, l, fifo') = Piped(n, l, fifo) /\ Piped(n, l, sent') = Piped(n, l, sent)
      BY <3>1, PipedSame
    <3> QED
      BY <1>2, <3>2
  <2> QED
    BY <2>5, <2>6
<1>4. CASE Read(k)
  <2>1. PICK e \in ready[k] : fifo' = [fifo EXCEPT ![e] = <<>>]
    BY <1>4 DEF Read
  <2>2. e \in In(k) /\ sent' = sent
    BY <1>4 DEF Read, ReadOK, history
  <2>3. \A d \in In(n) : d # e /\ d \in Edge
    BY <1>4, <2>2 DEF In
  <2>4. \A d \in In(n) : fifo'[d] = fifo[d] /\ sent'[d] = sent[d]
    BY <1>1, <2>1, <2>2, <2>3
  <2>5. Piped(n, l, fifo') = Piped(n, l, fifo) /\ Piped(n, l, sent') = Piped(n, l, sent)
    BY <2>4, PipedSame
  <2> QED
    BY <1>2, <2>5
<1>5. CASE ~Write(k) /\ ~Read(k)
  <2>1. fifo' = fifo /\ sent' = sent
    BY <1>5, LinesStay
  <2> QED
    BY <1>2, <2>1
<1> QED
  BY <1>3, <1>4, <1>5

-----------------------------------------------------------------------------
(* What a node has read. *)

LEMMA ReadUnmoved ==
  ASSUME NEW m \in Node, ReadOK(m), Elsewhere(m), Untouched(m)
  PROVE  ReadOK(m)'
BY InSubset DEF ReadOK, Elsewhere, Untouched

LEMMA StepRead ==
  ASSUME TInv, NEW n \in Node, ReadOK(n), Step(n)
  PROVE  ReadOK(n)'
<1>1. TypeOK /\ pc'[n] # "begin"
  BY BeginsOnce DEF TInv
<1> USE <1>1 DEF TypeOK, GoTo
<1>2. CASE Read(n)
  <2>1. PICK e \in ready[n] :
          /\ ready' = [ready EXCEPT ![n] = @ \ {e}]
          /\ IF ready[n] = {e} THEN Collect(n, buf[n] \o fifo[e]) ELSE UNCHANGED pc
    BY <1>2 DEF Read
  <2>2. pc[n] = "read" /\ ready[n] \subseteq In(n)
    BY <1>2 DEF Read, ReadOK
  <2>3. ready'[n] \subseteq In(n)'
    BY <2>1, <2>2, InSubset
  <2>4. CASE ready[n] = {e}
    <3>1. buf'[n] = <<>>
      BY <2>1, <2>4 DEF Collect
    <3> QED
      BY <2>3, <3>1 DEF ReadOK
  <2>5. CASE ready[n] # {e}
    BY <2>1, <2>2, <2>3, <2>5 DEF ReadOK
  <2> QED
    BY <2>4, <2>5
<1>3. CASE Timeout(n)
  <2>1. Collect(n, <<>>)
    BY <1>3 DEF Timeout
  <2>2. buf'[n] = <<>> /\ pc'[n] # "read"
    BY <2>1 DEF Collect
  <2> QED
    BY <2>2 DEF ReadOK
<1>4. CASE Poll(n)
  <2>1. /\ ready'[n] \subseteq In(n) /\ buf' = buf /\ pc[n] = "poll" /\ pc'[n] = "read"
    BY <1>4 DEF Poll, reading
  <2> QED
    BY <2>1, InSubset DEF ReadOK
<1>5. CASE ~Read(n) /\ ~Timeout(n) /\ ~Poll(n)
  <2>1. buf' = buf
    BY <1>5 DEF Step, Begin, Join, Enter, Run, Fail, LoopEnd, SendEof, Open, OpenNone, PollOut, Write,
                BrokenPipe, CloseOutputs, reading
  <2>2. pc[n] # "read"
    BY <1>5 DEF Step, Begin, Join, Enter, Run, Fail, At, LoopEnd, SendEof, Open, OpenNone, PollOut, Write,
                BrokenPipe, CloseOutputs
  <2>3. pc'[n] # "read"
    <3>1. CASE Begin(n) \/ Join(n) \/ Fail(n) \/ LoopEnd(n) \/ SendEof(n) \/ PollOut(n) \/ BrokenPipe(n)
      BY <3>1 DEF Begin, Join, Fail, LoopEnd, SendEof, PollOut, BrokenPipe
    <3>2. CASE Enter(n) \/ CloseOutputs(n)
      BY <3>2 DEF Enter, Exit, CloseOutputs
    <3>3. CASE Run(n)
      BY <2>2, <3>3 DEF Run
    <3>4. CASE Open(n) \/ OpenNone(n)
      BY <2>2, <3>4 DEF Open, OpenNone, StartWrite
    <3>5. CASE Write(n)
      BY <2>2, <3>5 DEF Write
    <3> QED
      BY <1>5, <3>1, <3>2, <3>3, <3>4, <3>5 DEF Step
  <2> QED
    BY <2>1, <2>2, <2>3 DEF ReadOK
<1> QED
  BY <1>2, <1>3, <1>4, <1>5

-----------------------------------------------------------------------------
(* What is written for a node is on its way to it, or with it. *)

LEMMA TokenNext ==
  ASSUME NEW n \in Node,
         \A l \in Line \ {EOF} :
           Piped(n, l, sent') = Piped(n, l, fifo') + Count(l, buf'[n])
                                  + Copies(l, inputs'[n]) + Copies(l, handled'[n]),
         pc'[n] \in {"poll", "read", "join"} => \A i \in 1..Len(inputs'[n]) : Len(inputs'[n][i]) = 1,
         \A i \in 1..Len(handled'[n]) : NoEof(handled'[n][i])
  PROVE  TokenOK(n)'
<1>1. ASSUME NEW l \in Line \ {EOF}
      PROVE  (WrittenTo(n, l) = Copies(l, [e \in In(n) |-> fifo[e]]) + Count(l, buf[n])
                + Copies(l, inputs[n]) + Copies(l, handled[n]))'
  BY InSubset DEF WrittenTo, Piped, Copies, Count
<1> QED
  BY <1>1 DEF TokenOK, NoEof

LEMMA HandType ==
  ASSUME TypeOK, NEW n \in Node, NEW l
  PROVE  /\ Piped(n, l, sent) \in Nat /\ Piped(n, l, fifo) \in Nat
         /\ Count(l, buf[n]) \in Nat /\ Copies(l, inputs[n]) \in Nat /\ Copies(l, handled[n]) \in Nat
BY PipedType, CountType, CopiesType DEF TypeOK

LEMMA HandTypeNext ==
  ASSUME TypeOK', NEW n \in Node, NEW l
  PROVE  /\ Piped(n, l, sent') \in Nat /\ Piped(n, l, fifo') \in Nat
         /\ Count(l, buf'[n]) \in Nat /\ Copies(l, inputs'[n]) \in Nat /\ Copies(l, handled'[n]) \in Nat
BY PipedType, CountType, CopiesType DEF TypeOK

LEMMA TokenSum ==
  ASSUME NEW n \in Node, TokenOK(n), NEW l \in Line \ {EOF}
  PROVE  Piped(n, l, sent) = Piped(n, l, fifo) + Count(l, buf[n]) + Copies(l, inputs[n]) + Copies(l, handled[n])
BY DEF TokenOK, WrittenTo, Piped

(* A step that takes nothing from the pipes, and forgets no line. *)
LEMMA TokenStays ==
  ASSUME TInv, TInv', NEW n \in Node, TokenOK(n),
         \A l \in Line : Piped(n, l, sent') + Piped(n, l, fifo) = Piped(n, l, sent) + Piped(n, l, fifo'),
         buf'[n] = buf[n],
         \A l \in Line \ {EOF} :
           Copies(l, inputs'[n]) + Copies(l, handled'[n]) = Copies(l, inputs[n]) + Copies(l, handled[n]),
         pc'[n] \in {"poll", "read", "join"} => \A i \in 1..Len(inputs'[n]) : Len(inputs'[n][i]) = 1,
         \A i \in 1..Len(handled'[n]) : NoEof(handled'[n][i])
  PROVE  TokenOK(n)'
<1>1. ASSUME NEW l \in Line \ {EOF}
      PROVE  Piped(n, l, sent') = Piped(n, l, fifo') + Count(l, buf'[n])
                                    + Copies(l, inputs'[n]) + Copies(l, handled'[n])
  <2>1. Piped(n, l, sent) = Piped(n, l, fifo) + Count(l, buf[n]) + Copies(l, inputs[n]) + Copies(l, handled[n])
    BY TokenSum
  <2>2. /\ Piped(n, l, sent') + Piped(n, l, fifo) = Piped(n, l, sent) + Piped(n, l, fifo')
        /\ Copies(l, inputs'[n]) + Copies(l, handled'[n]) = Copies(l, inputs[n]) + Copies(l, handled[n])
        /\ Count(l, buf'[n]) = Count(l, buf[n])
    OBVIOUS
  <2>3. /\ Piped(n, l, sent) \in Nat /\ Piped(n, l, fifo) \in Nat /\ Count(l, buf[n]) \in Nat
        /\ Copies(l, inputs[n]) \in Nat /\ Copies(l, handled[n]) \in Nat
    BY HandType DEF TInv
  <2>4. /\ Piped(n, l, sent') \in Nat /\ Piped(n, l, fifo') \in Nat
        /\ Copies(l, inputs'[n]) \in Nat /\ Copies(l, handled'[n]) \in Nat
    BY HandTypeNext DEF TInv
  <2> DEFINE a == Piped(n, l, sent)    a1 == Piped(n, l, sent')
             b == Piped(n, l, fifo)    b1 == Piped(n, l, fifo')
             c == Count(l, buf[n])     c1 == Count(l, buf'[n])
             d == Copies(l, inputs[n])   d1 == Copies(l, inputs'[n])
             h == Copies(l, handled[n])  h1 == Copies(l, handled'[n])
  <2>5. a = b + c + d + h /\ a1 + b = a + b1 /\ c1 = c /\ d1 + h1 = d + h
    BY <2>1, <2>2
  <2>6. /\ a \in Nat /\ b \in Nat /\ c \in Nat /\ d \in Nat /\ h \in Nat
        /\ a1 \in Nat /\ b1 \in Nat /\ d1 \in Nat /\ h1 \in Nat
    BY <2>3, <2>4
  <2> HIDE DEF a, b, c, d, h, a1, b1, c1, d1, h1
  <2>7. a1 = b1 + c1 + d1 + h1
    BY <2>5, <2>6
  <2> QED
    BY <2>7 DEF a1, b1, c1, d1, h1
<1> QED
  BY <1>1, TokenNext

LEMMA HandledElsewhere ==
  ASSUME TypeOK, NEW k \in Node, Step(k), NEW n \in Node, n # k \/ ~Run(k)
  PROVE  handled'[n] = handled[n]
<1>1. CASE Run(k)
  <2>1. PICK i \in DOMAIN inputs[k] : handled' = [handled EXCEPT ![k] = Append(@, inputs[k][i])]
    BY <1>1 DEF Run
  <2> QED
    BY <1>1, <2>1 DEF TypeOK
<1>2. CASE Begin(k) \/ Poll(k) \/ Read(k) \/ Timeout(k)
  BY <1>2 DEF Begin, Poll, Read, Timeout, history
<1>3. CASE Join(k) \/ Enter(k) \/ Fail(k) \/ LoopEnd(k) \/ SendEof(k)
  BY <1>3 DEF Join, Enter, Fail, LoopEnd, SendEof, history
<1>4. CASE Open(k) \/ OpenNone(k) \/ PollOut(k)
  BY <1>4 DEF Open, OpenNone, PollOut, history
<1>5. CASE Write(k) \/ BrokenPipe(k) \/ CloseOutputs(k)
  BY <1>5 DEF Write, BrokenPipe, CloseOutputs, history
<1> QED
  BY <1>1, <1>2, <1>3, <1>4, <1>5 DEF Step

(* Another node's step. *)
LEMMA TokenElsewhere ==
  ASSUME TInv, TInv', NEW k \in Node, Step(k), ReadOK(k), NEW n \in Node, n # k,
         TokenOK(n), Elsewhere(n), Untouched(n)
  PROVE  TokenOK(n)'
<1>1. \A l \in Line : Piped(n, l, sent') + Piped(n, l, fifo) = Piped(n, l, sent) + Piped(n, l, fifo')
  BY FlowsOn
<1>2. handled'[n] = handled[n]
  BY HandledElsewhere DEF TInv
<1>3. inputs'[n] = inputs[n] /\ buf'[n] = buf[n] /\ pc'[n] = pc[n]
  BY DEF Elsewhere, Untouched
<1>4. /\ pc'[n] \in {"poll", "read", "join"} => \A i \in 1..Len(inputs'[n]) : Len(inputs'[n][i]) = 1
      /\ \A i \in 1..Len(handled'[n]) : NoEof(handled'[n][i])
  BY <1>2, <1>3 DEF TokenOK
<1> QED
  BY <1>1, <1>2, <1>3, <1>4, TokenStays

(* The steps that have nothing to do with the inputs. *)
LEMMA OtherTokens ==
  ASSUME TInv, TInv', NEW n \in Node, ~Root(n), ReadOK(n), TokenOK(n),
         \/ Begin(n) \/ Poll(n) \/ Enter(n) \/ Fail(n) \/ SendEof(n) \/ Open(n) \/ OpenNone(n)
         \/ PollOut(n) \/ Write(n) \/ BrokenPipe(n) \/ CloseOutputs(n)
  PROVE  TokenOK(n)'
<1>1. Step(n) /\ TypeOK
  BY DEF Step, TInv
<1>2. ~Read(n)
  BY DEF Read, Begin, Poll, Enter, Fail, At, SendEof, Open, OpenNone, PollOut, Write, BrokenPipe, CloseOutputs
<1>3. ~Run(n)
  <2>1. CASE Fail(n)
    <3>1. UNCHANGED handled
      BY <2>1 DEF Fail, history
    <3>2. UNCHANGED inputs
      BY <2>1 DEF Fail, reading
    <3>3. pc'[n] = "end"
      BY <1>1, <2>1 DEF Fail, GoTo, TypeOK
    <3>4. Run(n) => pc'[n] \in {"work", "open"}
      BY <1>1 DEF Run, At, GoTo, TypeOK
    <3> QED
      BY <3>3, <3>4
  <2>2. CASE ~Fail(n)
    BY <2>2 DEF Run, At, Begin, Poll, Enter, SendEof, Open, OpenNone, PollOut, Write, BrokenPipe, CloseOutputs
  <2> QED
    BY <2>1, <2>2
<1>4. \A l \in Line : Piped(n, l, sent') + Piped(n, l, fifo) = Piped(n, l, sent) + Piped(n, l, fifo')
  BY <1>1, <1>2, FlowsOn
<1>5. handled'[n] = handled[n]
  BY <1>1, <1>3, HandledElsewhere
<1>6. inputs'[n] = inputs[n] /\ buf'[n] = buf[n]
  BY DEF Begin, Poll, Enter, Fail, SendEof, Open, OpenNone, PollOut, Write, BrokenPipe, CloseOutputs, reading
<1>7. pc'[n] \in {"poll", "read", "join"} => \A i \in 1..Len(inputs'[n]) : Len(inputs'[n][i]) = 1
  <2> USE <1>1 DEF TypeOK, GoTo
  <2>1. CASE Begin(n)
    <3>1. inputs[n] = <<>>
      BY <2>1 DEF Begin, ReadOK
    <3> QED
      BY <1>6, <3>1
  <2>2. CASE Poll(n)
    <3>1. pc[n] = "poll"
      BY <2>2 DEF Poll
    <3> QED
      BY <1>6, <3>1 DEF TokenOK
  <2>3. CASE Enter(n)
    BY <2>3 DEF Enter, Exit
  <2>4. CASE Fail(n) \/ SendEof(n) \/ PollOut(n)
    BY <2>4 DEF Fail, SendEof, PollOut
  <2>5. CASE BrokenPipe(n) \/ CloseOutputs(n)
    BY <2>5 DEF BrokenPipe, CloseOutputs, Exit
  <2>6. CASE Open(n) \/ OpenNone(n)
    <3>1. pc'[n] \in {"open", "wrote", "pollout"}
      BY <2>6 DEF Open, OpenNone, StartWrite
    <3> QED
      BY <3>1
  <2>7. CASE Write(n)
    <3>1. pc'[n] \in {"write", "wrote", "pollout"}
      BY <2>7 DEF Write
    <3> QED
      BY <3>1
  <2> QED
    BY <2>1, <2>2, <2>3, <2>4, <2>5, <2>6, <2>7
<1>8. \A i \in 1..Len(handled'[n]) : NoEof(handled'[n][i])
  BY <1>5 DEF TokenOK
<1> QED
  BY <1>4, <1>5, <1>6, <1>7, <1>8, TokenStays

LEMMA RunTokens ==
  ASSUME TInv, TInv', NEW n \in Node, ~Root(n), ContentOK(n), ReadOK(n), TokenOK(n), Run(n)
  PROVE  TokenOK(n)'
<1> DEFINE s == inputs[n]
           h == handled[n]
<1>1. PICK i \in DOMAIN inputs[n] :
        /\ At(n, i)
        /\ inputs' = [inputs EXCEPT ![n] = Rest(n, i)]
        /\ handled' = [handled EXCEPT ![n] = Append(@, inputs[n][i])]
  BY DEF Run
<1>2. Step(n) /\ ~Read(n) /\ buf' = buf /\ TypeOK
  BY DEF Step, Run, At, Read, TInv
<1>3. s \in Seq(String) /\ i \in 1..Len(s) /\ s[i] \in String /\ h \in Seq(String)
  BY DEF TInv, TypeOK
<1>4. s[i] # <<EOF>> /\ \A j \in 1..(i - 1) : s[j] = <<EOF>>
  BY <1>1 DEF At, Skipped
<1>5. inputs'[n] = SubSeq(s, i + 1, Len(s)) /\ handled'[n] = Append(h, s[i])
  BY <1>1, <1>2 DEF TypeOK, Rest
<1>6. \A l \in Line : Piped(n, l, sent') + Piped(n, l, fifo) = Piped(n, l, sent) + Piped(n, l, fifo')
  BY <1>2, FlowsOn
<1>7. NoEof(s[i])
  BY <1>3, <1>4 DEF ContentOK
<1>8. pc'[n] \notin {"poll", "read", "join"}
  BY <1>2 DEF Run, At, GoTo, TypeOK
<1>9. \A j \in 1..Len(handled'[n]) : NoEof(handled'[n][j])
  <2>1. \A j \in 1..Len(h) : NoEof(h[j])
    BY DEF TokenOK
  <2> HIDE DEF s, h
  <2>2. Len(Append(h, s[i])) = Len(h) + 1 /\ \A j \in 1..Len(h) + 1 : j \in 1..Len(h) \/ j = Len(h) + 1
    BY <1>3
  <2>3. Append(h, s[i])[Len(h) + 1] = s[i] /\ \A j \in 1..Len(h) : Append(h, s[i])[j] = h[j]
    BY <1>3
  <2> QED
    BY <1>5, <1>7, <2>1, <2>2, <2>3
<1> HIDE DEF s, h
<1>10. ASSUME NEW l \in Line \ {EOF}
       PROVE  Copies(l, inputs'[n]) + Copies(l, handled'[n]) = Copies(l, s) + Copies(l, h)
  <2>2. Copies(l, s) = Count(l, s[i]) + Copies(l, SubSeq(s, i + 1, Len(s)))
        /\ SubSeq(s, i + 1, Len(s)) \in Seq(String)
    BY <1>3, <1>4, CopiesTaken
  <2>3. Copies(l, Append(h, s[i])) = Copies(l, h) + Count(l, s[i])
    BY <1>3, CopiesAppend
  <2>4. Copies(l, h) \in Nat /\ Count(l, s[i]) \in Nat /\ Copies(l, SubSeq(s, i + 1, Len(s))) \in Nat
    BY <1>3, <2>2, CopiesType, CountType, StringType
  <2> QED
    BY <1>5, <2>2, <2>3, <2>4
<1> QED
  BY <1>2, <1>6, <1>8, <1>9, <1>10, TokenStays DEF s, h

LEMMA LoopEndTokens ==
  ASSUME TInv, TInv', NEW n \in Node, ~Root(n), ReadOK(n), TokenOK(n), LoopEnd(n)
  PROVE  TokenOK(n)'
<1>1. Step(n) /\ ~Read(n) /\ ~Run(n) /\ buf' = buf /\ TypeOK
  <2>1. pc[n] = "work" /\ pc'[n] \in {"end", "poll"} /\ buf' = buf
    BY DEF LoopEnd, GoTo, TInv, TypeOK
  <2>2. Run(n) => pc'[n] \in {"work", "open"}
    BY DEF Run, At, GoTo, TInv, TypeOK
  <2> QED
    BY <2>1, <2>2 DEF Step, Read, TInv
<1>2. inputs'[n] = <<>> /\ \A i \in 1..Len(inputs[n]) : inputs[n][i] = <<EOF>>
  <2>1. inputs[n] \in Seq(String)
    BY <1>1 DEF TypeOK
  <2>2. inputs'[n] = <<>> /\ \A i \in DOMAIN inputs[n] : inputs[n][i] = <<EOF>>
    BY <1>1 DEF LoopEnd, Skipped, TypeOK
  <2> QED
    BY <2>1, <2>2
<1>3. \A l \in Line : Piped(n, l, sent') + Piped(n, l, fifo) = Piped(n, l, sent) + Piped(n, l, fifo')
  BY <1>1, FlowsOn
<1>4. handled'[n] = handled[n]
  BY <1>1, HandledElsewhere
<1>5. ASSUME NEW l \in Line \ {EOF} PROVE Copies(l, inputs'[n]) = Copies(l, inputs[n])
  <2>1. inputs[n] \in Seq(String) /\ <<>> \in Seq(String)
    BY <1>1 DEF TypeOK
  <2>2. Copies(l, inputs[n]) = 0
    BY <1>2, <2>1, CopiesEofs
  <2>3. Copies(l, <<>>) = 0
    BY CopiesEmpty
  <2> QED
    BY <1>2, <2>2, <2>3
<1>6. \A i \in 1..Len(inputs'[n]) : Len(inputs'[n][i]) = 1
  BY <1>2
<1>7. \A i \in 1..Len(handled'[n]) : NoEof(handled'[n][i])
  BY <1>4 DEF TokenOK
<1> QED
  BY <1>1, <1>3, <1>4, <1>5, <1>6, <1>7, TokenStays

LEMMA JoinTokens ==
  ASSUME TInv, TInv', NEW n \in Node, ~Root(n), ReadOK(n), TokenOK(n), Join(n)
  PROVE  TokenOK(n)'
<1> DEFINE s    == inputs[n]
           data == {i \in DOMAIN s : s[i] # <<EOF>>}
<1>1. /\ TypeOK /\ s \in Seq(String) /\ pc[n] = "join" /\ pc'[n] = "enter"
      /\ buf' = buf /\ handled' = handled /\ fifo' = fifo /\ sent' = sent
  BY DEF Join, TInv, TypeOK, GoTo, pipes, history
<1>2. PICK k \in 0..Len(s) : \E p \in [1..k -> data] :
        /\ \A i \in data : \E j \in 1..k : p[j] = i
        /\ \A i, j \in 1..k : i # j => p[i] # p[j]
        /\ inputs' = [inputs EXCEPT ![n] =
             IF k = 0 THEN <<<<EOF>>>> ELSE <<[j \in 1..k |-> s[p[j]][1]], <<EOF>>>>]
  BY DEF Join
<1>3. PICK p \in [1..k -> data] :
        /\ \A i \in data : \E j \in 1..k : p[j] = i
        /\ \A i, j \in 1..k : i # j => p[i] # p[j]
        /\ inputs' = [inputs EXCEPT ![n] =
             IF k = 0 THEN <<<<EOF>>>> ELSE <<[j \in 1..k |-> s[p[j]][1]], <<EOF>>>>]
  BY <1>2
<1> DEFINE x == [j \in 1..k |-> s[p[j]][1]]
<1>4. inputs'[n] = IF k = 0 THEN <<<<EOF>>>> ELSE <<x, <<EOF>>>>
  BY <1>1, <1>3 DEF TypeOK
<1>5. \A i \in 1..Len(s) : Len(s[i]) = 1
  BY <1>1 DEF TokenOK
<1>6. inputs'[n] \in Seq(String)
  BY DEF TInv, TypeOK
<1>7. ASSUME NEW l \in Line \ {EOF} PROVE Copies(l, inputs'[n]) = Copies(l, s)
  <2>0. <<EOF>> \in String /\ <<<<EOF>>>> \in Seq(String) /\ Copies(l, <<<<EOF>>>>) = 0
    <3>1. <<EOF>> \in String /\ Count(l, <<EOF>>) = 0
      BY EofElsewhere
    <3> QED
      BY <3>1, CopiesOne
  <2>1. CASE k = 0
    <3>1. \A i \in 1..Len(s) : s[i] = <<EOF>>
      BY <1>1, <1>3, <2>1
    <3>2. Copies(l, s) = 0
      BY <1>1, <3>1, CopiesEofs
    <3> QED
      BY <1>4, <2>0, <2>1, <3>2
  <2>2. CASE k # 0
    <3>0. k \in Nat
      BY <1>1
    <3>2. Count(l, x) = Copies(l, s)
      BY <1>1, <1>3, <1>5, <3>0, CopiesJoined
    <3> HIDE DEF x
    <3>1. inputs'[n] = <<x, <<EOF>>>>
      BY <1>4, <2>2
    <3>3. x \in String
      <4>1. inputs'[n][1] = x /\ 1 \in DOMAIN inputs'[n]
        BY <3>1
      <4> QED
        BY <1>6, <4>1
    <3> HIDE DEF x, s
    <3>4. <<x, <<EOF>>>> = <<x>> \o <<<<EOF>>>> /\ <<x>> \in Seq(String)
      BY <2>0, <3>3
    <3>5. Copies(l, <<x>> \o <<<<EOF>>>>) = Copies(l, <<x>>) + Copies(l, <<<<EOF>>>>)
      BY <2>0, <3>4, CopiesConcat
    <3>6. Copies(l, <<x>>) = Count(l, x) /\ Count(l, x) \in Nat
      BY <3>3, CopiesOne, CountType, StringType
    <3>7. Copies(l, inputs'[n]) = Copies(l, <<x>> \o <<<<EOF>>>>)
      BY <3>1, <3>4
    <3> QED
      BY <2>0, <3>2, <3>5, <3>6, <3>7
  <2> QED
    BY <2>1, <2>2
<1> HIDE DEF x, data
<1>8. ASSUME NEW l \in Line
      PROVE  Piped(n, l, sent') + Piped(n, l, fifo) = Piped(n, l, sent) + Piped(n, l, fifo')
  BY <1>1
<1>9. \A i \in 1..Len(handled'[n]) : NoEof(handled'[n][i])
  BY <1>1 DEF TokenOK
<1>10. \A l \in Line \ {EOF} :
         Copies(l, inputs'[n]) + Copies(l, handled'[n]) = Copies(l, inputs[n]) + Copies(l, handled[n])
  BY <1>1, <1>7 DEF s
<1> QED
  BY <1>1, <1>8, <1>9, <1>10, TokenStays

(* What is read is kept, line by line. *)
LEMMA CollectTokens ==
  ASSUME TInv, TInv', NEW n \in Node, TokenOK(n), NEW new \in Seq(Line), Collect(n, new),
         pc[n] \in {"poll", "read"}, handled'[n] = handled[n],
         \A l \in Line \ {EOF} :
           Piped(n, l, sent') = Piped(n, l, fifo') + Count(l, new) + Copies(l, inputs[n]) + Copies(l, handled[n])
  PROVE  TokenOK(n)'
<1>1. /\ inputs'[n] = AsStrings(new) \o inputs[n] /\ buf'[n] = <<>>
  BY DEF Collect, TInv, TypeOK
<1>2. AsStrings(new) \in Seq(String) /\ inputs[n] \in Seq(String)
  BY AsStringsType DEF TInv, TypeOK
<1>3. ASSUME NEW l \in Line \ {EOF}
      PROVE  Piped(n, l, sent') = Piped(n, l, fifo') + Count(l, buf'[n])
                                    + Copies(l, inputs'[n]) + Copies(l, handled'[n])
  <2>1. Copies(l, inputs'[n]) = Copies(l, AsStrings(new)) + Copies(l, inputs[n])
    BY <1>1, <1>2, CopiesConcat
  <2>2. Copies(l, AsStrings(new)) = Count(l, new)
    BY CopiesAsStrings
  <2>3. Count(l, buf'[n]) = 0
    BY <1>1, CountEmpty
  <2>4. /\ Piped(n, l, fifo') \in Nat /\ Copies(l, inputs[n]) \in Nat /\ Copies(l, handled[n]) \in Nat
        /\ Count(l, new) \in Nat
    BY HandType, HandTypeNext, CountType DEF TInv
  <2>5. Piped(n, l, sent') = Piped(n, l, fifo') + Count(l, new) + Copies(l, inputs[n]) + Copies(l, handled[n])
    OBVIOUS
  <2> DEFINE b1 == Piped(n, l, fifo')   d  == Copies(l, inputs[n])
             c  == Count(l, new)        h  == Copies(l, handled[n])
             d1 == Copies(l, inputs'[n]) c1 == Count(l, buf'[n])
  <2>6. d1 = c + d /\ c1 = 0 /\ b1 \in Nat /\ d \in Nat /\ h \in Nat /\ c \in Nat
    BY <2>1, <2>2, <2>3, <2>4
  <2> HIDE DEF b1, d, c, h, d1, c1
  <2>7. b1 + c + d + h = b1 + c1 + d1 + h
    BY <2>6
  <2> QED
    BY <2>5, <2>7 DEF b1, d, c, h, d1, c1
<1>4. \A i \in 1..Len(inputs'[n]) : Len(inputs'[n][i]) = 1
  <2> DEFINE a == AsStrings(new)
             t == inputs[n]
  <2>1. \A i \in 1..Len(a) : Len(a[i]) = 1
    BY <1>2 DEF AsStrings
  <2>2. \A i \in 1..Len(t) : Len(t[i]) = 1
    BY DEF TokenOK
  <2> HIDE DEF a, t
  <2>3. \A i \in 1..Len(a \o t) : (i \in 1..Len(a) /\ (a \o t)[i] = a[i])
          \/ (i - Len(a) \in 1..Len(t) /\ (a \o t)[i] = t[i - Len(a)])
    BY <1>2 DEF a, t
  <2> QED
    BY <1>1, <2>1, <2>2, <2>3 DEF a, t
<1>5. \A i \in 1..Len(handled'[n]) : NoEof(handled'[n][i])
  BY DEF TokenOK
<1> QED
  BY <1>3, <1>4, <1>5, TokenNext

LEMMA TimeoutTokens ==
  ASSUME TInv, TInv', NEW n \in Node, ReadOK(n), TokenOK(n), Timeout(n)
  PROVE  TokenOK(n)'
<1>1. Collect(n, <<>>) /\ pc[n] = "poll" /\ fifo' = fifo /\ sent' = sent /\ handled' = handled
  BY DEF Timeout, pipes, history
<1>2. buf[n] = <<>> /\ <<>> \in Seq(Line)
  BY <1>1 DEF ReadOK
<1>3. ASSUME NEW l \in Line \ {EOF}
      PROVE  Piped(n, l, sent') = Piped(n, l, fifo') + Count(l, <<>>)
                                    + Copies(l, inputs[n]) + Copies(l, handled[n])
  BY <1>1, <1>2, TokenSum
<1> QED
  BY <1>1, <1>2, <1>3, CollectTokens

LEMMA ReadTokens ==
  ASSUME TInv, TInv', NEW n \in Node, ReadOK(n), TokenOK(n), Read(n)
  PROVE  TokenOK(n)'
<1>1. PICK e \in ready[n] :
        /\ fifo' = [fifo EXCEPT ![e] = <<>>]
        /\ IF ready[n] = {e}
             THEN Collect(n, buf[n] \o fifo[e])
             ELSE buf' = [buf EXCEPT ![n] = @ \o fifo[e]] /\ UNCHANGED <<pc, inputs, eofs>>
  BY DEF Read
<1>2. pc[n] = "read" /\ e \in In(n) /\ e \in Edge /\ sent' = sent /\ handled' = handled
  BY InSubset DEF Read, ReadOK, history
<1>3. /\ fifo \in [Edge -> Seq(Line)] /\ fifo' \in [Edge -> Seq(Line)]
      /\ fifo'[e] = <<>> /\ buf[n] \in Seq(Line) /\ fifo[e] \in Seq(Line) /\ buf[n] \o fifo[e] \in Seq(Line)
  <2>1. fifo \in [Edge -> Seq(Line)] /\ fifo' \in [Edge -> Seq(Line)] /\ buf[n] \in Seq(Line)
    BY DEF TInv, TypeOK
  <2>2. fifo[e] \in Seq(Line) /\ buf[n] \o fifo[e] \in Seq(Line)
    BY <1>2, <2>1
  <2>3. fifo'[e] = <<>>
    BY <1>1, <1>2, <2>1
  <2> QED
    BY <2>1, <2>2, <2>3
<1>4. \A d \in Edge : d # e => fifo[d] = fifo'[d]
  <2>1. fifo' = [fifo EXCEPT ![e] = <<>>]
    BY <1>1
  <2>2. fifo \in [Edge -> Seq(Line)]
    BY <1>3
  <2> QED
    BY <2>1, <2>2
<1>5. ASSUME NEW l \in Line \ {EOF}
      PROVE  Piped(n, l, sent') = Piped(n, l, fifo') + Count(l, buf[n] \o fifo[e])
                                    + Copies(l, inputs[n]) + Copies(l, handled[n])
  <2>1. ASSUME NEW f \in [Edge -> Seq(Line)], NEW g \in [Edge -> Seq(Line)],
               \A d \in Edge : d # e => f[d] = g[d]
        PROVE  Piped(n, l, f) + Count(l, g[e]) = Piped(n, l, g) + Count(l, f[e])
    <3>1. e \in In(n)
      BY <1>2
    <3> QED
      BY <2>1, <3>1, PipedChange, ZenonT(40)
  <2>2. \A f, g \in [Edge -> Seq(Line)] : (\A d \in Edge : d # e => f[d] = g[d]) =>
          Piped(n, l, f) + Count(l, g[e]) = Piped(n, l, g) + Count(l, f[e])
    BY <2>1
  <2>3. Piped(n, l, fifo) + Count(l, fifo'[e]) = Piped(n, l, fifo') + Count(l, fifo[e])
    BY <1>3, <1>4, <2>2
  <2>4. Count(l, fifo'[e]) = 0
    BY <1>3, CountEmpty
  <2>5. Count(l, buf[n] \o fifo[e]) = Count(l, buf[n]) + Count(l, fifo[e])
    BY <1>3, CountConcat
  <2>6. Piped(n, l, sent') = Piped(n, l, fifo) + Count(l, buf[n]) + Copies(l, inputs[n]) + Copies(l, handled[n])
    BY <1>2, TokenSum
  <2>7. /\ Piped(n, l, fifo) \in Nat /\ Piped(n, l, fifo') \in Nat /\ Count(l, fifo[e]) \in Nat
        /\ Count(l, buf[n]) \in Nat /\ Copies(l, inputs[n]) \in Nat /\ Copies(l, handled[n]) \in Nat
    BY <1>3, HandType, HandTypeNext, CountType DEF TInv
  <2> DEFINE b == Piped(n, l, fifo)    b1 == Piped(n, l, fifo')
             c == Count(l, buf[n])     u  == Count(l, fifo[e])
             c1 == Count(l, buf[n] \o fifo[e])
             v  == Count(l, fifo'[e])
             d == Copies(l, inputs[n])   h  == Copies(l, handled[n])
  <2>8. /\ b + v = b1 + u /\ v = 0 /\ c1 = c + u
        /\ b \in Nat /\ b1 \in Nat /\ u \in Nat /\ c \in Nat /\ d \in Nat /\ h \in Nat
    BY <2>3, <2>4, <2>5, <2>7
  <2> HIDE DEF b, b1, c, u, c1, v, d, h
  <2>9. b + c + d + h = b1 + c1 + d + h
    BY <2>8
  <2> QED
    BY <2>6, <2>9 DEF b, b1, c, u, c1, v, d, h
<1>6. CASE ready[n] = {e}
  <2>1. Collect(n, buf[n] \o fifo[e])
    BY <1>1, <1>6
  <2> QED
    BY <1>2, <1>3, <1>5, <2>1, CollectTokens
<1>7. CASE ready[n] # {e}
  <2>1. buf'[n] = buf[n] \o fifo[e] /\ inputs' = inputs /\ pc' = pc
    BY <1>1, <1>7 DEF TInv, TypeOK
  <2>2. \A l \in Line \ {EOF} :
          Piped(n, l, sent') = Piped(n, l, fifo') + Count(l, buf'[n])
                                 + Copies(l, inputs'[n]) + Copies(l, handled'[n])
    BY <1>2, <1>5, <2>1
  <2>3. /\ \A i \in 1..Len(inputs'[n]) : Len(inputs'[n][i]) = 1
        /\ \A i \in 1..Len(handled'[n]) : NoEof(handled'[n][i])
    BY <1>2, <2>1 DEF TokenOK
  <2> QED
    BY <2>2, <2>3, TokenNext
<1> QED
  BY <1>6, <1>7

LEMMA StepTokens ==
  ASSUME TInv, TInv', NEW n \in Node, ~Root(n), ContentOK(n), ReadOK(n), TokenOK(n), Step(n)
  PROVE  TokenOK(n)'
BY OtherTokens, RunTokens, LoopEndTokens, JoinTokens, TimeoutTokens, ReadTokens DEF Step

LEMMA InitToken == Init => TokenInv
<1> SUFFICES ASSUME Init PROVE TokenInv
  OBVIOUS
<1>1. ContentInv
  BY InitContent
<1>2. ASSUME NEW n \in Node PROVE ReadOK(n) /\ TokenOK(n)
  <2>1. /\ pc[n] = "begin" /\ inputs[n] = <<>> /\ buf[n] = <<>> /\ handled[n] = <<>>
    BY DEF Init
  <2>2. ASSUME NEW l \in Line \ {EOF}
        PROVE  WrittenTo(n, l) = Copies(l, [e \in In(n) |-> fifo[e]]) + Count(l, buf[n])
                                   + Copies(l, inputs[n]) + Copies(l, handled[n])
    <3>1. [e \in In(n) |-> sent[e]] = [e \in In(n) |-> fifo[e]]
      BY InSubset DEF Init
    <3>2. Copies(l, [e \in In(n) |-> fifo[e]]) \in Nat
      BY <1>1, PipedType DEF Piped, ContentInv, EofInv, TInv, TypeOK
    <3>3. Count(l, buf[n]) = 0 /\ Copies(l, inputs[n]) = 0 /\ Copies(l, handled[n]) = 0
      BY <2>1, CountEmpty, CopiesEmpty
    <3> QED
      BY <3>1, <3>2, <3>3 DEF WrittenTo
  <2> QED
    BY <2>1, <2>2 DEF ReadOK, TokenOK
<1> QED
  BY <1>1, <1>2 DEF TokenInv

LEMMA NextToken == TokenInv /\ [Next]_vars => TokenInv'
<1> SUFFICES ASSUME TokenInv, [Next]_vars PROVE TokenInv'
  OBVIOUS
<1>1. ContentInv /\ ContentInv' /\ TInv /\ TInv'
  BY NextContent DEF TokenInv, ContentInv, EofInv
<1>2. CASE UNCHANGED vars
  <2>1. ASSUME NEW m \in Node PROVE ReadOK(m)' /\ (~Root(m)' => TokenOK(m)')
    <3>1. /\ pc' = pc /\ inputs' = inputs /\ buf' = buf /\ ready' = ready
          /\ fifo' = fifo /\ sent' = sent /\ handled' = handled
      BY <1>2 DEF vars, ctl, pipes, reading, history
    <3>2. ReadOK(m)'
      BY <3>1, InSubset DEF TokenInv, ReadOK
    <3>3. ASSUME TokenOK(m) PROVE TokenOK(m)'
      <4>1. ASSUME NEW l \in Line \ {EOF}
            PROVE  Piped(m, l, sent') = Piped(m, l, fifo') + Count(l, buf'[m])
                                          + Copies(l, inputs'[m]) + Copies(l, handled'[m])
        BY <3>1, <3>3, TokenSum
      <4> QED
        BY <3>1, <3>3, <4>1, TokenNext DEF TokenOK
    <3> QED
      BY <3>2, <3>3, InSubset DEF TokenInv, Root
  <2> QED
    BY <1>1, <2>1 DEF TokenInv
<1>3. ASSUME NEW n \in Node, Step(n) PROVE TokenInv'
  <2>1. ReadOK(n) /\ ContentOK(n) /\ OwnOutputs(n)
    BY <1>1 DEF TokenInv, ContentInv, EofInv, NodeOK
  <2>2. ReadOK(n)' /\ (~Root(n) => TokenOK(n)')
    BY <1>1, <1>3, <2>1, StepRead, StepTokens DEF TokenInv
  <2>3. ASSUME NEW m \in Node, m # n PROVE ReadOK(m)' /\ (~Root(m) => TokenOK(m)')
    <3>1. Elsewhere(m) /\ Untouched(m)
      BY <1>1, <1>3, <2>1, <2>3, Others, InputsElsewhere DEF TInv
    <3> QED
      BY <1>1, <1>3, <2>1, <2>3, <3>1, ReadUnmoved, TokenElsewhere DEF TokenInv
  <2>4. \A m \in Node : ReadOK(m)' /\ (~Root(m)' => TokenOK(m)')
    BY <2>2, <2>3, InSubset DEF Root
  <2> QED
    BY <1>1, <2>4 DEF TokenInv
<1> QED
  BY <1>2, <1>3 DEF Next, Done

(* No node of any graph has ever run on a line more often than the line was
   written for it, whatever fails and however often a pipe is read (the
   buffers of Node::ReadInputs and the loop of every Execute).              *)
THEOREM NothingRunTwice == Spec => []RunsOncePerToken
<1>1. TokenInv => RunsOncePerToken
  <2> SUFFICES ASSUME TokenInv, NEW n \in Node, ~Root(n), NEW l \in Line
               PROVE  Runs(n, l) <= WrittenTo(n, l)
    BY DEF RunsOncePerToken
  <2>1. TokenOK(n) /\ TypeOK
    BY DEF TokenInv, ContentInv, EofInv, TInv
  <2>2. /\ Piped(n, l, sent) \in Nat /\ Piped(n, l, fifo) \in Nat /\ Count(l, buf[n]) \in Nat
        /\ Copies(l, inputs[n]) \in Nat /\ Copies(l, handled[n]) \in Nat
    BY <2>1, HandType
  <2>3. WrittenTo(n, l) = Piped(n, l, sent) /\ Runs(n, l) = Copies(l, handled[n])
    BY DEF WrittenTo, Piped, Runs
  <2>4. CASE l # EOF
    <3>1. Piped(n, l, sent) = Piped(n, l, fifo) + Count(l, buf[n]) + Copies(l, inputs[n]) + Copies(l, handled[n])
      BY <2>1, <2>4, TokenSum
    <3> QED
      BY <2>2, <2>3, <3>1
  <2>5. CASE l = EOF
    <3>1. handled[n] \in Seq(String) /\ \A i \in 1..Len(handled[n]) : NoEof(handled[n][i])
      BY <2>1 DEF TypeOK, TokenOK
    <3>2. Copies(EOF, handled[n]) = 0
      BY <3>1, CopiesNone DEF NoEof
    <3> QED
      BY <2>2, <2>3, <2>5, <3>2
  <2> QED
    BY <2>4, <2>5
<1>2. TokenInv /\ [Next]_vars => TokenInv'
  BY NextToken
<1> QED
  BY <1>1, <1>2, InitToken, PTL DEF Spec

-----------------------------------------------------------------------------
(* Nothing is left over when the streams have ended. *)

LEMMA CountedNext ==
  ASSUME OneParent, StreamInv', NEW n \in Node, CountOK(n)', buf'[n] = <<>>
  PROVE  eofs'[n] <= NIn(n) /\ NIn(n) \in Nat /\ NIn(n) < MaxEofs /\ eofs'[n] \in Nat
<1>1. (eofs[n] + EofsIn(AsStrings(buf[n])))' = Cardinality(Drained(n)')
  BY DEF CountOK
<1>2. eofs'[n] \in Nat
  BY BoundAssumption DEF StreamInv, ContentInv, EofInv, TInv, TypeOK
<1>3. EofsIn(AsStrings(buf[n]))' = 0
  BY EofsInNothing DEF EofsIn, AsStrings
<1>4. eofs'[n] = Cardinality(Drained(n)')
  BY <1>1, <1>2, <1>3
<1> QED
  BY <1>2, <1>4, DrainedBound, InFinite, BoundAssumption

(* ReadInputs never counts too many "EOF"s, so its caller goes on. *)
LEMMA CollectOn ==
  ASSUME OneParent, RootDistros, TInv, StreamInv', NEW n \in Node, ~Root(n), CountOK(n)',
         NEW new \in Seq(Line), Collect(n, new)
  PROVE  pc'[n] \in {"poll", "join", "enter", "work"}
<1> DEFINE sum == eofs[n] + EofsIn(AsStrings(new) \o inputs[n])
<1>1. /\ buf'[n] = <<>>
      /\ eofs'[n] = IF sum <= MaxEofs THEN sum ELSE MaxEofs
      /\ \/ pc'[n] \in {"poll", "join", "enter", "work"}
         \/ pc'[n] = "end" /\ (sum > NIn(n) \/ Kind[n] = "distro")
  <2>1. buf'[n] = <<>> /\ eofs'[n] = IF sum <= MaxEofs THEN sum ELSE MaxEofs
    BY DEF Collect, TInv, TypeOK
  <2>2. \/ pc'[n] \in {"poll", "join", "enter", "work"}
        \/ pc'[n] = "end" /\ (sum > NIn(n) \/ Kind[n] = "distro")
    BY DEF Collect, GoTo, TInv, TypeOK
  <2> QED
    BY <2>1, <2>2
<1>2. eofs'[n] <= NIn(n) /\ NIn(n) \in Nat /\ NIn(n) < MaxEofs /\ eofs'[n] \in Nat
  BY <1>1, CountedNext
<1>3. sum \in Nat
  <2>1. AsStrings(new) \o inputs[n] \in Seq(String)
    BY AsStringsType DEF TInv, TypeOK
  <2>2. EofsIn(AsStrings(new) \o inputs[n]) \in Nat
    BY <2>1, EofsInType
  <2>3. eofs[n] \in Nat
    BY BoundAssumption DEF TInv, TypeOK
  <2> QED
    BY <2>2, <2>3
<1> HIDE DEF sum
<1>4. ~(sum > NIn(n))
  BY <1>1, <1>2, <1>3, BoundAssumption
<1>5. Kind[n] # "distro"
  BY DEF RootDistros
<1> QED
  BY <1>1, <1>4, <1>5

LEMMA DoneUnmoved ==
  ASSUME NEW n \in Node, DoneOK(n), inputs'[n] = inputs[n], stat'[n] = stat[n], closing'[n] = closing[n],
         pc'[n] = "end" => pc[n] = "end", pc'[n] = "exited" => pc[n] = "exited" \/ closing[n]
  PROVE  DoneOK(n)'
BY DEF DoneOK

(* Where the loop goes on nothing has to be shown. *)
LEMMA DoneLater ==
  ASSUME NEW n \in Node, ~closing'[n], pc'[n] # "end" \/ ~stat'[n], pc'[n] # "exited"
  PROVE  DoneOK(n)'
BY DEF DoneOK

LEMMA StepDone ==
  ASSUME OneParent, RootDistros, CountInv, CountInv', NEW n \in Node, ~Root(n), DoneOK(n), Step(n)
  PROVE  DoneOK(n)'
<1>1. TInv /\ TypeOK /\ NodeOK(n) /\ StreamInv' /\ CountOK(n)'
  BY DEF CountInv, StreamInv, ContentInv, EofInv, TInv
<1> USE <1>1 DEF TypeOK, GoTo
<1>2. CASE Read(n) \/ Timeout(n)
  <2>1. pc[n] \in Idle /\ UNCHANGED <<closing, stat>>
    BY <1>2 DEF Read, Timeout, Idle
  <2>2. ~closing'[n]
    BY <2>1 DEF NodeOK, LastWord
  <2>3. pc'[n] \in {"read", "poll", "join", "enter", "work"}
    <3>1. CASE Timeout(n)
      <4>1. Collect(n, <<>>) /\ <<>> \in Seq(Line)
        BY <3>1 DEF Timeout
      <4> QED
        BY <4>1, CollectOn
    <3>2. CASE Read(n)
      <4>1. PICK e \in ready[n] : IF ready[n] = {e} THEN Collect(n, buf[n] \o fifo[e]) ELSE UNCHANGED pc
        BY <3>2 DEF Read
      <4>2. buf[n] \o fifo[e] \in Seq(Line)
        <5>1. e \in Edge /\ buf[n] \in Seq(Line)
          BY <4>1
        <5> QED
          BY <5>1
      <4>3. CASE ready[n] = {e}
        BY <4>1, <4>2, <4>3, CollectOn
      <4>4. CASE ready[n] # {e}
        BY <3>2, <4>1, <4>4 DEF Read
      <4> QED
        BY <4>3, <4>4
    <3> QED
      BY <1>2, <3>1, <3>2
  <2> QED
    BY <2>2, <2>3, DoneLater
<1>3. CASE Begin(n) \/ Poll(n) \/ Join(n) \/ Run(n) \/ Fail(n)
  <2>1. pc[n] \in Idle /\ UNCHANGED closing
    BY <1>3 DEF Begin, Poll, Join, Run, Fail, At, Idle
  <2>2. ~closing'[n]
    BY <2>1 DEF NodeOK, LastWord
  <2>3. pc'[n] # "exited" /\ (pc'[n] = "end" => ~stat'[n])
    <3>1. CASE Begin(n) \/ Poll(n) \/ Join(n)
      BY <3>1 DEF Begin, Poll, Join
    <3>2. CASE Run(n)
      BY <3>2 DEF Run, At
    <3>3. CASE Fail(n)
      BY <3>3 DEF Fail
    <3> QED
      BY <1>3, <3>1, <3>2, <3>3
  <2> QED
    BY <2>2, <2>3, DoneLater
<1>4. CASE Enter(n)
  <2>1. pc[n] = "enter" /\ UNCHANGED <<closing, eofs, buf>>
    BY <1>4 DEF Enter, reading
  <2>2. ~closing'[n]
    BY <2>1 DEF NodeOK, LastWord, Idle
  <2>3. Kind[n] # "distro"
    BY DEF RootDistros
  <2>4. buf'[n] = <<>>
    BY <2>1 DEF CountInv, CountOK
  <2>5. ~(eofs[n] > NIn(n))
    BY <2>1, <2>4, CountedNext
  <2>6. pc'[n] # "exited"
    BY <1>4, <2>3 DEF Enter
  <2>7. CASE n \in BadRegex
    <3>1. ~stat'[n]
      BY <1>4, <2>3, <2>7 DEF Enter
    <3> QED
      BY <2>2, <2>6, <3>1, DoneLater
  <2>8. CASE n \notin BadRegex
    <3>1. pc'[n] \in {"join", "work"}
      BY <1>4, <2>3, <2>5, <2>8 DEF Enter
    <3> QED
      BY <2>2, <2>6, <3>1, DoneLater
  <2> QED
    BY <2>7, <2>8
<1>5. CASE LoopEnd(n)
  <2>1. pc[n] = "work" /\ pc'[n] \in {"end", "poll"} /\ UNCHANGED <<closing, stat>> /\ inputs'[n] = <<>>
    BY <1>5 DEF LoopEnd
  <2> QED
    BY <2>1 DEF DoneOK
<1>6. CASE SendEof(n)
  <2>1. pc[n] = "end" /\ pc'[n] = "open" /\ UNCHANGED <<inputs, stat>>
    BY <1>6 DEF SendEof, reading
  <2> QED
    BY <2>1 DEF DoneOK
<1>7. CASE Open(n) \/ OpenNone(n) \/ PollOut(n) \/ Write(n) \/ BrokenPipe(n) \/ CloseOutputs(n)
  <2>1. UNCHANGED <<inputs, stat, closing>>
    BY <1>7 DEF Open, OpenNone, PollOut, Write, BrokenPipe, CloseOutputs, reading
  <2>2. pc'[n] # "end" /\ (pc'[n] = "exited" => closing[n])
    <3>1. CASE Open(n) \/ OpenNone(n) \/ PollOut(n)
      BY <3>1 DEF Open, OpenNone, PollOut, StartWrite
    <3>2. CASE Write(n)
      BY <3>2 DEF Write
    <3>3. CASE BrokenPipe(n) \/ CloseOutputs(n)
      BY <3>3 DEF BrokenPipe, CloseOutputs, Exit
    <3> QED
      BY <1>7, <3>1, <3>2, <3>3
  <2> QED
    BY <2>1, <2>2, DoneUnmoved
<1> QED
  BY <1>2, <1>3, <1>4, <1>5, <1>6, <1>7 DEF Step

LEMMA InitDone == Init => DoneInv
<1> SUFFICES ASSUME Init PROVE DoneInv
  OBVIOUS
<1>1. \A n \in Node : DoneOK(n)
  BY DEF Init, DoneOK
<1> QED
  BY <1>1, InitToken, InitCount DEF DoneInv

LEMMA NextDone == PlainData /\ OneParent /\ RootDistros /\ DoneInv /\ [Next]_vars => DoneInv'
<1> SUFFICES ASSUME PlainData, OneParent, RootDistros, DoneInv, [Next]_vars PROVE DoneInv'
  OBVIOUS
<1>1. CountInv /\ CountInv' /\ TokenInv' /\ TInv
  BY NextCount, NextToken DEF DoneInv, TokenInv, ContentInv, EofInv
<1>2. CASE UNCHANGED vars
  <2>1. ASSUME NEW n \in Node, DoneOK(n) PROVE DoneOK(n)'
    BY <1>2, <2>1, DoneUnmoved DEF vars, ctl, reading
  <2> QED
    BY <1>1, <2>1, InSubset DEF DoneInv, Root
<1>3. ASSUME NEW n \in Node, Step(n) PROVE DoneInv'
  <2>1. ~Root(n) => DoneOK(n)'
    BY <1>1, <1>3, StepDone DEF DoneInv
  <2>2. ASSUME NEW m \in Node, m # n, DoneOK(m) PROVE DoneOK(m)'
    <3>1. OwnOutputs(n)
      BY <1>1 DEF CountInv, StreamInv, ContentInv, EofInv, NodeOK
    <3>2. Elsewhere(m) /\ Untouched(m)
      BY <1>1, <1>3, <2>2, <3>1, Others, InputsElsewhere DEF TInv
    <3> QED
      BY <2>2, <3>2, DoneUnmoved DEF Elsewhere, Untouched
  <2>3. \A m \in Node : ~Root(m)' => DoneOK(m)'
    BY <2>1, <2>2, InSubset DEF DoneInv, Root
  <2> QED
    BY <1>1, <2>3 DEF DoneInv
<1> QED
  BY <1>2, <1>3 DEF Next, Done

LEMMA PipedNone ==
  ASSUME NEW n \in Node, NEW l, NEW f, \A e \in In(n) : f[e] = <<>>
  PROVE  Piped(n, l, f) = 0
<1> DEFINE g == [e \in In(n) |-> f[e]]
<1>1. Places(l, g) = {}
  BY DEF Places
<1>2. Copies(l, g) = Cardinality(Places(l, g))
  BY DEF Copies, Places
<1> QED
  BY <1>1, <1>2, FS_EmptySet DEF Piped

(* "A node will execute once per token until all tokens have been received"
   (README.md), in every graph in which no batch node has several parents,
   which miscount their "EOF"s, and no distributor has a parent, whose loop
   forgets what came with the last "EOF" (distronode.cpp): a node that
   returns true has run on every line of its parents, as often as it was
   written.                                                                 *)
THEOREM EveryTokenRun ==
  ASSUME PlainData, OneParent, RootDistros
  PROVE  Spec => []RunsOnEveryToken
<1>1. DoneInv => RunsOnEveryToken
  <2> SUFFICES ASSUME DoneInv, NEW n \in Node, ~Root(n), pc[n] = "exited", stat[n], NEW l \in Line \ {EOF}
               PROVE  Runs(n, l) = WrittenTo(n, l)
    BY DEF RunsOnEveryToken
  <2>1. TokenOK(n) /\ DoneOK(n) /\ ReadOK(n) /\ TypeOK
    BY DEF DoneInv, TokenInv, ContentInv, EofInv, TInv
  <2>2. closing[n] /\ \A i \in 1..Len(inputs[n]) : inputs[n][i] = <<EOF>>
    BY <2>1 DEF DoneOK
  <2>3. \A e \in In(n) : fifo[e] = <<>>
    BY <2>2, CountCloses DEF DoneInv, ClosesAfterEveryEof
  <2>4. Piped(n, l, fifo) = 0
    BY <2>3, PipedNone
  <2>5. buf[n] = <<>> /\ Count(l, <<>>) = 0
    BY <2>1, CountEmpty DEF ReadOK
  <2>6. inputs[n] \in Seq(String) /\ Copies(l, inputs[n]) = 0
    BY <2>1, <2>2, CopiesEofs DEF TypeOK
  <2>7. Piped(n, l, sent) = Piped(n, l, fifo) + Count(l, buf[n]) + Copies(l, inputs[n]) + Copies(l, handled[n])
    BY <2>1, TokenSum
  <2>8. Copies(l, handled[n]) \in Nat
    BY <2>1, HandType
  <2>9. Piped(n, l, sent) = Copies(l, handled[n])
    BY <2>4, <2>5, <2>6, <2>7, <2>8
  <2> QED
    BY <2>9 DEF Runs, WrittenTo, Piped
<1>2. DoneInv /\ [Next]_vars => DoneInv'
  BY NextDone
<1> QED
  BY <1>1, <1>2, InitDone, PTL DEF Spec

-----------------------------------------------------------------------------
(* The order of the lines behind a single parent. *)

(* A write adds to the pipe and to the stream. *)
LEMMA OrderedMore ==
  ASSUME NEW hd \in Seq(String), NEW ip \in Seq(String), NEW bf \in Seq(Line), NEW ff \in Seq(Line),
         NEW st \in Seq(Line), NEW t \in Seq(Line), Ordered(hd, ip, bf, ff, st), NoEof(st)
  PROVE  Ordered(hd, ip, bf, ff \o t, st \o t)
<1> DEFINE h == Len(hd)   i == Len(ip)   b == Len(bf)   f == Len(ff)   g == Len(t)   L == Len(st)
           fg == ff \o t  sg == st \o t
<1>1. h \in Nat /\ i \in Nat /\ b \in Nat /\ f \in Nat /\ g \in Nat /\ L \in Nat
  OBVIOUS
<1>2. /\ Len(fg) = f + g /\ \A j \in 1..(f + g) : fg[j] = IF j <= f THEN ff[j] ELSE t[j - f]
  OBVIOUS
<1>3. /\ Len(sg) = L + g
      /\ \A j \in 1..(L + g) : sg[j] = IF j <= L THEN st[j] ELSE t[j - L]
  OBVIOUS
<1>4. /\ h + i + b + f = L
      /\ \A j \in 1..h : hd[j] = <<st[j]>>
      /\ \A j \in 1..i : ip[j] = <<st[h + j]>>
      /\ \A j \in 1..b : bf[j] = st[h + i + j]
      /\ \A j \in 1..f : ff[j] = st[h + i + b + j]
  BY DEF Ordered
<1> HIDE DEF h, i, b, f, g, L, fg, sg
<1>0. h + i + b + f = L
  BY <1>4
<1>5. \A j \in 1..(h + i + b + f) : sg[j] = st[j]
  BY <1>1, <1>3, <1>4
<1>6. /\ \A j \in 1..h : hd[j] = <<sg[j]>>
      /\ \A j \in 1..i : ip[j] = <<sg[h + j]>>
      /\ \A j \in 1..b : bf[j] = sg[h + i + j]
  BY <1>1, <1>4, <1>5
<1>7. ASSUME NEW j \in 1..(f + g) PROVE fg[j] = sg[h + i + b + j]
  <2>1. CASE j <= f
    <3>1. j \in 1..f /\ h + i + b + j \in 1..(h + i + b + f)
      BY <1>1, <2>1
    <3> QED
      BY <1>2, <1>4, <1>5, <2>1, <3>1
  <2>2. CASE ~(j <= f)
    <3>1. fg[j] = t[j - f]
      BY <1>2, <2>2
    <3> DEFINE c == h + i + b + j
    <3>2. c \in 1..(L + g) /\ ~(c <= L) /\ c - L = j - f
      BY <1>0, <1>1, <2>2
    <3> HIDE DEF c
    <3>3. sg[c] = t[c - L]
      BY <1>3, <3>2
    <3>4. sg[c] = t[j - f]
      BY <3>2, <3>3, Zenon
    <3> QED
      BY <3>1, <3>4 DEF c
  <2> QED
    BY <2>1, <2>2
<1>8. h + i + b + (f + g) = L + g
  BY <1>0, <1>1
<1>9. h + i + b + (f + g) <= L + g
  BY <1>1, <1>8
<1> HIDE DEF Ordered
<1>10. \A u, v : /\ Len(u) = f + g /\ Len(v) = L + g
                 /\ \A j \in 1..h : hd[j] = <<v[j]>>
                 /\ \A j \in 1..i : ip[j] = <<v[h + j]>>
                 /\ \A j \in 1..b : bf[j] = v[h + i + j]
                 /\ \A j \in 1..(f + g) : u[j] = v[h + i + b + j]
                 => Ordered(hd, ip, bf, u, v)
  BY <1>8, <1>9 DEF Ordered, h, i, b
<1> QED
  BY <1>2, <1>3, <1>6, <1>7, <1>10 DEF fg, sg

(* The pipe is read, and what has been read becomes the inputs. *)
LEMMA OrderedRead ==
  ASSUME NEW hd \in Seq(String), NEW bf \in Seq(Line), NEW ff \in Seq(Line),
         NEW st \in Seq(Line), Ordered(hd, <<>>, bf, ff, st)
  PROVE  Ordered(hd, AsStrings(bf \o ff) \o <<>>, <<>>, <<>>, st)
<1> DEFINE h == Len(hd)   b == Len(bf)   f == Len(ff)
           r == bf \o ff
           s == AsStrings(bf \o ff) \o <<>>
<1>1. h \in Nat /\ b \in Nat /\ f \in Nat /\ Len(st) \in Nat
  OBVIOUS
<1>2. r \in Seq(Line) /\ Len(r) = b + f /\ \A j \in 1..(b + f) : r[j] = IF j <= b THEN bf[j] ELSE ff[j - b]
  OBVIOUS
<1>3. AsStrings(r) \in Seq(String) /\ Len(AsStrings(r)) = Len(r) /\ \A j \in 1..Len(r) : AsStrings(r)[j] = <<r[j]>>
  <2>1. \A q \in Seq(Line) : AsStrings(q) \in Seq(String)
    BY AsStringsType
  <2>2. \A q \in Seq(Line) :
          DOMAIN AsStrings(q) = 1..Len(q) /\ \A j \in 1..Len(q) : AsStrings(q)[j] = <<q[j]>>
    BY DEF AsStrings
  <2>3. AsStrings(r) \in Seq(String) /\ DOMAIN AsStrings(r) = 1..Len(r)
    BY <1>2, <2>1, <2>2
  <2>4. \A q \in Seq(String) : \A m \in Nat : DOMAIN q = 1..m => Len(q) = m
    OBVIOUS
  <2>5. r \in Seq(Line) /\ Len(r) \in Nat
    BY <1>2
  <2> HIDE DEF r
  <2>6. Len(AsStrings(r)) = Len(r)
    BY <2>3, <2>4, <2>5
  <2>7. \A j \in 1..Len(r) : AsStrings(r)[j] = <<r[j]>>
    BY <2>2, <2>5
  <2> QED
    BY <2>3, <2>6, <2>7
<1>4. s = AsStrings(r)
  <2> HIDE DEF r
  <2>1. \A q \in Seq(String) : q \o <<>> = q
    OBVIOUS
  <2> QED
    BY <1>3, <2>1 DEF r
<1>5. /\ h + b + f <= Len(st) /\ (NoEof(st) => h + b + f = Len(st))
      /\ \A j \in 1..h : hd[j] = <<st[j]>>
      /\ \A j \in 1..b : bf[j] = st[h + j]
      /\ \A j \in 1..f : ff[j] = st[h + b + j]
  BY <1>1 DEF Ordered
<1> HIDE DEF h, b, f, r, s
<1>6. ASSUME NEW j \in 1..(b + f) PROVE r[j] = st[h + j]
  <2>1. CASE j <= b
    <3>1. j \in 1..b /\ r[j] = bf[j]
      BY <1>1, <1>2, <2>1
    <3>2. \A q \in 1..b : bf[q] = st[h + q]
      BY <1>5
    <3> QED
      BY <3>1, <3>2
  <2>2. CASE ~(j <= b)
    <3> DEFINE c == j - b
    <3>1. c \in 1..f /\ h + b + c = h + j
      BY <1>1, <2>2
    <3>2. r[j] = ff[c]
      BY <1>2, <2>2
    <3> HIDE DEF c
    <3>3. ff[c] = st[h + b + c]
      BY <1>5, <3>1
    <3>4. h + b + c = h + j
      BY <3>1
    <3>5. st[h + b + c] = st[h + j]
      BY <3>4, Zenon
    <3> QED
      BY <3>2, <3>3, <3>5, Zenon
  <2> QED
    BY <2>1, <2>2
<1>7. Len(s) = b + f /\ \A j \in 1..(b + f) : s[j] = <<st[h + j]>>
  BY <1>2, <1>3, <1>4, <1>6
<1>8. h + (b + f) + 0 + 0 = h + b + f
  BY <1>1
<1>9. Len(<<>>) = 0
  OBVIOUS
<1> QED
  BY <1>1, <1>5, <1>7, <1>8, <1>9 DEF Ordered, h, s

(* The first of the inputs is taken: behind "EOF" there is nothing. *)
LEMMA OrderedTaken ==
  ASSUME NEW hd \in Seq(String), NEW ip \in Seq(String), NEW bf \in Seq(Line), NEW ff \in Seq(Line),
         NEW st \in Seq(Line), Ordered(hd, ip, bf, ff, st), OneEof(st),
         NEW k \in 1..Len(ip), \A j \in 1..(k - 1) : ip[j] = <<EOF>>
  PROVE  Ordered(Append(hd, ip[k]), SubSeq(ip, k + 1, Len(ip)), bf, ff, st)
<1> DEFINE h == Len(hd)   i == Len(ip)   b == Len(bf)   f == Len(ff)
           a == Append(hd, ip[k])
           r == SubSeq(ip, k + 1, Len(ip))
<1>1. h \in Nat /\ i \in Nat /\ b \in Nat /\ f \in Nat /\ Len(st) \in Nat
  OBVIOUS
<1>2. /\ h + i + b + f <= Len(st) /\ (NoEof(st) => h + i + b + f = Len(st))
      /\ \A j \in 1..h : hd[j] = <<st[j]>>
      /\ \A j \in 1..i : ip[j] = <<st[h + j]>>
      /\ \A j \in 1..b : bf[j] = st[h + i + j]
      /\ \A j \in 1..f : ff[j] = st[h + i + b + j]
  BY DEF Ordered
<1>3. k = 1
  <2> SUFFICES ASSUME k # 1 PROVE FALSE
    OBVIOUS
  <2>1. ip[1] = <<EOF>> /\ 1 \in 1..i /\ k \in 1..i
    OBVIOUS
  <2> HIDE DEF h, i, b, f
  <2>2. ip[1] = <<st[h + 1]>>
    BY <1>2, <2>1
  <2>3. st[h + 1] = EOF
    BY <2>1, <2>2
  <2>4. h + 1 \in 1..(Len(st) - 1)
    BY <1>1, <1>2, <2>1
  <2> QED
    BY <2>3, <2>4 DEF OneEof
<1>4. ip[k] \in String /\ Len(a) = h + 1 /\ a[h + 1] = ip[k] /\ \A j \in 1..h : a[j] = hd[j]
  OBVIOUS
<1>5. Len(r) = i - 1 /\ \A j \in 1..(i - 1) : r[j] = ip[j + 1]
  <2>1. Len(r) = Len(ip) - k /\ \A j \in 1..(Len(ip) - k) : r[j] = ip[j + k]
    OBVIOUS
  <2> QED
    BY <1>3, <2>1
<1>6. i >= 1
  OBVIOUS
<1> HIDE DEF h, i, b, f, a, r
<1>7. ASSUME NEW j \in 1..(h + 1) PROVE a[j] = <<st[j]>>
  <2>1. CASE j \in 1..h
    BY <1>2, <1>4, <2>1
  <2>2. CASE j = h + 1
    <3>1. 1 \in 1..i
      BY <1>1, <1>6
    <3> QED
      BY <1>2, <1>3, <1>4, <2>2, <3>1
  <2> QED
    BY <1>1, <2>1, <2>2
<1>8. ASSUME NEW j \in 1..(i - 1) PROVE r[j] = <<st[h + 1 + j]>>
  <2>1. j + 1 \in 1..i /\ h + (j + 1) = h + 1 + j
    BY <1>1
  <2> QED
    BY <1>2, <1>5, <2>1
<1>9. (h + 1) + (i - 1) = h + i /\ (h + 1) + (i - 1) + b = h + i + b /\ (h + 1) + (i - 1) + b + f = h + i + b + f
  BY <1>1
<1>10. /\ \A j \in 1..b : bf[j] = st[(h + 1) + (i - 1) + j]
       /\ \A j \in 1..f : ff[j] = st[(h + 1) + (i - 1) + b + j]
  BY <1>2, <1>9
<1> QED
  BY <1>1, <1>2, <1>4, <1>5, <1>7, <1>8, <1>9, <1>10 DEF Ordered, b, f, a, r

(* What the loop passes over is the "EOF" at the end of the stream. *)
LEMMA OrderedDropped ==
  ASSUME NEW hd \in Seq(String), NEW ip \in Seq(String), NEW bf \in Seq(Line), NEW ff \in Seq(Line),
         NEW st \in Seq(Line), Ordered(hd, ip, bf, ff, st), OneEof(st),
         \A j \in 1..Len(ip) : ip[j] = <<EOF>>
  PROVE  Ordered(hd, <<>>, bf, ff, st)
<1> DEFINE h == Len(hd)   i == Len(ip)   b == Len(bf)   f == Len(ff)
<1>1. h \in Nat /\ i \in Nat /\ b \in Nat /\ f \in Nat /\ Len(st) \in Nat
  OBVIOUS
<1>2. /\ h + i + b + f <= Len(st) /\ (NoEof(st) => h + i + b + f = Len(st))
      /\ \A j \in 1..h : hd[j] = <<st[j]>>
      /\ \A j \in 1..i : ip[j] = <<st[h + j]>>
      /\ \A j \in 1..b : bf[j] = st[h + i + j]
      /\ \A j \in 1..f : ff[j] = st[h + i + b + j]
  BY DEF Ordered
<1>3. \A j \in 1..i : ip[j] = <<EOF>>
  OBVIOUS
<1>4. Len(<<>>) = 0
  OBVIOUS
<1>5. CASE i = 0
  <2>1. ip = <<>>
    BY <1>5
  <2> QED
    BY <2>1
<1>6. CASE i # 0
  <2> HIDE DEF h, i, b, f
  <2>1. 1 \in 1..i /\ h + 1 \in 1..Len(st)
    BY <1>1, <1>2, <1>6
  <2>2. st[h + 1] = EOF
    <3>1. ip[1] = <<st[h + 1]>> /\ ip[1] = <<EOF>>
      BY <1>2, <1>3, <2>1
    <3> QED
      BY <3>1
  <2>3. ~NoEof(st)
    BY <2>1, <2>2 DEF NoEof
  <2>4. h + 1 = Len(st)
    <3>1. h + 1 \notin 1..(Len(st) - 1)
      BY <2>2 DEF OneEof
    <3> QED
      BY <1>1, <2>1, <3>1
  <2>5. b = 0 /\ f = 0 /\ i = 1
    BY <1>1, <1>2, <1>6, <2>4
  <2>6. h + 0 + b + f <= Len(st)
    BY <1>1, <2>4, <2>5
  <2>7. 1..b = {} /\ 1..f = {} /\ 1..0 = {}
    BY <2>5
  <2> QED
    BY <1>2, <1>4, <2>3, <2>6, <2>7 DEF Ordered, h, b, f
<1> QED
  BY <1>5, <1>6

(* Node n behind its only parent, after a step. *)
LEMMA OrderNext ==
  ASSUME NEW n \in Node, NEW e \in Edge,
         Ordered(handled'[n], inputs'[n], buf'[n], fifo'[e], sent'[e]),
         pc'[n] \in {"poll", "read"} => inputs'[n] = <<>>, pc'[n] # "join"
  PROVE  OrderOK(n, e)'
<1>1. Ordered(handled[n], inputs[n], buf[n], fifo[e], sent[e])'
  BY DEF Ordered, NoEof
<1> QED
  BY <1>1 DEF OrderOK

LEMMA OrderTypes ==
  ASSUME TInv, NEW n \in Node, NEW e \in Edge
  PROVE  /\ handled[n] \in Seq(String) /\ inputs[n] \in Seq(String) /\ buf[n] \in Seq(Line)
         /\ fifo[e] \in Seq(Line) /\ sent[e] \in Seq(Line)
BY DEF TInv, TypeOK

LEMMA AtMostOne ==
  ASSUME StreamInv, NEW e \in Edge
  PROVE  OneEof(sent[e])
<1>1. e[1] \in Node /\ e \in Out(e[1])
  BY EdgeNodes DEF Out
<1> QED
  BY <1>1 DEF StreamInv, ContentInv, StreamOK

(* The pipe of a node gets what is written to it, and only the node takes
   from it.                                                                 *)
LEMMA OrderFlows ==
  ASSUME PlainData, StreamInv, NEW k \in Node, Step(k), ReadOK(k),
         NEW n \in Node, NEW e \in Edge, In(n) = {e}, OrderOK(n, e), n = k => ~Read(k)
  PROVE  Ordered(handled[n], inputs[n], buf[n], fifo'[e], sent'[e])
<1>1. TInv /\ Ordered(handled[n], inputs[n], buf[n], fifo[e], sent[e])
  BY DEF StreamInv, ContentInv, EofInv, OrderOK
<1>2. fifo \in [Edge -> Seq(Line)] /\ sent \in [Edge -> Seq(Line)]
  BY <1>1 DEF TInv, TypeOK
<1>3. CASE Write(k)
  <2>1. PICK d \in Edge, t \in Seq(Line) :
          /\ NoEof(sent[d])
          /\ fifo' = [fifo EXCEPT ![d] = @ \o t]
          /\ sent' = [sent EXCEPT ![d] = @ \o t]
    BY <1>3, WriteAdds
  <2>2. CASE d = e
    <3>1. fifo'[e] = fifo[e] \o t /\ sent'[e] = sent[e] \o t
      BY <1>2, <2>1, <2>2
    <3>2. Ordered(handled[n], inputs[n], buf[n], fifo[e] \o t, sent[e] \o t)
      BY <1>1, <2>1, <2>2, OrderTypes, OrderedMore
    <3> QED
      BY <3>1, <3>2
  <2>3. CASE d # e
    <3>1. fifo'[e] = fifo[e] /\ sent'[e] = sent[e]
      BY <1>2, <2>1, <2>3
    <3> QED
      BY <1>1, <3>1
  <2> QED
    BY <2>2, <2>3
<1>4. CASE Read(k)
  <2>1. PICK d \in ready[k] : fifo' = [fifo EXCEPT ![d] = <<>>]
    BY <1>4 DEF Read
  <2>2. d \in In(k) /\ sent' = sent /\ k # n
    BY <1>4 DEF Read, ReadOK, history
  <2>3. d # e
    BY <2>2 DEF In
  <2>4. fifo'[e] = fifo[e]
    BY <1>2, <2>1, <2>3
  <2> QED
    BY <1>1, <2>2, <2>4
<1>5. CASE ~Write(k) /\ ~Read(k)
  BY <1>1, <1>5, LinesStay
<1> QED
  BY <1>3, <1>4, <1>5

LEMMA OrderElsewhere ==
  ASSUME PlainData, StreamInv, NEW k \in Node, Step(k), ReadOK(k), NEW n \in Node, NEW e \in Edge,
         In(n) = {e}, n # k, OrderOK(n, e), Elsewhere(n), Untouched(n)
  PROVE  OrderOK(n, e)'
<1>1. Ordered(handled[n], inputs[n], buf[n], fifo'[e], sent'[e])
  BY OrderFlows
<1>2. handled'[n] = handled[n]
  BY HandledElsewhere DEF StreamInv, ContentInv, EofInv, TInv
<1>3. inputs'[n] = inputs[n] /\ buf'[n] = buf[n] /\ pc'[n] = pc[n]
  BY DEF Elsewhere, Untouched
<1> QED
  BY <1>1, <1>2, <1>3, OrderNext DEF OrderOK

(* The node reads, or has waited in vain. *)
LEMMA CollectOrder ==
  ASSUME TInv, NEW n \in Node, n \notin Batch, NEW e \in Edge, NEW new \in Seq(Line), Collect(n, new),
         inputs[n] = <<>>, handled'[n] = handled[n], sent'[e] = sent[e],
         Ordered(handled[n], AsStrings(new) \o <<>>, <<>>, fifo'[e], sent[e])
  PROVE  OrderOK(n, e)'
<1>1. inputs'[n] = AsStrings(new) \o <<>> /\ buf'[n] = <<>>
  BY DEF Collect, TInv, TypeOK
<1>2. pc'[n] \notin {"poll", "read", "join"}
  BY DEF Collect, GoTo, TInv, TypeOK
<1> QED
  BY <1>1, <1>2, OrderNext

LEMMA ReadOrder ==
  ASSUME PlainData, StreamInv, NEW n \in Node, n \notin Batch, NEW e \in Edge, In(n) = {e},
         ReadOK(n), OrderOK(n, e), Read(n) \/ Timeout(n)
  PROVE  OrderOK(n, e)'
<1>1. TInv /\ TypeOK /\ inputs[n] = <<>> /\ handled' = handled /\ sent' = sent
  BY DEF StreamInv, ContentInv, EofInv, TInv, OrderOK, Read, Timeout, history
<1>2. /\ handled[n] \in Seq(String) /\ buf[n] \in Seq(Line) /\ fifo[e] \in Seq(Line) /\ sent[e] \in Seq(Line)
      /\ Ordered(handled[n], <<>>, buf[n], fifo[e], sent[e])
  BY <1>1, OrderTypes DEF OrderOK
<1>3. CASE Timeout(n)
  <2>1. Collect(n, <<>>) /\ buf[n] = <<>> /\ fifo[e] = <<>> /\ fifo' = fifo
    BY <1>3 DEF Timeout, ReadOK, pipes
  <2>2. Ordered(handled[n], AsStrings(<<>> \o <<>>) \o <<>>, <<>>, <<>>, sent[e])
    BY <1>2, <2>1, OrderedRead
  <2>3. <<>> \o <<>> = <<>> /\ <<>> \in Seq(Line)
    OBVIOUS
  <2> QED
    BY <1>1, <2>1, <2>2, <2>3, CollectOrder
<1>4. CASE Read(n)
  <2>1. PICK d \in ready[n] :
          /\ fifo' = [fifo EXCEPT ![d] = <<>>]
          /\ ready[n] = {d} => Collect(n, buf[n] \o fifo[d])
    BY <1>4 DEF Read
  <2>2. ready[n] \subseteq {e}
    BY <1>4 DEF Read, ReadOK
  <2>3. d = e /\ ready[n] = {e}
    BY <2>1, <2>2
  <2>4. Collect(n, buf[n] \o fifo[e])
    BY <2>1, <2>3
  <2>5. fifo'[e] = <<>>
    BY <1>1, <2>1, <2>3 DEF TypeOK
  <2>6. Ordered(handled[n], AsStrings(buf[n] \o fifo[e]) \o <<>>, <<>>, <<>>, sent[e])
    BY <1>2, OrderedRead
  <2>7. buf[n] \o fifo[e] \in Seq(Line)
    BY <1>2
  <2> QED
    BY <1>1, <2>4, <2>5, <2>6, <2>7, CollectOrder
<1> QED
  BY <1>3, <1>4

LEMMA RunOrder ==
  ASSUME PlainData, StreamInv, NEW n \in Node, NEW e \in Edge, In(n) = {e}, ~Root(n),
         ReadOK(n), OrderOK(n, e), Run(n)
  PROVE  OrderOK(n, e)'
<1>1. TInv /\ TypeOK /\ Step(n) /\ ~Read(n) /\ buf' = buf
  BY DEF StreamInv, ContentInv, EofInv, TInv, Step, Run, At, Read
<1>2. PICK i \in DOMAIN inputs[n] :
        /\ At(n, i)
        /\ inputs' = [inputs EXCEPT ![n] = Rest(n, i)]
        /\ handled' = [handled EXCEPT ![n] = Append(@, inputs[n][i])]
  BY DEF Run
<1>3. i \in 1..Len(inputs[n]) /\ \A j \in 1..(i - 1) : inputs[n][j] = <<EOF>>
  <2>1. inputs[n] \in Seq(String)
    BY <1>1 DEF TypeOK
  <2> QED
    BY <1>2, <2>1 DEF At, Skipped
<1>4. inputs'[n] = SubSeq(inputs[n], i + 1, Len(inputs[n])) /\ handled'[n] = Append(handled[n], inputs[n][i])
  BY <1>1, <1>2 DEF TypeOK, Rest
<1>5. fifo' = fifo /\ sent' = sent
  BY DEF Run, pipes
<1>6. Ordered(handled[n], inputs[n], buf[n], fifo[e], sent[e])
  BY DEF OrderOK
<1>7. Ordered(Append(handled[n], inputs[n][i]), SubSeq(inputs[n], i + 1, Len(inputs[n])), buf[n], fifo[e], sent[e])
  BY <1>1, <1>3, <1>6, OrderTypes, AtMostOne, OrderedTaken
<1>8. pc'[n] \notin {"poll", "read", "join"}
  BY <1>1 DEF Run, At, GoTo, TypeOK
<1> QED
  BY <1>1, <1>4, <1>5, <1>7, <1>8, OrderNext

LEMMA LoopEndOrder ==
  ASSUME PlainData, StreamInv, NEW n \in Node, NEW e \in Edge, In(n) = {e}, ~Root(n),
         OrderOK(n, e), LoopEnd(n)
  PROVE  OrderOK(n, e)'
<1>1. TInv /\ TypeOK /\ buf' = buf /\ fifo' = fifo /\ sent' = sent /\ handled' = handled
  BY DEF StreamInv, ContentInv, EofInv, TInv, LoopEnd, pipes, history
<1>2. inputs'[n] = <<>> /\ \A i \in 1..Len(inputs[n]) : inputs[n][i] = <<EOF>>
  <2>1. inputs[n] \in Seq(String)
    BY <1>1 DEF TypeOK
  <2>2. inputs'[n] = <<>> /\ \A i \in DOMAIN inputs[n] : inputs[n][i] = <<EOF>>
    BY <1>1 DEF LoopEnd, Skipped, TypeOK
  <2> QED
    BY <2>1, <2>2
<1>3. Ordered(handled[n], <<>>, buf[n], fifo[e], sent[e])
  BY <1>1, <1>2, OrderTypes, AtMostOne, OrderedDropped DEF OrderOK
<1>4. pc'[n] # "join"
  BY <1>1 DEF LoopEnd, GoTo, TypeOK
<1> QED
  BY <1>1, <1>2, <1>3, <1>4, OrderNext

LEMMA OtherOrder ==
  ASSUME PlainData, StreamInv, NEW n \in Node, n \notin Batch, NEW e \in Edge, In(n) = {e}, ~Root(n),
         ReadOK(n), OrderOK(n, e), Step(n), ~Read(n), ~Timeout(n), ~Run(n), ~LoopEnd(n)
  PROVE  OrderOK(n, e)'
<1>1. TInv /\ TypeOK
  BY DEF StreamInv, ContentInv, EofInv, TInv
<1> USE <1>1 DEF TypeOK, GoTo
<1>2. Ordered(handled[n], inputs[n], buf[n], fifo'[e], sent'[e])
  BY OrderFlows
<1>3. handled'[n] = handled[n]
  BY HandledElsewhere
<1>4. ~Join(n)
  BY DEF Join, OrderOK
<1>5. inputs'[n] = inputs[n] /\ buf'[n] = buf[n]
  BY <1>4 DEF Step, Begin, Poll, Enter, Fail, SendEof, Open, OpenNone, PollOut, Write, BrokenPipe,
              CloseOutputs, reading
<1>6. pc'[n] # "join" /\ (pc'[n] \in {"poll", "read"} => inputs[n] = <<>>)
  <2>1. CASE Begin(n) \/ Poll(n)
    <3>1. inputs[n] = <<>>
      BY <2>1 DEF Begin, Poll, ReadOK, OrderOK
    <3>2. pc'[n] # "join"
      BY <2>1 DEF Begin, Poll
    <3> QED
      BY <3>1, <3>2
  <2>2. CASE Enter(n)
    BY <2>2 DEF Enter, Exit
  <2>3. CASE Fail(n) \/ SendEof(n) \/ PollOut(n)
    BY <2>3 DEF Fail, SendEof, PollOut
  <2>4. CASE BrokenPipe(n) \/ CloseOutputs(n)
    BY <2>4 DEF BrokenPipe, CloseOutputs, Exit
  <2>5. CASE Open(n) \/ OpenNone(n)
    <3>1. pc'[n] \in {"open", "wrote", "pollout"}
      BY <2>5 DEF Open, OpenNone, StartWrite
    <3> QED
      BY <3>1
  <2>6. CASE Write(n)
    <3>1. pc'[n] \in {"write", "wrote", "pollout"}
      BY <2>6 DEF Write
    <3> QED
      BY <3>1
  <2> QED
    BY <1>4, <2>1, <2>2, <2>3, <2>4, <2>5, <2>6 DEF Step
<1> QED
  BY <1>2, <1>3, <1>5, <1>6, OrderNext

LEMMA StepOrder ==
  ASSUME PlainData, StreamInv, NEW n \in Node, n \notin Batch, NEW e \in Edge, In(n) = {e},
         ReadOK(n), OrderOK(n, e), Step(n)
  PROVE  OrderOK(n, e)'
<1>1. ~Root(n)
  BY DEF Root
<1> QED
  BY <1>1, ReadOrder, RunOrder, LoopEndOrder, OtherOrder

LEMMA InitOrder == Init => OrderInv
<1> SUFFICES ASSUME Init PROVE OrderInv
  OBVIOUS
<1>1. StreamInv /\ \A n \in Node : ReadOK(n)
  BY InitStream, InitToken DEF TokenInv
<1>2. ASSUME NEW n \in Node, NEW e \in Edge PROVE OrderOK(n, e)
  <2>1. /\ pc[n] = "begin" /\ inputs[n] = <<>> /\ buf[n] = <<>> /\ handled[n] = <<>>
        /\ fifo[e] = <<>> /\ sent[e] = <<>>
    BY DEF Init
  <2>2. Ordered(<<>>, <<>>, <<>>, <<>>, <<>>)
    BY DEF Ordered
  <2> QED
    BY <2>1, <2>2 DEF OrderOK
<1> QED
  BY <1>1, <1>2 DEF OrderInv

LEMMA NextOrder == PlainData /\ OrderInv /\ [Next]_vars => OrderInv'
<1> SUFFICES ASSUME PlainData, OrderInv, [Next]_vars PROVE OrderInv'
  OBVIOUS
<1>1. StreamInv /\ StreamInv' /\ TInv
  BY NextStream DEF OrderInv, StreamInv, ContentInv, EofInv
<1>2. CASE UNCHANGED vars
  <2>1. /\ pc' = pc /\ inputs' = inputs /\ buf' = buf /\ ready' = ready
        /\ fifo' = fifo /\ sent' = sent /\ handled' = handled
    BY <1>2 DEF vars, ctl, pipes, reading, history
  <2>2. ASSUME NEW n \in Node PROVE ReadOK(n)'
    BY <2>1, InSubset DEF OrderInv, ReadOK
  <2>3. ASSUME NEW n \in Node \ Batch, NEW e \in Edge, In(n) = {e} PROVE OrderOK(n, e)'
    <3>1. OrderOK(n, e)
      BY <2>3 DEF OrderInv
    <3> QED
      BY <2>1, <3>1, OrderNext DEF OrderOK
  <2> QED
    BY <1>1, <2>2, <2>3, InSubset DEF OrderInv
<1>3. ASSUME NEW k \in Node, Step(k) PROVE OrderInv'
  <2>1. ReadOK(k) /\ OwnOutputs(k)
    BY <1>1 DEF OrderInv, StreamInv, ContentInv, EofInv, NodeOK
  <2>2. ASSUME NEW n \in Node, n # k PROVE Elsewhere(n) /\ Untouched(n)
    BY <1>1, <1>3, <2>1, <2>2, Others, InputsElsewhere DEF TInv
  <2>3. ASSUME NEW n \in Node PROVE ReadOK(n)'
    <3>1. CASE n = k
      BY <1>1, <1>3, <2>1, <3>1, StepRead
    <3>2. CASE n # k
      BY <2>2, <3>2, ReadUnmoved DEF OrderInv
    <3> QED
      BY <3>1, <3>2
  <2>4. ASSUME NEW n \in Node \ Batch, NEW e \in Edge, In(n) = {e} PROVE OrderOK(n, e)'
    <3>1. OrderOK(n, e)
      BY <2>4 DEF OrderInv
    <3>2. CASE n = k
      BY <1>1, <1>3, <2>1, <2>4, <3>1, <3>2, StepOrder
    <3>3. CASE n # k
      BY <1>1, <1>3, <2>1, <2>2, <2>4, <3>1, <3>3, OrderElsewhere
    <3> QED
      BY <3>2, <3>3
  <2> QED
    BY <1>1, <2>3, <2>4, InSubset DEF OrderInv
<1> QED
  BY <1>2, <1>3 DEF Next, Done

(* A node with one parent that is no batch node runs on the lines one by one
   in the order they were written, however Node::ReadInputs cuts the stream
   up and whatever fails: what is read later is never put in front of
   something that still waits (m_split_input inserts at the front, utils.h).
   Only the data must not be "EOF" itself.                                  *)
THEOREM OrderKept ==
  ASSUME PlainData
  PROVE  Spec => []InOrder
<1>1. OrderInv => InOrder
  <2> SUFFICES ASSUME OrderInv, NEW n \in Node \ Batch, NEW e \in Edge, In(n) = {e}
               PROVE  /\ Len(handled[n]) <= Len(sent[e])
                      /\ \A i \in DOMAIN handled[n] : handled[n][i] = <<sent[e][i]>>
    BY DEF InOrder
  <2>1. TInv /\ Ordered(handled[n], inputs[n], buf[n], fifo[e], sent[e])
    BY DEF OrderInv, OrderOK, StreamInv, ContentInv, EofInv
  <2> DEFINE h == handled[n]  s == sent[e]  i == Len(inputs[n])  b == Len(buf[n])  f == Len(fifo[e])
  <2>2. /\ h \in Seq(String) /\ s \in Seq(Line) /\ i \in Nat /\ b \in Nat /\ f \in Nat
        /\ Len(h) \in Nat /\ Len(s) \in Nat /\ DOMAIN h = 1..Len(h)
    BY <2>1, OrderTypes
  <2>3. Len(h) + i + b + f <= Len(s) /\ \A j \in 1..Len(h) : h[j] = <<s[j]>>
    BY <2>1 DEF Ordered
  <2> HIDE DEF h, s, i, b, f
  <2>4. Len(h) <= Len(s)
    BY <2>2, <2>3
  <2> QED
    BY <2>2, <2>3, <2>4 DEF h, s
<1>2. PlainData /\ OrderInv /\ [Next]_vars => OrderInv'
  BY NextOrder
<1> QED
  BY <1>1, <1>2, InitOrder, PTL DEF Spec
====
