------------------------------- MODULE WinRun -------------------------------
(***************************************************************************)
(* One execution of a graph on Windows.  There is one process: every node  *)
(* runs in a thread of its own, and an edge is a named pipe whose writing  *)
(* end the parent creates and whose reading end the child opens.  Reads    *)
(* and writes are overlapped, so that a thread can wait for several pipes  *)
(* and for its terminate_event_ at once.  Terminate, called from the GUI,  *)
(* sets every node's terminate_ and that event.                            *)
(*                                                                         *)
(* The pipes are made without a buffer: a write is complete when it has    *)
(* been read.  A string is the sequence of its lines; "EOF" is one.       *)
(***************************************************************************)
EXTENDS Strings, SequencesExt

CONSTANTS
  Order,      \* ordered_: the nodes, parents before children
  Edge,       \* the connections
  Kind,       \* "stream" (Concat), "filter", "command" or "distro"
  Batch,      \* the nodes whose batch flag is set
  Fails,      \* the nodes whose command may fail
  Args,       \* the graph's input, already split
  MaxStops    \* bound on the calls of Terminate

Node == Range(Order)

ASSUME WinAssumption ==
  /\ Order \in Seq(Node) /\ IsInjective(Order)
  /\ Edge \subseteq Node \X Node
  /\ Kind \in [Node -> {"stream", "filter", "command", "distro"}]
  /\ \A n \in Node : Kind[n] = "distro" => \E e \in Edge : e[1] = n
  /\ Batch \subseteq Node /\ Fails \subseteq Node
  /\ Args \in Seq(Line)
  /\ MaxStops \in Nat

In(n)   == {e \in Edge : e[2] = n}
Out(n)  == {e \in Edge : e[1] = n}
InList  == [n \in Node |-> SetToSeq(In(n))]   \* read_events_
OutList == [n \in Node |-> SetToSeq(Out(n))]  \* write_events_
Root(n) == In(n) = {}

VARIABLES
  started,   \* how many threads Graph::Execute has started
  stopping,  \* what Terminate has still to do
  stops,     \* how often it has been called
  pc,        \* where each thread is
  term,      \* terminate_
  tev,       \* terminate_event_
  ready,     \* nodes_ready
  nodecount,
  left,      \* the pipes OpenWindowsPipes has still to connect or open
  pipe,      \* the writing end of each pipe
  held,      \* the pipes whose reading end is open
  slot,      \* what has been written to each pipe and not read
  arrived,   \* what has completed the pending read of each pipe
  pend, finished,  \* PipeInfo::pending and finished of each reading end
  at, evs, got,    \* ReadInputs: the next pipe, what to wait for, what was read
  inputs, eofs, called,
  tok, to,   \* the string being written, and the pipes it goes to
  next,      \* DistroNode::output_it_
  ended,     \* the nodes that have come to their final "EOF"
  sent, ran  \* history: what was written to each pipe, what each node ran on

graph   == <<started, stopping, stops>>
sync    == <<ready, nodecount>>
signals == <<term, tev>>
pipes   == <<pipe, held, left>>
data    == <<slot, arrived>>
reading == <<pend, finished, at, evs, got>>
strings == <<inputs, eofs, called>>
writing == <<tok, to, next, ended>>
history == <<sent, ran>>
vars    == <<graph, pc, sync, signals, pipes, data, reading, strings, writing, history>>

None    == <<>>
Opening == {"off", "create", "connect", "open", "event"}
Closing == {"barrier", "closing", "gone"}
PCs == Opening \cup Closing \cup
         {"read", "wait", "top", "for", "exec", "write", "flush", "end", "close"}

TypeOK ==
  /\ started \in 0..Len(Order) /\ stops \in 0..MaxStops
  /\ pc \in [Node -> PCs] /\ term \in [Node -> BOOLEAN]
  /\ tev \in [Node -> {"none", "unset", "set"}]
  /\ ready \subseteq Node
  /\ nodecount = Cardinality({n \in Node : pc[n] \notin Opening \cup Closing})
  /\ pipe \in [Edge -> {"none", "listening", "open", "closed"}] /\ held \subseteq Edge
  /\ left \in [Node -> Seq(Edge)]
  /\ slot \in [Edge -> Seq(Line)] /\ arrived \in [Edge -> Seq(Line)]
  /\ pend \subseteq Edge /\ finished \subseteq Edge /\ got \in [Node -> Seq(Line)]
  /\ at \in [Node -> Nat \ {0}] /\ evs \in [Node -> SUBSET Edge]
  /\ inputs \in [Node -> Seq(String)] /\ eofs \in [Node -> Nat] /\ called \subseteq Node
  /\ tok \in [Node -> Seq(Line)] /\ to \in [Node -> SUBSET Edge] /\ next \in [Node -> Nat]
  /\ ended \subseteq Node
  /\ sent \in [Edge -> Seq(Line)] /\ ran \in [Node -> Seq(String)]

All(x) == [n \in Node |-> x]
Each(x) == [e \in Edge |-> x]

Init ==
  /\ started = 0 /\ stopping = <<>> /\ stops = 0
  /\ pc = All("off") /\ term = All(FALSE) /\ tev = All("none")
  /\ ready = {} /\ nodecount = 0
  /\ left = All(<<>>) /\ pipe = Each("none") /\ held = {}
  /\ slot = Each(None) /\ arrived = Each(None)
  /\ pend = {} /\ finished = {} /\ at = All(1) /\ evs = All({}) /\ got = All(<<>>)
  /\ inputs = All(<<>>) /\ eofs = All(0) /\ called = {}
  /\ tok = All(None) /\ to = All({}) /\ next = All(1) /\ ended = {}
  /\ sent = Each(<<>>) /\ ran = All(<<>>)

Goto(n, place) == pc' = [pc EXCEPT ![n] = place]

-----------------------------------------------------------------------------
(* Graph::Execute starts the threads one by one and waits for all of them. *)

Start ==
  /\ started < Len(Order)
  /\ started' = started + 1
  /\ LET n == Order[started + 1] IN
       /\ term' = [term EXCEPT ![n] = FALSE]
       /\ Goto(n, "create")
  /\ UNCHANGED <<stopping, stops, sync, tev, pipes, data, reading, strings, writing,
                 history>>

(* Mutant: the flag is thought to be enough. *)
StopSteps_Flag(n) == <<<<n, "flag">>>>

(* Node::Stop. *)
StopSteps(n) == <<<<n, "flag">>, <<n, "event">>>>

AllStops == FlattenSeq([i \in DOMAIN Order |-> StopSteps(Order[i])])

Terminate ==
  /\ stopping = <<>> /\ stops < MaxStops /\ started > 0
  /\ stops' = stops + 1
  /\ stopping' = AllStops
  /\ UNCHANGED <<started, pc, sync, signals, pipes, data, reading, strings, writing, history>>

(* An event that does not exist yet cannot be signalled. *)
StopStep ==
  /\ stopping # <<>>
  /\ stopping' = Tail(stopping)
  /\ LET n == Head(stopping)[1]
         what == Head(stopping)[2] IN
     /\ term' = IF what = "flag" THEN [term EXCEPT ![n] = TRUE] ELSE term
     /\ tev' = IF what = "event" /\ tev[n] # "none" THEN [tev EXCEPT ![n] = "set"] ELSE tev
  /\ UNCHANGED <<started, stops, pc, sync, pipes, data, reading, strings, writing, history>>

-----------------------------------------------------------------------------
(* OpenWindowsPipes. *)

(* Mutant: the children are not told that the pipes are there. *)
Announced_Never(n) == ready

(* nodes_ready. *)
Announced(n) == ready \cup {n}

Create(n) ==
  /\ pc[n] = "create"
  /\ pipe' = [e \in Edge |-> IF e \in Out(n) THEN "listening" ELSE pipe[e]]
  /\ ready' = Announced(n)
  /\ left' = [left EXCEPT ![n] = OutList[n]]
  /\ Goto(n, "connect")
  /\ UNCHANGED <<graph, nodecount, signals, held, data, reading, strings, writing, history>>

(* ConnectNamedPipe returns when the child has opened its end. *)
ConnectPipe(n) ==
  /\ pc[n] = "connect"
  /\ IF left[n] = <<>>
       THEN left' = [left EXCEPT ![n] = InList[n]] /\ Goto(n, "open")
       ELSE /\ pipe[Head(left[n])] = "open"
            /\ left' = [left EXCEPT ![n] = Tail(@)]
            /\ UNCHANGED pc
  /\ UNCHANGED <<graph, sync, signals, pipe, held, data, reading, strings, writing, history>>

(* CreateFile, tried again until the pipe is there or terminate_ is set; in
   the latter case the pipe is not opened.                                  *)
OpenPipe(n) ==
  /\ pc[n] = "open"
  /\ IF left[n] = <<>>
       THEN Goto(n, "event") /\ UNCHANGED <<left, pipe, held>>
       ELSE LET e == Head(left[n]) IN
            /\ e[1] \in ready
            /\ \/ term[n] /\ UNCHANGED <<pipe, held>>
               \/ /\ ~term[n] /\ pipe[e] = "listening"
                  /\ pipe' = [pipe EXCEPT ![e] = "open"]
                  /\ held' = held \cup {e}
            /\ left' = [left EXCEPT ![n] = Tail(@)]
            /\ UNCHANGED pc
  /\ UNCHANGED <<graph, sync, signals, data, reading, strings, writing, history>>

(* concat_inputs: the strings but for "EOF", sorted, become one; p lists
   their positions in that order.                                           *)
Concat(n, S) ==
  LET strs == {i \in DOMAIN S : S[i] # <<EOF>>} IN
  \E k \in 0..Len(S) : \E p \in [1..k -> strs] :
    /\ \A i \in strs : \E j \in 1..k : p[j] = i
    /\ \A i, j \in 1..k : i # j => p[i] # p[j]
    /\ Sorted(S, p)
    /\ inputs' = [inputs EXCEPT ![n] =
         IF k = 0 THEN <<<<EOF>>>> ELSE <<[j \in 1..k |-> S[p[j]][1]], <<EOF>>>>]

(* The terminate event is made; root nodes go straight to their own Execute. *)
MakeEvent(n) ==
  /\ pc[n] = "event"
  /\ tev' = [tev EXCEPT ![n] = "unset"]
  /\ nodecount' = nodecount + 1
  /\ IF Root(n)
       THEN /\ IF Kind[n] = "command" /\ n \in Batch
                 THEN Concat(n, AsStrings(Args))
                 ELSE inputs' = [inputs EXCEPT ![n] = AsStrings(Args)]
            /\ called' = called \cup {n}
            /\ Goto(n, "top")
       ELSE Goto(n, "read") /\ UNCHANGED <<inputs, called>>
  /\ UNCHANGED <<graph, ready, term, pipes, data, reading, eofs, writing, history>>

-----------------------------------------------------------------------------
(* ReadInputs.  What it has read so far, of whatever pipe, is in got.        *)

(* Where a ReadInputs leaves a thread that is not told to stop. *)
Whereto(n, full) ==
  IF n \notin called /\ n \in Batch /\ ~full THEN "read"
  ELSE IF n \in called /\ Kind[n] = "distro" /\ full THEN "end"
  ELSE "top"

(* Mutant: what is read replaces what has been read before. *)
Taken_New(n, g) == AsStrings(g)

(* m_split_input puts the new strings in front. *)
Taken(n, g) == AsStrings(g) \o inputs[n]

(* EOF is counted in all of them, and Node::Execute leaves at once if
   terminate_ is set.                                                       *)
Return(n, g) ==
  LET all  == Taken(n, g)
      sum  == eofs[n] + EofsIn(all)
      full == sum = Cardinality(In(n))
  IN
  /\ eofs' = [eofs EXCEPT ![n] = sum]
  /\ at' = [at EXCEPT ![n] = 1] /\ evs' = [evs EXCEPT ![n] = {}]
  /\ got' = [got EXCEPT ![n] = <<>>]
  /\ IF n \notin called /\ term[n]
       THEN Goto(n, "close") /\ UNCHANGED <<inputs, called>>
       ELSE LET place == Whereto(n, full) IN
            /\ Goto(n, place)
            /\ IF n \in Batch \ called /\ place # "read"
                 THEN Concat(n, all)
                 ELSE inputs' = [inputs EXCEPT ![n] = IF place = "end" THEN <<>> ELSE all]
            /\ called' = IF place = "read" THEN called ELSE called \cup {n}

(* ReadInputs returns -1 and takes nothing. *)
GiveUp(n) ==
  /\ at' = [at EXCEPT ![n] = 1] /\ evs' = [evs EXCEPT ![n] = {}]
  /\ got' = [got EXCEPT ![n] = <<>>]
  /\ Goto(n, IF n \in called THEN "top" ELSE "close")
  /\ UNCHANGED strings

(* The loop over read_events_: a read that finds nothing stays pending.  The
   test for the end of the stream looks at all that was read, of any pipe.  *)
ReadPipe(n) ==
  /\ pc[n] = "read"
  /\ UNCHANGED <<graph, sync, signals, pipes, arrived, writing, history>>
  /\ \/ /\ at[n] = 1 /\ term[n]
        /\ GiveUp(n)
        /\ UNCHANGED <<slot, pend, finished>>
     \/ /\ ~(at[n] = 1 /\ term[n]) /\ at[n] <= Len(InList[n])
        /\ LET e == InList[n][at[n]]
               fresh == slot[e] # None
               more == IF fresh THEN got[n] \o slot[e] ELSE got[n]
           IN
           /\ at' = [at EXCEPT ![n] = @ + 1]
           /\ UNCHANGED <<pc, strings>>
           /\ IF e \in finished THEN UNCHANGED <<slot, pend, finished, evs, got>>
              ELSE IF e \in pend
                THEN /\ evs' = [evs EXCEPT ![n] = @ \cup {e}]
                     /\ UNCHANGED <<slot, pend, finished, got>>
              ELSE /\ slot' = [slot EXCEPT ![e] = None]
                   /\ got' = [got EXCEPT ![n] = more]
                   /\ finished' = IF EndsWithEof(more) THEN finished \cup {e} ELSE finished
                   /\ pend' = IF fresh THEN pend ELSE pend \cup {e}
                   /\ evs' = IF fresh THEN evs ELSE [evs EXCEPT ![n] = @ \cup {e}]
     \/ /\ at[n] > Len(InList[n])
        /\ UNCHANGED <<slot, pend, finished>>
        /\ IF evs[n] = {} THEN Return(n, got[n])
           ELSE Goto(n, "wait") /\ UNCHANGED <<at, evs, got, strings>>

(* WaitForMultipleObjects: the first event that is set; terminate_event_ is
   the last.                                                                *)
WaitRead(n) ==
  LET came == {i \in DOMAIN InList[n] : InList[n][i] \in evs[n] /\ arrived[InList[n][i]] # None}
  IN
  /\ pc[n] = "wait"
  /\ UNCHANGED <<graph, sync, term, pipes, slot, writing, history>>
  /\ \/ /\ came # {}
        /\ LET e == InList[n][CHOOSE i \in came : \A j \in came : i <= j]
               more == got[n] \o arrived[e]
           IN
           /\ arrived' = [arrived EXCEPT ![e] = None]
           /\ pend' = pend \ {e}
           /\ finished' = IF EndsWithEof(more) THEN finished \cup {e} ELSE finished
           /\ Return(n, more)
        /\ UNCHANGED tev
     \/ /\ came = {} /\ tev[n] = "set"
        /\ tev' = [tev EXCEPT ![n] = "unset"]
        /\ GiveUp(n)
        /\ UNCHANGED <<arrived, pend, finished>>

-----------------------------------------------------------------------------
(* The loops of the nodes' Execute. *)

Top(n) ==
  /\ pc[n] = "top"
  /\ Goto(n, IF eofs[n] <= Cardinality(In(n)) /\ ~term[n] THEN "for" ELSE "end")
  /\ UNCHANGED <<graph, sync, signals, pipes, data, reading, strings, writing, history>>

(* An "EOF" among the inputs is passed over; a root that is not a command
   treats one it was given like any other input.  A root command takes no
   more inputs once it is told to stop.                                     *)
Skipped(n, t) ==
  \/ t = <<EOF>> /\ (~Root(n) \/ Kind[n] = "command")
  \/ term[n] /\ Root(n) /\ Kind[n] = "command"

(* The string t is ready for WriteOutputs, or for WriteNextOutput. *)
Emit(n, t) ==
  /\ tok' = [tok EXCEPT ![n] = t]
  /\ to' = [to EXCEPT ![n] = IF Kind[n] = "distro" THEN {OutList[n][next[n]]} ELSE Out(n)]
  /\ Goto(n, "write")
  /\ UNCHANGED <<next, ended>>

For(n) ==
  /\ pc[n] = "for"
  /\ UNCHANGED <<graph, sync, signals, pipes, data, reading, eofs, called, sent>>
  /\ \/ /\ inputs[n] = <<>>
        /\ Goto(n, IF eofs[n] = Cardinality(In(n)) THEN "end" ELSE "read")
        /\ UNCHANGED <<inputs, writing, ran>>
     \/ /\ inputs[n] # <<>>
        /\ inputs' = [inputs EXCEPT ![n] = Tail(@)]
        /\ LET t == Head(inputs[n]) IN
           \/ Skipped(n, t) /\ UNCHANGED <<pc, writing, ran>>
           \/ /\ ~Skipped(n, t)
              /\ ran' = [ran EXCEPT ![n] = Append(@, t)]
              /\ \/ /\ Kind[n] = "command"
                    /\ Goto(n, "exec") /\ tok' = [tok EXCEPT ![n] = t]
                    /\ UNCHANGED <<to, next, ended>>
                 \/ Kind[n] # "command" /\ Emit(n, t)
                 \/ Kind[n] = "filter" /\ UNCHANGED <<pc, writing>>

(* create_process waits for the command to end, or kills it at the event. *)
CommandFails(n) == n \in Fails \/ tev[n] = "set"

(* run_command.  After a failure the node takes no more input. *)
RunCommand(n) ==
  /\ pc[n] = "exec"
  /\ \/ Emit(n, tok[n])
     \/ CommandFails(n) /\ Goto(n, "end") /\ UNCHANGED writing
  /\ UNCHANGED <<graph, sync, signals, pipes, data, reading, strings, history>>

-----------------------------------------------------------------------------
(* WriteOutputs and WriteNextOutput. *)

Written(n) == Goto(n, IF n \in ended THEN "close" ELSE "for")

(* WriteNextOutput, not WriteOutputs, does the writing. *)
Dealing(n) == Kind[n] = "distro" /\ n \notin ended

(* A write completes the read that is pending for it, or waits for one.  If
   terminate_ is set nothing is written, but WriteNextOutput still calls
   FlushFileBuffers, which waits until what an earlier call has left in the
   pipe is read or the other end is closed.                                 *)
Write(n) ==
  LET takers == {e \in to[n] : e \in pend /\ arrived[e] = None} IN
  /\ pc[n] = "write"
  /\ \/ /\ term[n]
        /\ Dealing(n) => \A e \in to[n] : slot[e] = None \/ e \notin held
        /\ Written(n)
        /\ UNCHANGED <<data, sent>>
     \/ /\ ~term[n]
        /\ arrived' = [e \in Edge |-> IF e \in takers THEN tok[n] ELSE arrived[e]]
        /\ slot' = [e \in Edge |-> IF e \in to[n] \ takers THEN tok[n] ELSE slot[e]]
        /\ sent' = [e \in Edge |-> IF e \in to[n] THEN sent[e] \o tok[n] ELSE sent[e]]
        /\ Goto(n, "flush")
  /\ UNCHANGED <<graph, sync, signals, pipes, reading, strings, writing, ran>>

(* All is read, or the event is set.  WriteNextOutput moves on to the next
   output only when its write has completed.                                *)
Flush(n) ==
  LET complete == \A e \in to[n] : slot[e] = None IN
  /\ pc[n] = "flush"
  /\ complete \/ tev[n] = "set"
  /\ next' = IF Dealing(n) /\ complete
               THEN [next EXCEPT ![n] = IF @ = Len(OutList[n]) THEN 1 ELSE @ + 1]
               ELSE next
  /\ Written(n)
  /\ UNCHANGED <<graph, sync, signals, pipes, data, reading, strings, tok, to, ended, history>>

End(n) ==
  /\ pc[n] = "end"
  /\ tok' = [tok EXCEPT ![n] = <<EOF>>] /\ to' = [to EXCEPT ![n] = Out(n)]
  /\ ended' = ended \cup {n}
  /\ Goto(n, "write")
  /\ UNCHANGED next
  /\ inputs' = [inputs EXCEPT ![n] = <<>>]
  /\ UNCHANGED <<graph, sync, signals, pipes, data, reading, eofs, called, history>>

-----------------------------------------------------------------------------
(* CloseWindowsPipes: the threads wait for each other, then close. *)

(* Mutant: nobody waits for the others. *)
BarrierOpen_Now(n) == TRUE

BarrierOpen(n) == nodecount = 0

(* Mutant: the thread is not taken out of the count. *)
Close_Uncounted(n) ==
  /\ pc[n] = "close"
  /\ Goto(n, "barrier")
  /\ UNCHANGED <<graph, sync, signals, pipes, data, reading, strings, writing, history>>

Close(n) ==
  /\ pc[n] = "close"
  /\ nodecount' = nodecount - 1
  /\ Goto(n, "barrier")
  /\ UNCHANGED <<graph, ready, signals, pipes, data, reading, strings, writing, history>>

Barrier(n) ==
  /\ pc[n] = "barrier"
  /\ BarrierOpen(n)
  /\ Goto(n, "closing")
  /\ UNCHANGED <<graph, sync, signals, pipes, data, reading, strings, writing, history>>

(* FlushFileBuffers waits until all is read or the other end is closed. *)
ClosePipes(n) ==
  /\ pc[n] = "closing"
  /\ \A e \in Out(n) : slot[e] = None \/ e \notin held
  /\ pipe' = [e \in Edge |-> IF e \in Out(n) THEN "closed" ELSE pipe[e]]
  /\ held' = held \ In(n)
  /\ tev' = [tev EXCEPT ![n] = "none"]
  /\ Goto(n, "gone")
  /\ UNCHANGED <<graph, sync, term, left, data, reading, strings, writing, history>>

Thread(n) ==
  \/ Create(n) \/ ConnectPipe(n) \/ OpenPipe(n) \/ MakeEvent(n)
  \/ ReadPipe(n) \/ WaitRead(n)
  \/ Top(n) \/ For(n) \/ RunCommand(n)
  \/ Write(n) \/ Flush(n) \/ End(n)
  \/ Close(n) \/ Barrier(n) \/ ClosePipes(n)

Next ==
  \/ Start \/ Terminate \/ StopStep
  \/ \E n \in Node : Thread(n)

Fairness ==
  /\ WF_vars(Start) /\ WF_vars(StopStep)
  /\ \A n \in Node : WF_vars(Thread(n))

Spec == Init /\ [][Next]_vars /\ Fairness

-----------------------------------------------------------------------------
Over == \A n \in Node : pc[n] = "gone"

(* Until Terminate is called, no pipe is closed while the node at its other
   end may still use it: the threads wait for each other in
   CloseWindowsPipes.                                                       *)
ClosedTogether ==
  stops = 0 => \A e \in Edge :
    pipe[e] = "closed" \/ pc[e[2]] = "gone" => {pc[e[1]], pc[e[2]]} \subseteq Closing

(* A node that has sent EOF has run, until Terminate is called, on every line
   that its parents have written: what ReadInputs reads of several pipes at a
   time and what a batch node joins leave none out.  (A distributor that has
   a parent drops what comes with the last EOF, as on POSIX.)               *)
GetsAll ==
  stops = 0 => \A n \in Node \ (Fails \ Batch) : pc[n] \in {"close"} \cup Closing /\ ~Root(n) =>
    \A l \in Line \ {EOF} : Copies(l, ran[n]) = Copies(l, [e \in In(n) |-> sent[e]])

(* Terminate ends an execution whose threads all have opened their pipes: no
   thread misses both the flag and the event, whatever it is waiting for.
   There is one exception.  A distributor whose write Terminate has cut short
   goes on with its loop and waits in FlushFileBuffers (distronode.cpp:180),
   in vain if its child is at the barrier by then.                          *)
Opened == \A n \in Node : pc[n] \notin Opening
Caught(n) ==
  /\ pc[n] = "write" /\ term[n] /\ Dealing(n)
  /\ \E e \in to[n] : slot[e] # None /\ pc[e[2]] = "barrier"
StopEnds ==
  (stops > 0 /\ stopping = AllStops /\ Opened) ~> (Over \/ \E n \in Node : Caught(n))

(* An execution that is not terminated ends: "simply passes string tokens
   along and waits for the nodes to finish" (README.md:27).                 *)
Finishes == [](stops = 0) => <>Over

(* What keeps one from it is that ReadInputs has taken the EOF of one parent
   for that of another whose read is pending (node.cpp:583), or that it waits
   for one parent for ever with what it has read from another in hand
   (node.cpp:606); a batch node's command that fails does not.              *)
Misread == finished \cap pend # {}
HeldUp  == \E n \in Node : pc[n] = "wait" /\ got[n] # <<>>
FinishesOrHeldUp == [](stops = 0) => (<>Over \/ <>[](Misread \/ HeldUp))
=============================================================================
