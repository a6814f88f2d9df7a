---------------------------- MODULE WindowProofs ----------------------------
(***************************************************************************)
(* The safety properties of ChainWindow, for any number of graphs, nodes,  *)
(* tabs and executions.                                                    *)
(***************************************************************************)
EXTENDS ChainWindow, TLAPS

(* A running graph has a tab, and the program has not come to its end. *)
Owned ==
  \A g \in Graph : Running(g) => (\E i \in DOMAIN models : models[i] = g) /\ program # "exited"

(* The tabs: no graph has two; the buttons work on the current one; closeTab
   comes back to a tab that is still there; closeEvent has stopped the graphs
   before the one it is waiting for.                                        *)
TabsOK ==
  /\ pages = models
  /\ \A i, j \in DOMAIN models : models[i] = models[j] => i = j
  /\ model = models[current]
  /\ ui = "close" => back < Len(models)
  /\ ui = "quit" => back > 0 /\ \A k \in 1..(back - 1) : ~Running(models[k])

(* The Execute button is only there when the current graph is not running. *)
ButtonOK == ui = "idle" /\ button = "run" => ~Running(model)

IInv == TypeOK /\ TabsOK /\ ButtonOK /\ Owned

-----------------------------------------------------------------------------
(* Sequences. *)

LEMMA RemoveAtProps ==
  ASSUME NEW S, NEW s \in Seq(S), NEW i \in DOMAIN s
  PROVE  /\ RemoveAt(s, i) \in Seq(S)
         /\ Len(RemoveAt(s, i)) = Len(s) - 1
         /\ \A j \in 1..(Len(s) - 1) :
              RemoveAt(s, i)[j] = IF j < i THEN s[j] ELSE s[j + 1]
<1> DEFINE a == SubSeq(s, 1, i - 1)
           b == SubSeq(s, i + 1, Len(s))
<1>1. i \in 1..Len(s) /\ Len(s) \in Nat
  OBVIOUS
<1>2. a \in Seq(S) /\ Len(a) = i - 1 /\ \A j \in 1..(i - 1) : a[j] = s[j]
  BY <1>1
<1>3. b \in Seq(S) /\ Len(b) = Len(s) - i /\ \A j \in 1..(Len(s) - i) : b[j] = s[i + j]
  BY <1>1
<1> HIDE DEF a, b
<1>4. \A k \in (Len(a) + 1)..(Len(a) + Len(b)) : (a \o b)[k] = b[k - Len(a)]
  <2>1. a \in Seq(S) /\ b \in Seq(S)
    BY <1>2, <1>3
  <2> QED
    BY <2>1
<1>5. a \o b \in Seq(S) /\ Len(a \o b) = Len(s) - 1
  BY <1>1, <1>2, <1>3
<1>6. ASSUME NEW j \in 1..(Len(s) - 1)
      PROVE  (a \o b)[j] = IF j < i THEN s[j] ELSE s[j + 1]
  <2>1. CASE j < i
    BY <1>1, <1>2, <1>3, <2>1
  <2>2. CASE ~(j < i)
    <3>1. j - (i - 1) \in 1..(Len(s) - i) /\ i + (j - (i - 1)) = j + 1
      BY <1>1, <2>2
    <3>2. j \in (Len(a) + 1)..(Len(a) + Len(b))
      BY <1>1, <1>2, <1>3, <2>2
    <3>3. (a \o b)[j] = b[j - Len(a)]
      BY <1>4, <3>2
    <3> QED
      BY <1>2, <1>3, <2>2, <3>1, <3>3
  <2> QED
    BY <2>1, <2>2
<1> QED
  BY <1>5, <1>6 DEF RemoveAt, a, b

-----------------------------------------------------------------------------
(* Graph::Execute, the processes and Terminate keep the types. *)

ProcOf(g) == [Nodes[g] -> ProcState]

(* Changing the processes of one graph keeps the types of all. *)
LEMMA ProcType ==
  ASSUME ExecTypeOK, NEW g \in Graph, NEW p \in ProcOf(g),
         proc' = [proc EXCEPT ![g] = p]
  PROVE  /\ proc' \in [Graph -> UNION {ProcOf(h) : h \in Graph}]
         /\ \A h \in Graph : proc'[h] \in ProcOf(h)
<1>1. proc \in [Graph -> UNION {ProcOf(h) : h \in Graph}] /\ \A h \in Graph : proc[h] \in ProcOf(h)
  BY DEF ExecTypeOK, ProcOf
<1>2. p \in UNION {ProcOf(h) : h \in Graph}
  OBVIOUS
<1> QED
  BY <1>1, <1>2

(* A step that leaves the processes alone. *)
LEMMA SameProcs ==
  ASSUME ExecTypeOK, UNCHANGED procs,
         program' \in {"up", "exited", "killed"},
         thread' \in [Graph -> ThreadPCs],
         running' \in [Graph -> BOOLEAN],
         process_group' \in [Graph -> BOOLEAN]
  PROVE  ExecTypeOK'
BY DEF ExecTypeOK, procs

LEMMA ThreadType ==
  ASSUME ExecTypeOK, NEW g \in Graph,
         Start(g) \/ ThreadStep(g) \/ NoSandbox(g) \/ Finish(g)
  PROVE  ExecTypeOK'
<1>1. CASE Start(g) \/ NoSandbox(g) \/ Begin(g) \/ ForkFails(g) \/ Publish(g) \/ Reap(g) \/ Finish(g)
  BY <1>1, SameProcs DEF Start, NoSandbox, Begin, ForkFails, Publish, Reap, Finish, GoTo,
     ExecTypeOK, ThreadPCs, flags, procs
<1>2. CASE Fork(g)
  <2>1. [n \in Nodes[g] |-> "no"] \in ProcOf(g)
    BY DEF ProcOf, ProcState
  <2>2. /\ proc' \in [Graph -> UNION {ProcOf(h) : h \in Graph}]
        /\ \A h \in Graph : proc'[h] \in ProcOf(h)
    BY <1>2, <2>1, ProcType DEF Fork
  <2>3. leader' \in [Graph -> LeaderState]
    BY <1>2 DEF Fork, ExecTypeOK, LeaderState
  <2> QED
    BY <1>2, <2>2, <2>3 DEF Fork, GoTo, ExecTypeOK, ThreadPCs, ProcOf
<1>3. CASE SetPgid(g)
  BY <1>3 DEF SetPgid, GoTo, ExecTypeOK, ThreadPCs, flags
<1> QED
  BY <1>1, <1>2, <1>3 DEF ThreadStep

LEMMA ProcessType ==
  ASSUME ExecTypeOK, NEW g \in Graph, ProcessStep(g) \/ EndNode(g)
  PROVE  ExecTypeOK'
<1>1. CASE ForkNodeFails(g) \/ ExitLeader(g)
  BY <1>1 DEF ForkNodeFails, ExitLeader, ExecTypeOK, LeaderState, flags
<1>2. CASE ForkNode(g) \/ JoinGroup(g) \/ EndNode(g)
  <2>1. PICK n \in Nodes[g], s \in ProcState : proc' = [proc EXCEPT ![g][n] = s]
    BY <1>2 DEF ForkNode, JoinGroup, EndNode, ProcState
  <2> DEFINE p == [proc[g] EXCEPT ![n] = s]
  <2>2. p \in ProcOf(g)
    BY DEF ExecTypeOK, ProcOf
  <2>3. proc' = [proc EXCEPT ![g] = p]
    BY <2>1
  <2> HIDE DEF p
  <2>4. /\ proc' \in [Graph -> UNION {ProcOf(h) : h \in Graph}]
        /\ \A h \in Graph : proc'[h] \in ProcOf(h)
    BY <2>2, <2>3, ProcType
  <2>5. UNCHANGED <<program, thread, running, process_group, leader, own>>
    BY <1>2 DEF ForkNode, JoinGroup, EndNode, flags
  <2> QED
    BY <2>4, <2>5 DEF ExecTypeOK, ProcOf
<1> QED
  BY <1>1, <1>2 DEF ProcessStep

LEMMA StopType ==
  ASSUME ExecTypeOK, NEW g \in Graph, Stop(g)
  PROVE  ExecTypeOK' /\ (program' = "exited" => program = "exited")
<1>1. thread' = thread /\ (UNCHANGED <<program, flags, procs>> \/ KillProgram \/ KillGroup(g))
  BY DEF Stop, Terminate
<1>2. CASE UNCHANGED <<program, flags, procs>> \/ KillProgram
  BY <1>1, <1>2, SameProcs DEF KillProgram, flags, procs, ExecTypeOK
<1>3. CASE KillGroup(g)
  <2>1. CASE UNCHANGED <<leader, proc, flags>>
    BY <1>1, <1>3, <2>1, SameProcs DEF KillGroup, flags, procs, ExecTypeOK
  <2>2. CASE ~ UNCHANGED <<leader, proc, flags>>
    <3> DEFINE p == [n \in Nodes[g] |-> IF proc[g][n] = "in" THEN "gone" ELSE proc[g][n]]
    <3>1. proc' = [proc EXCEPT ![g] = p]
          /\ leader' = [leader EXCEPT ![g] = IF @ = "alive" THEN "killed" ELSE @]
      BY <1>3, <2>2 DEF KillGroup, ExecTypeOK
    <3>2. p \in ProcOf(g)
      BY DEF ExecTypeOK, ProcOf, ProcState
    <3> HIDE DEF p
    <3>3. /\ proc' \in [Graph -> UNION {ProcOf(h) : h \in Graph}]
          /\ \A h \in Graph : proc'[h] \in ProcOf(h)
      BY <3>1, <3>2, ProcType
    <3>4. leader' \in [Graph -> LeaderState]
      BY <3>1 DEF ExecTypeOK, LeaderState
    <3>5. UNCHANGED <<program, own, thread>> /\ running' \in [Graph -> BOOLEAN]
          /\ process_group' \in [Graph -> BOOLEAN]
      BY <1>1, <1>3, <2>2 DEF KillGroup, ExecTypeOK
    <3> QED
      BY <3>3, <3>4, <3>5 DEF ExecTypeOK, ProcOf
  <2> QED
    BY <2>1, <2>2
<1> QED
  BY <1>1, <1>2, <1>3

LEMMA InitializeType ==
  ASSUME ExecTypeOK, NEW g \in Graph, Initialize(g)
  PROVE  ExecTypeOK' /\ program' # "exited"
BY SameProcs DEF Initialize, procs, ExecTypeOK

-----------------------------------------------------------------------------
(* The window. *)

(* Steps of the threads and processes end executions at most. *)
Calm ==
  /\ ExecTypeOK'
  /\ \A g \in Graph : Running(g)' => Running(g)
  /\ program' = "exited" => program = "exited"

LEMMA CalmSteps ==
  ASSUME IInv, NEW g \in Graph,
         ThreadStep(g) \/ NoSandbox(g) \/ Finish(g) \/ ProcessStep(g) \/ EndNode(g) \/ Stop(g)
         \/ Initialize(g) \/ UNCHANGED exec
  PROVE  Calm
<1> USE DEF IInv, TypeOK
<1>1. CASE ThreadStep(g) \/ NoSandbox(g) \/ Finish(g)
  <2>1. ExecTypeOK'
    BY <1>1, ThreadType
  <2>2. PICK l \in ThreadPCs : GoTo(g, l) /\ Running(g) /\ program' = program
    BY <1>1 DEF ThreadStep, Begin, Fork, ForkFails, SetPgid, Publish, Reap, NoSandbox, Finish,
       Running, ThreadPCs
  <2> QED
    BY <2>1, <2>2 DEF Calm, GoTo, Running, ExecTypeOK
<1>2. CASE ProcessStep(g) \/ EndNode(g)
  <2>1. UNCHANGED <<program, thread>>
    BY <1>2 DEF ProcessStep, ForkNode, ForkNodeFails, JoinGroup, EndNode, ExitLeader
  <2> QED
    BY <1>2, <2>1, ProcessType DEF Calm, Running
<1>3. CASE Stop(g)
  BY <1>3, StopType DEF Calm, Running, Stop
<1>4. CASE Initialize(g)
  BY <1>4, InitializeType DEF Calm, Running, Initialize
<1>5. CASE UNCHANGED exec
  BY <1>5, SameProcs DEF Calm, Running, exec, flags, procs, ExecTypeOK
<1> QED
  BY <1>1, <1>2, <1>3, <1>4, <1>5

(* Nothing but the threads, the processes and the event queue has changed. *)
LEMMA QuietInv ==
  ASSUME IInv, Calm, UNCHANGED <<tabs, button, ui, waiting, runs>>, events' \subseteq Graph
  PROVE  IInv'
<1> USE DEF IInv, tabs, waiting
<1>1. TypeOK'
  BY DEF TypeOK, Calm
<1>2. TabsOK' /\ ButtonOK'
  <2>1. \A k \in 1..(back - 1) : models[k] \in Graph
    BY DEF TypeOK
  <2> QED
    BY <2>1 DEF TypeOK, TabsOK, ButtonOK, Calm
<1>3. Owned'
  BY DEF Owned, Calm
<1> QED
  BY <1>1, <1>2, <1>3 DEF Calm

(* The user interface changes what it is doing, or stops a graph. *)
LEMMA ControlInv ==
  ASSUME IInv,
         PressTerminate \/ CloseTab \/ Quit \/ StopDone \/ (\E g \in Graph : Finished(g))
  PROVE  IInv'
<1> USE DEF IInv
<1>1. UNCHANGED <<tabs, button, runs>>
  BY DEF PressTerminate, CloseTab, Quit, StopDone, Finished
<1>2. Calm
  <2>1. models[1] \in Graph /\ model \in Graph
    BY DEF TypeOK
  <2> QED
    BY <2>1, CalmSteps DEF PressTerminate, CloseTab, Quit, StopDone, Finished, StopGraph
<1>3. ui' \in UIStates /\ back' \in 0..Len(models) /\ events' \subseteq Graph
  BY DEF PressTerminate, CloseTab, Quit, StopDone, Finished, waiting, TypeOK, UIStates
<1>4. early' \subseteq Graph
  BY <1>2 DEF PressTerminate, CloseTab, Quit, StopDone, Finished, StopGraph, waiting, TypeOK
<1>5. TypeOK' /\ Owned'
  BY <1>1, <1>2, <1>3, <1>4 DEF TypeOK, Owned, Calm, tabs
<1>6. TabsOK'
  <2>1. ui' = "close" => back' = 0
    BY DEF PressTerminate, CloseTab, Quit, StopDone, Finished, waiting
  <2>2. ui' = "quit" => back' = 1
    BY DEF PressTerminate, CloseTab, Quit, StopDone, Finished
  <2>3. Len(models) \in Nat /\ Len(models) > 0
    BY DEF TypeOK
  <2> QED
    BY <1>1, <2>1, <2>2, <2>3 DEF TabsOK, tabs
<1>7. ButtonOK'
  <2>1. ui' = "idle" => Stopped /\ UNCHANGED <<button, model, thread>>
    BY <1>1 DEF PressTerminate, CloseTab, Quit, StopDone, Finished, tabs, exec
  <2> QED
    BY <2>1 DEF ButtonOK, Stopped, Running
<1> QED
  BY <1>5, <1>6, <1>7

LEMMA ExecuteInv ==
  ASSUME IInv, Execute
  PROVE  IInv'
<1> USE DEF IInv
<1>1. /\ UNCHANGED <<tabs, button, waiting, events, program>>
      /\ ui' = "show"
      /\ runs' \in 0..MaxRuns
      /\ thread' = [thread EXCEPT ![model] = "begin"]
      /\ program = "up"
      /\ model \in Graph
  BY WindowAssumption DEF Execute, Start, GoTo, Idle, TypeOK
<1>2. ExecTypeOK'
  BY <1>1, ThreadType DEF Execute, TypeOK
<1>3. TypeOK'
  BY <1>1, <1>2 DEF TypeOK, UIStates, tabs, waiting
<1>4. TabsOK' /\ ButtonOK'
  BY <1>1 DEF TabsOK, ButtonOK, tabs, waiting
<1>5. Owned'
  <2>1. current \in DOMAIN models /\ models[current] = model
    BY DEF TypeOK, TabsOK
  <2> QED
    BY <1>1, <2>1 DEF Owned, Running, tabs, TypeOK, ExecTypeOK
<1> QED
  BY <1>3, <1>4, <1>5

(* The window shows another tab, or the current one again. *)
LEMMA SwitchInv ==
  ASSUME IInv, NEW i \in DOMAIN models,
         SwitchTab(i) \/ KeepOther(i) \/ CloseOther(i) \/ Show
  PROVE  IInv'
<1> USE DEF IInv
<1>1. /\ current \in 1..Len(models) /\ i \in 1..Len(models) /\ Len(models) \in Nat
      /\ \A k \in 1..Len(models) : models[k] \in Graph
  BY DEF TypeOK
<1>2. CASE CloseOther(i)
  <2>1. Calm
    BY <1>1, <1>2, CalmSteps DEF CloseOther, StopGraph
  <2>2. /\ current' = i /\ model' = models[i] /\ button' \in {"run", "terminate"}
        /\ ui' = "close" /\ back' \in 1..(Len(models) - 1)
        /\ UNCHANGED <<pages, models, events, runs>>
    BY <1>1, <1>2 DEF CloseOther, SwitchTo, Button, Back
  <2>3. early' \subseteq Graph
    BY <1>1, <1>2 DEF CloseOther, StopGraph
  <2> QED
    BY <1>1, <2>1, <2>2, <2>3 DEF TypeOK, TabsOK, ButtonOK, Owned, Calm, UIStates
<1>3. CASE SwitchTab(i) \/ KeepOther(i) \/ Show
  <2>1. PICK k \in 1..Len(models) : SwitchTo(k)
    BY <1>1, <1>3 DEF SwitchTab, KeepOther, Show, Back
  <2>2. UNCHANGED <<exec, pages, models, waiting, events, runs>> /\ ui' = "idle"
    BY <1>3 DEF SwitchTab, KeepOther, Show, Idle
  <2>3. Calm
    BY <1>1, <2>2, CalmSteps
  <2>4. current' = k /\ model' = models[k] /\ button' = Button(models[k])
    BY <2>1 DEF SwitchTo
  <2>5. ButtonOK'
    BY <2>2, <2>4 DEF ButtonOK, Button, Running, exec
  <2> QED
    BY <1>1, <2>2, <2>3, <2>4, <2>5 DEF TypeOK, TabsOK, Owned, Calm, UIStates, Button, waiting
<1> QED
  BY <1>2, <1>3

LEMMA NewTabInv ==
  ASSUME IInv, NEW g \in Graph, NewTab(g)
  PROVE  IInv'
<1> USE DEF IInv
<1>1. /\ pages \in Seq(Graph) /\ models \in Seq(Graph) /\ pages = models
      /\ current \in 1..Len(models) /\ Len(models) \in Nat
  BY DEF TypeOK, TabsOK
<1>2. /\ pages' = Append(models, g) /\ models' = Append(models, g)
      /\ current' = Len(models) + 1 /\ model' = g /\ button' = Button(g)
      /\ ui' = "idle" /\ UNCHANGED <<exec, waiting, events, runs>>
  BY <1>1 DEF NewTab, Idle
<1>3. /\ models' \in Seq(Graph) /\ Len(models') = Len(models) + 1
      /\ \A i \in 1..Len(models) : models'[i] = models[i]
      /\ models'[Len(models) + 1] = g
  BY <1>1, <1>2
<1>4. Calm
  BY <1>2, CalmSteps
<1>5. \A i \in 1..Len(models) : models[i] # g
  BY DEF NewTab, Range
<1>6. TypeOK'
  BY <1>1, <1>2, <1>3, <1>4 DEF TypeOK, Calm, Button, UIStates, waiting
<1>7. TabsOK'
  <2>1. ASSUME NEW i \in 1..(Len(models) + 1), NEW j \in 1..(Len(models) + 1),
               models'[i] = models'[j]
        PROVE  i = j
    <3>1. (i \in 1..Len(models) \/ i = Len(models) + 1) /\ (j \in 1..Len(models) \/ j = Len(models) + 1)
      BY <1>1
    <3> QED
      BY <1>1, <1>3, <1>5, <2>1, <3>1 DEF TabsOK
  <2>2. DOMAIN models' = 1..(Len(models) + 1)
    BY <1>3
  <2> QED
    BY <1>2, <1>3, <2>1, <2>2 DEF TabsOK
<1>8. ButtonOK'
  BY <1>2 DEF ButtonOK, Button, Running, exec
<1>9. Owned'
  BY <1>1, <1>3, <1>4 DEF Owned, Calm
<1> QED
  BY <1>6, <1>7, <1>8, <1>9

(* Closing a tab: the graphs of the others stay where their pages are. *)
LEMMA CloseDoneInv ==
  ASSUME IInv, CloseDone
  PROVE  IInv'
<1> USE DEF IInv
<1>1. /\ pages \in Seq(Graph) /\ models \in Seq(Graph) /\ pages = models
      /\ current \in 1..Len(models) /\ Len(models) \in Nat
      /\ model = models[current] /\ model \in Graph
      /\ back \in 0..Len(models) /\ back < Len(models)
  BY DEF TypeOK, TabsOK, CloseDone
<1>2. Calm
  BY <1>1, CalmSteps DEF CloseDone
<1>3. ~Running(model) /\ UNCHANGED thread
  BY DEF CloseDone, Stopped, Initialize
<1> DEFINE rest == IF Len(models) = 1 THEN models ELSE RemoveAt(models, current)
           i    == IF back # 0 THEN back ELSE IF current > 1 THEN current - 1 ELSE 1
<1>4. /\ models' = rest /\ pages' = rest /\ current' = i /\ model' = rest[i]
      /\ button' = Button(rest[i]) /\ ui' = "idle" /\ back' = 0 /\ runs' = runs
      /\ events' \subseteq events
  BY <1>1 DEF CloseDone, Erased
<1>5. /\ RemoveAt(models, current) \in Seq(Graph)
      /\ Len(RemoveAt(models, current)) = Len(models) - 1
      /\ \A j \in 1..(Len(models) - 1) :
           RemoveAt(models, current)[j] = IF j < current THEN models[j] ELSE models[j + 1]
  <2>1. current \in DOMAIN models
    BY <1>1
  <2> QED
    BY <1>1, <2>1, RemoveAtProps
<1>6. rest \in Seq(Graph) /\ i \in DOMAIN rest
  BY <1>1, <1>5
<1>7. \A j, k \in DOMAIN rest : rest[j] = rest[k] => j = k
  <2>1. \A j, k \in 1..Len(models) : models[j] = models[k] => j = k
    BY <1>1 DEF TabsOK
  <2>2. CASE Len(models) = 1
    BY <1>1, <2>1, <2>2
  <2>3. CASE Len(models) # 1
    <3> SUFFICES ASSUME NEW j \in DOMAIN rest, NEW k \in DOMAIN rest, rest[j] = rest[k]
                 PROVE  j = k
      OBVIOUS
    <3>1. j \in 1..(Len(models) - 1) /\ k \in 1..(Len(models) - 1)
      BY <1>1, <1>5, <2>3
    <3> DEFINE at(m) == IF m < current THEN m ELSE m + 1
    <3>2. rest[j] = models[at(j)] /\ rest[k] = models[at(k)]
      BY <1>5, <2>3, <3>1
    <3>3. at(j) \in 1..Len(models) /\ at(k) \in 1..Len(models)
      BY <1>1, <3>1
    <3>4. at(j) = at(k)
      BY <2>1, <3>2, <3>3
    <3> QED
      BY <1>1, <3>1, <3>4
  <2> QED
    BY <2>2, <2>3
<1>8. \A g \in Graph \ {model} :
        (\E j \in DOMAIN models : models[j] = g) => \E j \in DOMAIN rest : rest[j] = g
  <2> SUFFICES ASSUME NEW j \in 1..Len(models), models[j] # model
               PROVE  \E k \in DOMAIN rest : rest[k] = models[j]
    BY <1>1
  <2>1. Len(models) # 1 /\ j # current
    BY <1>1
  <2>2. CASE j < current
    <3>1. j \in DOMAIN rest /\ rest[j] = models[j]
      BY <1>1, <1>5, <2>1, <2>2
    <3> QED
      BY <3>1
  <2>3. CASE j > current
    <3>1. j - 1 \in 1..(Len(models) - 1) /\ ~(j - 1 < current) /\ (j - 1) + 1 = j
      BY <1>1, <2>3
    <3>2. j - 1 \in DOMAIN rest /\ rest[j - 1] = models[j]
      BY <1>1, <1>5, <2>1, <3>1
    <3> QED
      BY <3>2
  <2> QED
    BY <1>1, <2>1, <2>2, <2>3
<1> HIDE DEF rest, i
<1>9. TypeOK'
  <2>1. rest[i] \in Graph /\ Len(rest) \in Nat
    BY <1>6
  <2>2. early' \subseteq Graph
    BY DEF CloseDone
  <2> QED
    BY <1>2, <1>4, <1>6, <2>1, <2>2 DEF TypeOK, Calm, Button, UIStates
<1>10. TabsOK'
  BY <1>4, <1>7 DEF TabsOK
<1>11. ButtonOK'
  BY <1>3, <1>4 DEF ButtonOK, Button, Running
<1>12. Owned'
  BY <1>2, <1>3, <1>4, <1>8 DEF Owned, Calm, Running
<1> QED
  BY <1>9, <1>10, <1>11, <1>12

(* Quitting: the program ends after the last graph has been waited for. *)
LEMMA QuitDoneInv ==
  ASSUME IInv, QuitDone
  PROVE  IInv'
<1> USE DEF IInv
<1>1. /\ models \in Seq(Graph) /\ Len(models) \in Nat /\ back \in 1..Len(models)
      /\ ui = "quit" /\ UNCHANGED <<tabs, button, ui, events, runs>>
      /\ \A k \in 1..back : ~Running(models[k])
  BY DEF TypeOK, TabsOK, QuitDone
<1>2. CASE back < Len(models) /\ back' = back + 1 /\ StopGraph(models[back + 1])
  <2>1. Calm
    <3>1. models[back + 1] \in Graph
      BY <1>1, <1>2
    <3> QED
      BY <1>2, <3>1, CalmSteps DEF StopGraph
  <2>2. TypeOK' /\ Owned' /\ ButtonOK'
    <3>1. early' \subseteq Graph
      BY <1>1, <1>2 DEF StopGraph
    <3> QED
      BY <1>1, <1>2, <2>1, <3>1 DEF TypeOK, Owned, Calm, ButtonOK, tabs
  <2>3. \A k \in 1..(back' - 1) : ~Running(models[k])'
    <3>1. \A k \in 1..back : models[k] \in Graph
      BY <1>1
    <3> QED
      BY <1>1, <1>2, <2>1, <3>1 DEF Calm, tabs
  <2>4. TabsOK'
    BY <1>1, <1>2, <2>3 DEF TabsOK, tabs
  <2> QED
    BY <2>2, <2>4
<1>3. CASE back = Len(models) /\ program' = "exited" /\ UNCHANGED <<waiting, thread, flags, procs>>
  <2>1. ExecTypeOK'
    BY <1>3, SameProcs DEF TypeOK, ExecTypeOK, flags
  <2>2. TypeOK' /\ ButtonOK' /\ TabsOK'
    BY <1>1, <1>3, <2>1 DEF TypeOK, ButtonOK, TabsOK, Running, tabs, waiting
  <2>3. Owned'
    <3>1. \A g \in Graph : ~Running(g)
      BY <1>1, <1>3 DEF Owned
    <3> QED
      BY <1>3, <3>1 DEF Owned, Running
  <2> QED
    BY <2>2, <2>3
<1> QED
  BY <1>2, <1>3 DEF QuitDone

(* Threads and processes, and what only they can tell apart. *)
LEMMA QuietSteps ==
  ASSUME IInv,
         ClearGraph \/ Over \/ UNCHANGED vars \/ \E g \in Graph : GraphThread(g) \/ GraphProcess(g) \/ NodeEnds(g)
  PROVE  IInv'
<1>1. model \in Graph
  BY DEF IInv, TypeOK
<1>2. Calm
  BY <1>1, CalmSteps DEF ClearGraph, Over, GraphThread, GraphProcess, NodeEnds, ThreadEnds, vars
<1>3. UNCHANGED <<tabs, button, ui, waiting, runs>> /\ events' \subseteq Graph
  BY DEF ClearGraph, Over, GraphThread, GraphProcess, NodeEnds, ThreadEnds, vars, window, IInv, TypeOK
<1> QED
  BY <1>2, <1>3, QuietInv

-----------------------------------------------------------------------------
LEMMA InitInv == Init => IInv
<1> SUFFICES ASSUME Init PROVE IInv
  OBVIOUS
<1> USE WindowAssumption DEF Init
<1>1. \A g \in Graph : ~Running(g)
  BY DEF ExecInit, Running
<1>2. ExecTypeOK
  BY DEF ExecInit, ExecTypeOK, ThreadPCs, LeaderState, ProcState
<1>3. TypeOK
  BY <1>2 DEF TypeOK, UIStates
<1>4. TabsOK /\ ButtonOK /\ Owned
  BY <1>1 DEF TabsOK, ButtonOK, Owned
<1> QED
  BY <1>3, <1>4 DEF IInv

LEMMA NextInv == IInv /\ [Next]_vars => IInv'
<1> SUFFICES ASSUME IInv, [Next]_vars PROVE IInv'
  OBVIOUS
<1>1. CASE User
  <2>1. ASSUME NEW i \in DOMAIN models, SwitchTab(i) \/ CloseOther(i) \/ KeepOther(i)
        PROVE  IInv'
    BY <2>1, SwitchInv
  <2>2. ASSUME NEW g \in Graph, NewTab(g)
        PROVE  IInv'
    BY <2>2, NewTabInv
  <2> QED
    BY <1>1, <2>1, <2>2, ExecuteInv, ControlInv, QuietSteps DEF User
<1>2. CASE Window
  <2>1. CASE Show
    <3>1. current \in DOMAIN models
      BY DEF IInv, TypeOK
    <3> QED
      BY <2>1, <3>1, SwitchInv
  <2> QED
    BY <1>2, <2>1, ControlInv, CloseDoneInv, QuitDoneInv DEF Window
<1>3. CASE Over \/ UNCHANGED vars \/ \E g \in Graph : GraphThread(g) \/ GraphProcess(g) \/ NodeEnds(g)
  BY <1>3, QuietSteps
<1>4. CASE \E g \in Graph : Finished(g)
  BY <1>4, ControlInv
<1> QED
  BY <1>1, <1>2, <1>3, <1>4 DEF Next

(* IInv holds throughout: however tabs are opened, closed and switched while
   graphs run, the window and the executions agree.                         *)
THEOREM Invariance == Spec => []IInv
<1> QED
  BY InitInv, NextInv, PTL DEF Spec

(* The variables keep their types; in particular the current tab and the tab
   to go back to are tabs there are, whichever tab closeTab is called for.  *)
THEOREM TypeCorrect == Spec => []TypeOK
<1>1. IInv => TypeOK
  BY DEF IInv
<1> QED
  BY <1>1, Invariance, PTL

(* Page and graph of a tab have the same index, and the buttons work on the
   graph of the page on top (ChainWindow::newTab, switchTab, closeTab).     *)
THEOREM TabsAgree == Spec => []WindowAgrees
<1>1. IInv => WindowAgrees
  BY DEF IInv, TabsOK, WindowAgrees
<1> QED
  BY <1>1, Invariance, PTL

(* A GraphModel is not destroyed, by closeTab or by the end of the program,
   while the thread it has started is executing its graph.                  *)
THEOREM ThreadOutlived == Spec => []OutlivesThread
<1>1. IInv => OutlivesThread
  BY DEF IInv, Owned, OutlivesThread, Range
<1> QED
  BY <1>1, Invariance, PTL

-----------------------------------------------------------------------------
(* A thread begins only in Execute. *)
LEMMA NoBegin ==
  ASSUME IInv, NEW g \in Graph, NEW h \in Graph,
         ThreadStep(h) \/ NoSandbox(h) \/ Finish(h) \/ ProcessStep(h) \/ EndNode(h) \/ Stop(h)
         \/ Initialize(h) \/ UNCHANGED exec,
         thread'[g] = "begin"
  PROVE  thread[g] = "begin"
<1>1. thread \in [Graph -> ThreadPCs]
  BY DEF IInv, TypeOK, ExecTypeOK
<1>2. CASE ThreadStep(h) \/ NoSandbox(h) \/ Finish(h)
  <2>1. PICK l \in ThreadPCs \ {"begin"} : GoTo(h, l)
    BY <1>2 DEF ThreadStep, Begin, Fork, ForkFails, SetPgid, Publish, Reap, NoSandbox, Finish,
       ThreadPCs
  <2> QED
    BY <1>1, <2>1 DEF GoTo
<1>3. CASE ProcessStep(h) \/ EndNode(h) \/ Stop(h) \/ Initialize(h) \/ UNCHANGED exec
  BY <1>3 DEF ProcessStep, ForkNode, ForkNodeFails, JoinGroup, EndNode, ExitLeader, Stop,
     Initialize, exec
<1> QED
  BY <1>2, <1>3

(* No graph is executed by two threads at once: whatever the user does with
   the tabs while graphs run, the Execute button is away when the graph of
   the current tab is running, which is all GraphModel::execute relies on.  *)
THEOREM NeverTwice == Spec => OneExecution
<1>1. ASSUME IInv, [Next]_vars, NEW g \in Graph, thread'[g] = "begin"
      PROVE  thread[g] \in {"idle", "begin"}
  <2>1. CASE Execute
    <3>1. ~Running(model) /\ thread' = [thread EXCEPT ![model] = "begin"]
      BY <1>1, <2>1 DEF IInv, ButtonOK, Execute, Idle, Start, GoTo
    <3>2. thread \in [Graph -> ThreadPCs] /\ model \in Graph
      BY <1>1 DEF IInv, TypeOK, ExecTypeOK
    <3> QED
      BY <1>1, <3>1, <3>2 DEF Running
  <2>2. CASE ~Execute
    <3>1. \/ UNCHANGED thread
          \/ \E h \in Graph : ThreadStep(h) \/ NoSandbox(h) \/ Finish(h) \/ ProcessStep(h)
                              \/ EndNode(h)
      <4>1. CASE User
        BY <2>2, <4>1 DEF User, SwitchTab, CloseOther, KeepOther, NewTab, PressTerminate, ClearGraph,
           CloseTab, Quit, StopGraph, Stop, Initialize, exec
      <4>2. CASE Window
        BY <4>2 DEF Window, Show, StopDone, CloseDone, QuitDone, StopGraph, Stop, Initialize,
           exec
      <4>3. CASE Over \/ UNCHANGED vars \/ \E h \in Graph : Finished(h)
        BY <4>3 DEF Over, Finished, vars, exec
      <4>4. CASE \E h \in Graph : GraphThread(h) \/ GraphProcess(h) \/ NodeEnds(h)
        BY <4>4 DEF GraphThread, GraphProcess, NodeEnds, ThreadEnds
      <4> QED
        BY <1>1, <4>1, <4>2, <4>3, <4>4 DEF Next
    <3> QED
      BY <1>1, <3>1, NoBegin
  <2> QED
    BY <2>1, <2>2
<1>2. IInv /\ [Next]_vars
        => [\A g \in Graph : thread'[g] = "begin" => thread[g] \in {"idle", "begin"}]_vars
  BY <1>1
<1> QED
  BY <1>2, Invariance, PTL DEF Spec, OneExecution
=============================================================================
