---------------------------- MODULE ChainWindow -----------------------------
(***************************************************************************)
(* The tabs of the main window.  Every tab has a page in the tab widget    *)
(* and a GraphModel in models_, found by the same index; model_ is the one *)
(* the buttons work on.  The user interface is one thread: its handlers    *)
(* are atomic, but for GraphModel::terminate, which waits until the        *)
(* thread that executes the graph has ended.  "finished" reaches the       *)
(* window through the event queue.                                         *)
(*                                                                         *)
(* The questions the window asks before it terminates a graph only change  *)
(* the time at which it happens (but see KeepOther), and are left out.     *)
(***************************************************************************)
EXTENDS ExecControl, SequencesExt

CONSTANTS
  First,     \* the graph of the tab the window opens with
  MaxRuns    \* bound: how often a graph is executed altogether

ASSUME WindowAssumption ==
  /\ First \in Graph
  /\ MaxRuns \in Nat

VARIABLES
  pages,     \* the pages of the tab widget
  models,    \* models_ (and scenes_ and views_)
  current,   \* tabs_->currentIndex()
  model,     \* model_
  button,    \* the button that is shown: "run" or "terminate"
  ui,        \* what the user interface is doing
  back,      \* the tab to go back to, or the tab being stopped
  early,     \* history: the graph waited for, if Terminate came before running_ was set
  events,    \* the graphs whose "finished" is in the event queue
  runs       \* the number of executions so far

tabs    == <<pages, models, current, model>>
waiting == <<back, early>>
window  == <<tabs, button, ui, waiting, events, runs>>
vars    == <<exec, window>>

UIStates == {"idle", "show", "stop", "close", "quit"}

(* The type invariant. *)
TypeOK ==
  /\ ExecTypeOK
  /\ pages   \in Seq(Graph)
  /\ models  \in Seq(Graph)
  /\ current \in DOMAIN models
  /\ model   \in Graph
  /\ button  \in {"run", "terminate"}
  /\ ui      \in UIStates
  /\ back    \in 0..Len(models)
  /\ early   \subseteq Graph
  /\ events  \subseteq Graph
  /\ runs    \in 0..MaxRuns

Init ==
  /\ ExecInit
  /\ pages = <<First>>
  /\ models = <<First>>
  /\ current = 1
  /\ model = First
  /\ button = "run"
  /\ ui = "idle"
  /\ back = 0 /\ early = {}
  /\ events = {}
  /\ runs = 0

Idle == program = "up" /\ ui = "idle"

(* Mutant: the buttons are reset to their initial state. *)
Button_Run(g) == "run"

(* switchTab: which button is shown depends on the graph of the tab. *)
Button(g) == IF Running(g) THEN "terminate" ELSE "run"

(* currentChanged and switchTab, among the tabs there are. *)
SwitchTo(i) ==
  /\ current' = i
  /\ model' = models[i]
  /\ button' = Button(models[i])

-----------------------------------------------------------------------------
(* What the user does. *)

SwitchTab(i) ==
  /\ Idle
  /\ SwitchTo(i)
  /\ UNCHANGED <<exec, pages, models, ui, waiting, events, runs>>

(* Mutant: the index of the new tab is one too high. *)
NewTab_Index(g) ==
  /\ Idle
  /\ g \notin Range(models)
  /\ pages' = Append(pages, g)
  /\ models' = Append(models, g)
  /\ current' = Len(models) + 2
  /\ model' = g
  /\ button' = Button(g)
  /\ UNCHANGED <<exec, ui, waiting, events, runs>>

(* A new tab has a new GraphModel: g has no history.  (Identifiers of closed
   tabs may be used again when nothing is left of the old graph.)           *)
NewTab(g) ==
  /\ Idle
  /\ g \notin Range(models) /\ \A n \in Nodes[g] : proc[g][n] \in {"no", "gone"}
  /\ leader[g] # "alive"
  /\ pages' = Append(pages, g)
  /\ models' = Append(models, g)
  /\ current' = Len(models) + 1
  /\ model' = g
  /\ button' = Button(g)
  /\ UNCHANGED <<exec, ui, waiting, events, runs>>

(* "Execute" or "Test": the thread starts, and switchTab looks at it. *)
Execute ==
  /\ Idle
  /\ button = "run"
  /\ runs < MaxRuns
  /\ Start(model)
  /\ runs' = runs + 1
  /\ ui' = "show"
  /\ UNCHANGED <<tabs, button, waiting, events>>

(* GraphModel::terminate, whose loop the window is then in. *)
StopGraph(g) ==
  /\ Stop(g)
  /\ early' = {h \in {g} : thread[h] = "begin"}

(* "Terminate". *)
PressTerminate ==
  /\ Idle
  /\ button = "terminate"
  /\ StopGraph(model)
  /\ ui' = "stop"
  /\ UNCHANGED <<tabs, button, back, events, runs>>

(* Edit > Clear and File > Open: clearGraph, which nothing disables while
   the graph is executed.                                                   *)
ClearGraph ==
  /\ Idle
  /\ Initialize(model)
  /\ UNCHANGED window

(* closeTab(): File > Close, or the cross on the current one of several tabs. *)
CloseTab ==
  /\ Idle
  /\ StopGraph(model)
  /\ ui' = "close"
  /\ back' = 0
  /\ UNCHANGED <<tabs, button, events, runs>>

(* The index to which the current tab moves when tab i is closed. *)
Back(i) == IF i < current THEN current - 1 ELSE current

(* closeTab(i) for another tab: go there, close it, and come back. *)
CloseOther(i) ==
  /\ Idle
  /\ i # current
  /\ StopGraph(models[i])
  /\ SwitchTo(i)
  /\ ui' = "close"
  /\ back' = Back(i)
  /\ UNCHANGED <<pages, models, events, runs>>

(* The same when the graph of that tab is running and the user then wants to
   keep it: the index to come back to has been changed all the same.        *)
KeepOther(i) ==
  /\ Idle
  /\ i # current
  /\ Running(models[i])
  /\ SwitchTo(Back(i))
  /\ UNCHANGED <<exec, pages, models, ui, waiting, events, runs>>

(* closeEvent: terminate one graph after the other. *)
Quit ==
  /\ Idle
  /\ StopGraph(models[1])
  /\ ui' = "quit"
  /\ back' = 1
  /\ UNCHANGED <<tabs, button, events, runs>>

-----------------------------------------------------------------------------
(* What the user interface does by itself. *)

(* switchTab (tabs_->currentIndex()), at the end of execute() and finished(). *)
Show ==
  /\ program = "up" /\ ui = "show"
  /\ SwitchTo(current)
  /\ ui' = "idle"
  /\ UNCHANGED <<exec, pages, models, waiting, events, runs>>

(* Mutant: the message is all there is to it. *)
Finished_Message(g) ==
  /\ Idle
  /\ g \in events
  /\ events' = events \ {g}
  /\ UNCHANGED <<exec, tabs, button, ui, waiting, runs>>

(* finished(): a message box, and the buttons are set for the current tab. *)
Finished(g) ==
  /\ Idle
  /\ g \in events
  /\ events' = events \ {g}
  /\ ui' = "show"
  /\ UNCHANGED <<exec, tabs, button, waiting, runs>>

(* Mutant: terminate() does not wait. *)
Stopped_Now == program = "up"

(* The waiting loop of GraphModel::terminate has ended. *)
Stopped == program = "up" /\ ~Running(model)

StopDone ==
  /\ Stopped
  /\ ui = "stop"
  /\ ui' = "idle"
  /\ early' = {}
  /\ UNCHANGED <<exec, tabs, button, back, events, runs>>

(* Mutant: the model is erased at the index of the tab that comes next. *)
Erased_Next(s, i) == RemoveAt(s, IF i > 1 THEN i - 1 ELSE 1)

(* models_.erase (m_it), and the same for scenes_ and views_. *)
Erased(s, i) == RemoveAt(s, i)

(* The rest of closeTab.  The last tab stays, with a cleared graph. *)
CloseDone ==
  LET only == Len(models) = 1
      rest == IF only THEN models ELSE Erased(models, current)
      i    == IF back # 0 THEN back ELSE IF current > 1 THEN current - 1 ELSE 1
  IN
  /\ Stopped
  /\ ui = "close"
  /\ models' = rest
  /\ pages' = IF only THEN pages ELSE RemoveAt(pages, current)
  /\ current' = i
  /\ model' = rest[i]
  /\ button' = Button(rest[i])
  /\ Initialize(model)
  /\ events' = IF only THEN events ELSE events \ {model}
  /\ ui' = "idle"
  /\ back' = 0 /\ early' = {}
  /\ UNCHANGED runs

(* The next graph, or the end of the program. *)
QuitDone ==
  /\ program = "up" /\ ui = "quit"
  /\ ~Running(models[back])
  /\ \/ /\ back < Len(models)
        /\ back' = back + 1
        /\ StopGraph(models[back + 1])
     \/ /\ back = Len(models)
        /\ program' = "exited"
        /\ UNCHANGED <<waiting, thread, flags, procs>>
  /\ UNCHANGED <<tabs, button, ui, events, runs>>

(* The thread ends, and its "finished" is queued. *)
ThreadEnds(g) ==
  /\ NoSandbox(g) \/ Finish(g)
  /\ events' = events \cup {g}
  /\ UNCHANGED <<tabs, button, ui, waiting, runs>>

-----------------------------------------------------------------------------
User ==
  \/ \E i \in DOMAIN models : SwitchTab(i) \/ CloseOther(i) \/ KeepOther(i)
  \/ \E g \in Graph : NewTab(g)
  \/ Execute \/ PressTerminate \/ ClearGraph \/ CloseTab \/ Quit

GraphThread(g)  == (ThreadStep(g) /\ UNCHANGED window) \/ ThreadEnds(g)
GraphProcess(g) == ProcessStep(g) /\ UNCHANGED window
NodeEnds(g)     == EndNode(g) /\ UNCHANGED window
Window          == Show \/ StopDone \/ CloseDone \/ QuitDone

Over == program # "up" /\ UNCHANGED vars

Next ==
  \/ User \/ Window \/ Over
  \/ \E g \in Graph : Finished(g) \/ GraphThread(g) \/ GraphProcess(g) \/ NodeEnds(g)

(* Threads and processes are scheduled; but a node may run for ever.  An
   event in the queue is handled before the event loop goes round for ever
   without it.                                                              *)
Fairness ==
  /\ WF_vars(Window)
  /\ \A g \in Graph :
       WF_vars(GraphThread(g)) /\ WF_vars(GraphProcess(g)) /\ SF_vars(Finished(g))

Spec == Init /\ [][Next]_vars /\ Fairness

-----------------------------------------------------------------------------
(* A graph is never executed by two threads: GraphModel::execute, which
   overwrites exec_thread, does not check, and relies on the Execute button
   being away whenever the graph of the current tab is running.             *)
OneExecution ==
  [][\A g \in Graph : thread'[g] = "begin" => thread[g] \in {"idle", "begin"}]_vars

(* Page and graph of a tab have the same index, and the buttons work on the
   graph of the page on top, however tabs are opened and closed.            *)
WindowAgrees ==
  /\ pages = models
  /\ ui \in {"idle", "show", "stop"} => model = models[current]

(* A GraphModel outlives the thread that executes its graph (which has a
   plain pointer to it), when its tab is closed and when the program ends.  *)
OutlivesThread ==
  \A g \in Graph : Running(g) => g \in Range(models) /\ program # "exited"

(* "Terminate the current running graph.": the button signals the processes
   of the graph, and not the program.                                       *)
TerminateHits ==
  [][PressTerminate /\ thread[model] = "wait" /\ leader[model] = "alive"
       => leader'[model] = "killed" /\ program' = "up"]_vars

(* When the graph of the current tab has ended, the Execute button comes
   back (ChainWindow::finished), unless the tab is left or the program ends,
   or the window hangs in terminate() after a Terminate that came too early. *)
ButtonReturns ==
  (button = "terminate" /\ ~Running(model))
    ~> (button = "run" \/ Running(model) \/ program # "up" \/ early # {})

(* terminate() returns, whatever the processes of the graph do
   (graphmodel.cpp:527): once the thread has set running_ (graph.cpp:281),
   Terminate ends the leader, for which the thread is waiting, or it ends the
   program.  Before that it does nothing, and the window then waits for a
   graph that may never end.                                                *)
TerminateReturns ==
  (ui \in {"stop", "close", "quit"}) ~> (ui = "idle" \/ program # "up" \/ early # {})
=============================================================================
