---------------------------- MODULE ExecControl -----------------------------
(***************************************************************************)
(* How the program on a POSIX system starts, waits for and terminates the  *)
(* processes of its graphs.  Graph::Execute runs on a thread of its own.   *)
(* It forks a group leader, which forks one process per node; leader and   *)
(* nodes are to form a process group, so that Terminate, called on another *)
(* thread, can signal all of them.                                         *)
(*                                                                         *)
(* running_ and process_group_ are plain fields that both threads use.     *)
(* Steps are as small as the accesses and system calls the other side can  *)
(* tell apart.  What the node processes do is not modelled (see Pipeline): *)
(* one that runs may end at any time, or never.                            *)
(***************************************************************************)
EXTENDS Integers, Sequences, FiniteSets

CONSTANTS
  Graph,   \* the Graph objects
  Nodes    \* the nodes of each graph, numbered in the order of ordered_

ASSUME NodesAssumption == Nodes \in [Graph -> SUBSET Nat]

VARIABLES
  program,        \* the program: "up", "exited" or "killed" by a signal
  thread,         \* where the thread that runs Graph::Execute is
  running,        \* running_
  process_group,  \* whether process_group_ is the leader's pid (else it is 0)
  leader,         \* the group leader
  own,            \* whether the leader has a process group of its own
  proc            \* the nodes' processes

flags == <<running, process_group>>
procs == <<leader, own, proc>>
exec  == <<program, thread, flags, procs>>

ThreadPCs   == {"idle", "begin", "fork", "setpgid", "publish", "wait", "waitany", "end"}
LeaderState == {"none", "alive", "exited", "failed", "killed"}

(* A node's process: not forked yet; new, in the program's process group; in
   the leader's group; outside of it, for good; or gone.                    *)
ProcState == {"no", "new", "in", "out", "gone"}

ExecTypeOK ==
  /\ program       \in {"up", "exited", "killed"}
  /\ thread        \in [Graph -> ThreadPCs]
  /\ running       \in [Graph -> BOOLEAN]
  /\ process_group \in [Graph -> BOOLEAN]
  /\ leader        \in [Graph -> LeaderState]
  /\ own           \in [Graph -> BOOLEAN]
  /\ proc          \in [Graph -> UNION {[Nodes[g] -> ProcState] : g \in Graph}]
  /\ \A g \in Graph : proc[g] \in [Nodes[g] -> ProcState]

ExecInit ==
  /\ program = "up"
  /\ thread = [g \in Graph |-> "idle"]
  /\ running = [g \in Graph |-> FALSE]
  /\ process_group = [g \in Graph |-> FALSE]
  /\ leader = [g \in Graph |-> "none"]
  /\ own = [g \in Graph |-> FALSE]
  /\ proc = [g \in Graph |-> [n \in Nodes[g] |-> "no"]]

(* GraphModel::running: the thread has been started and has not ended. *)
Running(g) == thread[g] # "idle"

GoTo(g, l) == program = "up" /\ thread' = [thread EXCEPT ![g] = l]

-----------------------------------------------------------------------------
(* The thread in Graph::Execute. *)

(* GraphModel::execute, GraphModel::test. *)
Start(g) == GoTo(g, "begin") /\ UNCHANGED <<program, flags, procs>>

(* PrepareFileSystem may fail, and Execute return at once. *)
NoSandbox(g) ==
  /\ thread[g] = "begin"
  /\ GoTo(g, "idle")
  /\ UNCHANGED <<program, flags, procs>>

Begin(g) ==
  /\ thread[g] = "begin"
  /\ running' = [running EXCEPT ![g] = TRUE]
  /\ GoTo(g, "fork")
  /\ UNCHANGED <<program, process_group, procs>>

(* Processes left over from an earlier execution are not followed further. *)
Fork(g) ==
  /\ thread[g] = "fork"
  /\ process_group' = [process_group EXCEPT ![g] = FALSE]
  /\ leader' = [leader EXCEPT ![g] = "alive"]
  /\ own' = [own EXCEPT ![g] = FALSE]
  /\ proc' = [proc EXCEPT ![g] = [n \in Nodes[g] |-> "no"]]
  /\ GoTo(g, "setpgid")
  /\ UNCHANGED <<program, running>>

(* fork() returns -1, and wait_(-1) then waits for every child of the
   program, the leaders of other graphs among them.                         *)
ForkFails(g) ==
  /\ thread[g] = "fork"
  /\ process_group' = [process_group EXCEPT ![g] = FALSE]
  /\ GoTo(g, "waitany")
  /\ UNCHANGED <<program, running, procs>>

SetPgid(g) ==
  /\ thread[g] = "setpgid"
  /\ own' = [own EXCEPT ![g] = TRUE]
  /\ GoTo(g, "publish")
  /\ UNCHANGED <<program, flags, leader, proc>>

Publish(g) ==
  /\ thread[g] = "publish"
  /\ process_group' = [process_group EXCEPT ![g] = TRUE]
  /\ GoTo(g, "wait")
  /\ UNCHANGED <<program, running, procs>>

(* waitpid() returns when the leader has come to its end. *)
Reap(g) ==
  /\ \/ thread[g] = "wait" /\ leader[g] # "alive"
     \/ thread[g] = "waitany" /\ \A h \in Graph : leader[h] # "alive"
  /\ process_group' = [process_group EXCEPT ![g] = FALSE]
  /\ GoTo(g, "end")
  /\ UNCHANGED <<program, running, procs>>

Finish(g) ==
  /\ thread[g] = "end"
  /\ running' = [running EXCEPT ![g] = FALSE]
  /\ GoTo(g, "idle")
  /\ UNCHANGED <<program, process_group, procs>>

-----------------------------------------------------------------------------
(* The leader and the nodes. *)

(* The nodes are forked in order; a child inherits its parent's group. *)
ForkNode(g) ==
  /\ leader[g] = "alive"
  /\ \E n \in Nodes[g] :
       /\ proc[g][n] = "no"
       /\ \A m \in Nodes[g] : m < n => proc[g][m] # "no"
       /\ proc' = [proc EXCEPT ![g][n] = IF own[g] THEN "in" ELSE "new"]
  /\ UNCHANGED <<program, thread, flags, leader, own>>

(* A fork fails: the leader exits, whatever it has forked so far runs on. *)
ForkNodeFails(g) ==
  /\ leader[g] = "alive"
  /\ \E n \in Nodes[g] : proc[g][n] = "no"
  /\ leader' = [leader EXCEPT ![g] = "failed"]
  /\ UNCHANGED <<program, thread, flags, own, proc>>

(* setpgid (0, getppid()).  It fails while the leader has no group yet, and
   when the leader is gone; while it is not reaped either may happen.       *)
JoinGroup(g) ==
  /\ \E n \in Nodes[g], s \in {"in", "out"} :
       /\ proc[g][n] = "new"
       /\ s = "in"  => own[g]
       /\ s = "out" => ~(own[g] /\ leader[g] = "alive")
       /\ proc' = [proc EXCEPT ![g][n] = s]
  /\ UNCHANGED <<program, thread, flags, leader, own>>

(* A node's process comes to its end, if it does. *)
EndNode(g) ==
  /\ program = "up"
  /\ \E n \in Nodes[g] :
       /\ proc[g][n] \in {"in", "out"}
       /\ proc' = [proc EXCEPT ![g][n] = "gone"]
  /\ UNCHANGED <<program, thread, flags, leader, own>>

(* wait_: the leader exits after all its children. *)
ExitLeader(g) ==
  /\ leader[g] = "alive"
  /\ \A n \in Nodes[g] : proc[g][n] = "gone"
  /\ leader' = [leader EXCEPT ![g] = "exited"]
  /\ UNCHANGED <<program, thread, flags, own, proc>>

-----------------------------------------------------------------------------
(* Called on the thread of the user interface. *)

(* killpg (process_group_, SIGTERM), for the leader's group.  It finds nobody
   if a wait_(-1) elsewhere has reaped the leader.                          *)
KillGroup(g) ==
  /\ process_group[g]
  /\ \/ /\ leader' = [leader EXCEPT ![g] = IF @ = "alive" THEN "killed" ELSE @]
        /\ proc' = [proc EXCEPT ![g] =
             [n \in Nodes[g] |-> IF @[n] = "in" THEN "gone" ELSE @[n]]]
        /\ running' = [running EXCEPT ![g] = FALSE]
        /\ process_group' = [process_group EXCEPT ![g] = FALSE]
     \/ /\ leader[g] # "alive" /\ \A n \in Nodes[g] : proc[g][n] # "in"
        /\ \E h \in Graph : thread[h] = "waitany"
        /\ UNCHANGED <<leader, proc, flags>>
  /\ UNCHANGED <<program, own>>

(* killpg (0, SIGTERM) signals the caller's own process group: the program.
   What becomes of the processes of its graphs then is not followed.        *)
KillProgram == program' = "killed" /\ UNCHANGED <<flags, procs>>

(* Mutant: group 0 is not signalled. *)
Terminate_Checked(g) ==
  \/ ~process_group[g] /\ UNCHANGED <<program, flags, procs>>
  \/ KillGroup(g)

Terminate(g) ==
  \/ ~process_group[g] /\ ~running[g] /\ UNCHANGED <<program, flags, procs>>
  \/ ~process_group[g] /\ running[g] /\ KillProgram
  \/ KillGroup(g)

(* GraphModel::terminate, up to its waiting loop. *)
Stop(g) ==
  /\ IF Running(g) THEN Terminate(g) ELSE UNCHANGED <<program, flags, procs>>
  /\ UNCHANGED thread

(* Graph::Initialize.  While Execute is still reading the graph on the other
   thread, clearing it is a data race and may crash the program.            *)
Initialize(g) ==
  /\ process_group' = [process_group EXCEPT ![g] = FALSE]
  /\ program' \in IF thread[g] \in {"begin", "fork"} THEN {"up", "killed"} ELSE {"up"}
  /\ UNCHANGED <<thread, running, procs>>

ProcessStep(g) ==
  /\ program = "up"
  /\ ForkNode(g) \/ ForkNodeFails(g) \/ JoinGroup(g) \/ ExitLeader(g)

ThreadStep(g) ==
  Begin(g) \/ Fork(g) \/ ForkFails(g) \/ SetPgid(g) \/ Publish(g) \/ Reap(g)
=============================================================================
