----------------------------- MODULE WatchNode ------------------------------
(***************************************************************************)
(* A Watch node on Linux, and the file system it watches.  The process     *)
(* sets inotify watches on its inputs (Notify), writes the files it finds  *)
(* there to its outputs if it is to pass them through, and then reports    *)
(* files as the kernel tells of them (Monitor), until it is killed.  The   *)
(* file system changes at any time, also while the watches are being set.  *)
(*                                                                         *)
(* A path is the sequence of its names.  A watch belongs to the object     *)
(* that was at the path when it was set, and follows that object when it   *)
(* is renamed; the node knows the path only.                               *)
(***************************************************************************)
EXTENDS Integers, FiniteSets, Sequences, SequencesExt

CONSTANTS
  Dir, File,    \* the paths a directory, or a file, may be at
  Present,      \* those that exist when the node starts
  Inputs,       \* the node's inputs, without the EOF of its parents
  Self,         \* the empty name, in an event on a watched file itself
  Debounce,     \* debounce_time
  Limit,        \* how many watches the system grants
  MaxTime, MaxChanges, MaxQueue  \* bounds: the clock, changes, unread events

Path == Dir \cup File
Home(p) == Front(p)    \* the directory a path is in

(* A path is not empty and its names are not Self; a file has nothing beneath
   it, and where something is there, the directories above it are.          *)
ASSUME WatchAssumption ==
  /\ Dir \cap File = {} /\ Present \subseteq Path
  /\ Path \subseteq Seq(STRING \ {Self}) \ {<<>>}
  /\ \A p, q \in Path : IsPrefix(q, p) /\ q # p =>
       q \in Dir /\ (p \in Present => q \in Present)
  /\ Inputs \in Seq(Path)
  /\ Debounce \in Nat \ {0} /\ Limit \in Nat
  /\ MaxTime \in Nat /\ MaxChanges \in Nat /\ MaxQueue \in Nat

VARIABLES
  there,     \* the paths that exist
  wdof,      \* the watch descriptor of the object at each path, or 0
  queue,     \* what the kernel has for the node to read
  clock,     \* the time
  made,      \* how many changes there have been
  changed,   \* when the node was last told of what is at each path, or Never
  modified,  \* the paths that have been created, written or moved to
  recursive, passthru, test,  \* the node's flags
  phase,     \* where the process is
  todo,      \* the inputs Notify has not been called for
  found,     \* the paths Notify has found and not dealt with
  alone,     \* whether Notify has found its own path only
  stat,      \* what Execute will return
  labels,    \* watch_fd_map_: the path each watch was set on
  buffer,    \* the events that have been read
  notified,  \* notifications_: when each path was last entered, or Never
  reported,  \* history: when each path was last written to the outputs
  passed,    \* history: the paths written because of passthru
  eof        \* history: whether EOF has been written

disk   == <<there, clock, made, changed, modified>>
kernel == <<wdof, queue>>
flags  == <<recursive, passthru, test>>
notify == <<todo, found, alone, stat>>
out    == <<notified, reported, passed, eof>>
vars   == <<disk, kernel, flags, phase, notify, labels, buffer, out>>

Never == -1
Stamp == Nat \cup {Never}
Event == [wd : Nat \ {0}, kind : {"close", "entry", "folder"}, name : STRING \cup {Self}]

TypeOK ==
  /\ there \in SUBSET Path /\ modified \in SUBSET Path /\ passed \in SUBSET Path
  /\ wdof \in [Path -> 0..Len(labels)]
  /\ queue \in Seq(Event) /\ buffer \in Seq(Event)
  /\ clock \in 0..MaxTime /\ made \in 0..MaxChanges
  /\ {changed, notified, reported} \subseteq [Path -> Stamp]
  /\ {recursive, passthru, test, alone, stat, eof} \subseteq BOOLEAN
  /\ phase \in {"start", "inputs", "monitor", "done", "failed", "killed"}
  /\ todo \in Seq(Path) /\ found \in SUBSET Path
  /\ labels \in Seq(Path)
  /\ \A e \in Range(queue \o buffer) : e.wd <= Len(labels)

Init ==
  /\ there = Present /\ modified = {}
  /\ wdof = [p \in Path |-> 0] /\ queue = <<>>
  /\ clock = 0 /\ made = 0
  /\ changed = [p \in Path |-> Never]
  /\ notified = changed /\ reported = changed
  /\ recursive \in BOOLEAN /\ passthru \in BOOLEAN /\ test \in BOOLEAN
  /\ phase = "start"
  /\ todo = Inputs /\ found = {} /\ alone = FALSE /\ stat = TRUE
  /\ labels = <<>> /\ buffer = <<>>
  /\ passed = {} /\ eof = FALSE

Alive == phase \in {"start", "inputs", "monitor"}

-----------------------------------------------------------------------------
(* Changes of the file system.  Directories stay where they are, and the
   events that the node passes over are left out.                           *)

(* The path an event speaks of, as the node works it out. *)
Spoken(e) == IF e.name = Self THEN labels[e.wd] ELSE Append(labels[e.wd], e.name)

(* The kernel queues an event for each watch concerned: that of the directory
   the path p is in, and that of the object at p, of whom tells the others.  *)
InHome(p, kind) ==
  IF Home(p) \in Dir /\ wdof[Home(p)] # 0
    THEN <<[wd |-> wdof[Home(p)], kind |-> kind, name |-> Last(p)]>> ELSE <<>>
OnItself(p, kind) ==
  IF wdof[p] # 0 THEN <<[wd |-> wdof[p], kind |-> kind, name |-> Self]>> ELSE <<>>

(* The object at p is new or has been written; nothing is at gone any more. *)
Change(p, gone, events) ==
  /\ Alive /\ made < MaxChanges
  /\ Len(queue \o events) <= MaxQueue
  /\ made' = made + 1
  /\ modified' = modified \cup {p}
  /\ queue' = queue \o events
  /\ changed' = [q \in Path |->
       IF q \in gone THEN Never
       ELSE IF q = p /\ \E e \in Range(events) : Spoken(e) = p THEN clock ELSE changed[q]]
  /\ UNCHANGED <<clock, flags, phase, notify, labels, buffer, out>>

CanBe(p) == p \notin there /\ (Len(p) = 1 \/ Home(p) \in there)

CreateFile(f) ==
  /\ CanBe(f)
  /\ there' = there \cup {f}
  /\ Change(f, {}, InHome(f, "entry"))
  /\ UNCHANGED wdof

(* A program closes a file it has written. *)
WriteFile(f) ==
  /\ f \in there
  /\ Change(f, {}, InHome(f, "close") \o OnItself(f, "close"))
  /\ UNCHANGED <<there, wdof>>

(* rename, perhaps over another file. *)
MoveFile(f, g) ==
  /\ f # g /\ f \in there /\ (g \in there \/ CanBe(g))
  /\ there' = (there \ {f}) \cup {g}
  /\ Change(g, {f}, InHome(g, "entry"))
  /\ wdof' = [wdof EXCEPT ![g] = wdof[f], ![f] = 0]

MakeDir(d) ==
  /\ CanBe(d)
  /\ there' = there \cup {d}
  /\ Change(d, {}, InHome(d, "folder"))
  /\ UNCHANGED wdof

Tick ==
  /\ Alive /\ clock < MaxTime
  /\ clock' = clock + 1
  /\ UNCHANGED <<there, made, changed, modified, kernel, flags, phase, notify,
                 labels, buffer, out>>

-----------------------------------------------------------------------------
(* Setting the watches: Notify, called from Execute and from Monitor. *)

(* recursive_directory_iterator *)
Contents(p) == {q \in there : p # q /\ IsPrefix(p, q)}

(* Notify (p) looks what there is. *)
Look(p) ==
  LET all == {p} \cup (IF recursive /\ p \in there \cap Dir THEN Contents(p) ELSE {}) IN
  found' = all /\ alone' = (all = {p})

(* The path itself comes first, and a directory before what is in it. *)
NextFound == CHOOSE p \in found : \A q \in found : Len(p) <= Len(q)

(* Mutant: directories are watched only when they are what Notify was asked
   to watch.                                                                *)
ToWatch_Alone(p) == alone

(* Directories, and a file only if nothing else has been found. *)
ToWatch(p) == p \in there \cap Dir \/ alone

Granted == Cardinality({p \in Path : wdof[p] # 0}) < Limit

(* Mutant: the watch is entered under the directory the path is in. *)
AddWatch_Home(p) ==
  /\ wdof' = [wdof EXCEPT ![p] = Len(labels) + 1]
  /\ labels' = Append(labels, IF Home(p) \in Dir THEN Home(p) ELSE p)

(* Mutant: the watch is not entered in watch_fd_map_. *)
AddWatch_Lost(p) ==
  /\ wdof' = [wdof EXCEPT ![p] = Len(labels) + 1]
  /\ UNCHANGED labels

(* inotify_add_watch: the object's own descriptor, if it has one. *)
AddWatch(p) ==
  IF wdof[p] # 0 THEN labels' = [labels EXCEPT ![wdof[p]] = p] /\ UNCHANGED wdof
  ELSE /\ wdof' = [wdof EXCEPT ![p] = Len(labels) + 1]
       /\ labels' = Append(labels, p)

(* Mutant: only files that are watched themselves are passed through. *)
Passes_Watched(p) == passthru /\ p \in there \cap File /\ alone

Passes(p) == passthru /\ p \in there \cap File

(* One round of the loop in Notify. *)
SetWatch ==
  LET p == NextFound IN
  /\ phase \in {"inputs", "monitor"} /\ found # {}
  /\ found' = found \ {p}
  /\ IF ToWatch(p)
       THEN \/ p \in there /\ (wdof[p] # 0 \/ Granted) /\ AddWatch(p) /\ UNCHANGED stat
            \/ /\ p \notin there \/ (wdof[p] = 0 /\ ~Granted)
               /\ stat' = FALSE
               /\ UNCHANGED <<wdof, labels>>
       ELSE UNCHANGED <<wdof, labels, stat>>
  /\ passed' = IF Passes(p) THEN passed \cup {p} ELSE passed
  /\ UNCHANGED <<disk, queue, flags, phase, todo, alone, buffer, notified, reported, eof>>

-----------------------------------------------------------------------------
(* Execute. *)

(* InitNotify may fail. *)
Begin ==
  /\ phase = "start"
  /\ phase' \in {"inputs", "failed"}
  /\ UNCHANGED <<disk, kernel, flags, notify, labels, buffer, out>>

NextInput ==
  /\ phase = "inputs" /\ found = {} /\ todo # <<>>
  /\ todo' = Tail(todo)
  /\ Look(Head(todo))
  /\ UNCHANGED <<disk, kernel, flags, phase, stat, labels, buffer, out>>

(* If a watch could not be set, Execute returns at once.  In a test it does
   not monitor: RemoveWatches, EOF, Reset.                                  *)
EndInputs ==
  /\ phase = "inputs" /\ found = {} /\ todo = <<>>
  /\ phase' = IF ~stat THEN "failed" ELSE IF test THEN "done" ELSE "monitor"
  /\ IF phase' = "done"
       THEN /\ eof' = TRUE
            /\ wdof' = [p \in Path |-> 0]
            /\ notified' = [p \in Path |-> Never]
       ELSE UNCHANGED <<eof, wdof, notified>>
  /\ UNCHANGED <<disk, queue, flags, notify, labels, buffer, reported, passed>>

(* Monitor: poll, and read as many events as the buffer takes. *)
Read ==
  /\ phase = "monitor" /\ found = {} /\ buffer = <<>> /\ queue # <<>>
  /\ buffer' = queue /\ queue' = <<>>
  /\ UNCHANGED <<disk, wdof, flags, phase, notify, labels, out>>

Due(p) == notified[p] = Never \/ clock - notified[p] >= Debounce

(* Mutant: a report that is suppressed counts as a report. *)
Report_Sliding(p) ==
  /\ notified' = [notified EXCEPT ![p] = clock]
  /\ reported' = IF Due(p) THEN [reported EXCEPT ![p] = clock] ELSE reported

(* Time-based filtering of duplicates. *)
Report(p) ==
  \/ /\ Due(p)
     /\ notified' = [notified EXCEPT ![p] = clock]
     /\ reported' = [reported EXCEPT ![p] = clock]
  \/ ~Due(p) /\ UNCHANGED <<notified, reported>>

(* Mutant: p is not advanced when an event is of no interest. *)
Rest_Same(events) == events

Rest(events) == Tail(events)

Take ==
  LET e == Head(buffer) IN
  /\ phase = "monitor" /\ found = {} /\ buffer # <<>>
  /\ buffer' = Rest(buffer)
  /\ \/ e.kind = "folder" /\ Look(Spoken(e)) /\ UNCHANGED <<notified, reported>>
     \/ e.kind # "folder" /\ Report(Spoken(e)) /\ UNCHANGED <<found, alone>>
  /\ UNCHANGED <<disk, kernel, flags, phase, todo, stat, labels, passed, eof>>

(* SIGTERM. *)
Kill ==
  /\ Alive
  /\ phase' = "killed"
  /\ wdof' = [p \in Path |-> 0] /\ queue' = <<>> /\ buffer' = <<>>
  /\ UNCHANGED <<disk, flags, notify, labels, out>>

NodeStep == Begin \/ NextInput \/ SetWatch \/ EndInputs \/ Read \/ Take

Next ==
  \/ \E f \in File : CreateFile(f) \/ WriteFile(f) \/ \E g \in File : MoveFile(f, g)
  \/ \E d \in Dir : MakeDir(d)
  \/ Tick \/ Kill
  \/ NodeStep

Spec == Init /\ [][Next]_vars /\ WF_vars(NodeStep)

-----------------------------------------------------------------------------
Waiting == queue \o buffer
Quiet   == phase = "monitor" /\ found = {} /\ Waiting = <<>>

(* The debounce time is all that is lost: once the node has read what the
   kernel has for it, every change it has been told of has been reported
   since, or came less than the debounce time after a report.               *)
Reported ==
  phase = "monitor" =>
    \A p \in Path : changed[p] # Never =>
      \/ \E e \in Range(Waiting) : Spoken(e) = p
      \/ p \in Dir
      \/ reported[p] # Never /\ changed[p] - reported[p] < Debounce

(* A path the node reports names a file that was changed; only for an input
   file, whose watch follows the file to other names, this may be wrong.    *)
SpeaksTruth ==
  \A p \in Path \ Range(Inputs) : reported[p] # Never => p \in modified

AllFound == {p \in Present : \E i \in Range(Inputs) :
               p = i \/ (recursive /\ IsPrefix(i, p))}

(* "All files found should pass through the graph initially"
   (watchnode.cpp:381): before the node monitors, every file of its inputs
   that nobody has touched has been written to the outputs.                 *)
PassesAll ==
  phase \in {"monitor", "done"} /\ passthru =>
    \A p \in (AllFound \cap File \cap there) \ modified : p \in passed

(* When the node monitors, no directory that was there is unwatched. *)
WatchesTree ==
  phase = "monitor" => \A d \in AllFound \cap Dir : wdof[d] # 0

(* When the changes cease, the node has soon dealt with all of them: no event
   keeps it from those behind it.                                           *)
CatchesUp == phase = "monitor" ~> Quiet \/ phase = "killed"

(* "Watches all file inputs for changes" (chainscene.cpp:75): while nothing
   is left to be done, each file among the inputs is watched.               *)
WatchesInputs ==
  Quiet => \A f \in Range(Inputs) \cap File \cap there : wdof[f] # 0
=============================================================================
