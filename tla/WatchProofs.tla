---------------------------- MODULE WatchProofs -----------------------------
(***************************************************************************)
(* The Watch node loses no change it is told of, names no file that was    *)
(* not changed, and starts with every file passed through and every        *)
(* directory watched: for all paths, inputs, bounds and file systems.      *)
(*                                                                         *)
(* What the node says of an event depends on the label of its watch, and   *)
(* labels change while the watches are being set.  The invariant follows   *)
(* both: a watch on a directory keeps the directory's path for a label     *)
(* (LabelsOK), what is waiting is an event of such a directory or of an    *)
(* input file (EventsOK), and every change the node was told of has an     *)
(* event waiting that no watch set later can relabel (NothingLost).        *)
(***************************************************************************)
EXTENDS WatchNode, SequenceTheorems, WellFoundedInduction, TLAPS

InputFiles == Range(Inputs) \cap File

Unread == Range(queue) \cup Range(buffer)

(* Two paths have different watches; a watch on a directory is entered under
   the directory's path, one on a file under a path that is an input.       *)
LabelsOK ==
  /\ \A p, q \in Path : wdof[p] = wdof[q] /\ wdof[p] # 0 => p = q
  /\ \A d \in Dir : wdof[d] # 0 => labels[wdof[d]] = d
  /\ \A f \in File : wdof[f] # 0 => labels[wdof[f]] \in InputFiles

(* An event on a watched file itself, or of something in a directory, which
   has been changed.                                                        *)
EventOK(e) ==
  \/ e.name = Self /\ e.kind = "close" /\ labels[e.wd] \in InputFiles
  \/ /\ e.name # Self /\ labels[e.wd] \in Dir
     /\ Spoken(e) \in modified
     /\ e.kind = "folder" => Spoken(e) \in Dir

EventsOK == \A e \in Unread : EventOK(e)

(* A file is watched itself only if it is an input. *)
FilesAlone == alone => found \subseteq InputFiles \cup Dir

TimesOK ==
  /\ \A p \in Path : changed[p] <= clock
  /\ phase # "done" => notified = reported

(* The directories that were there stay. *)
DirsStay == Present \cap Dir \subseteq there

Truth == \A p \in Path : reported[p] # Never => p \in modified \cup InputFiles

(* The event e tells the node of p, whatever watch is set from now on. *)
Tells(e, p) ==
  /\ Spoken(e) = p
  /\ e.name = Self => \A q \in Path : wdof[q] = e.wd => q = p

Owed(p) ==
  \/ \E e \in Unread : Tells(e, p)
  \/ p \in Dir
  \/ reported[p] # Never /\ changed[p] - reported[p] < Debounce

NothingLost == Alive => \A p \in Path : changed[p] # Never => Owed(p)

(* p is what the node finds when it looks at i. *)
Under(p, i) == p = i \/ (recursive /\ IsPrefix(i, p))

(* What it has found of its inputs and not dealt with. *)
Pending == IF phase \in {"monitor", "done"} THEN {} ELSE found

FileSeen(p) ==
  passthru /\ p \in (File \cap there) \ modified => p \in Pending \cup passed

DirSeen(p) ==
  Alive /\ stat /\ p \in Dir => p \in Pending \/ wdof[p] # 0

(* stat is looked at once; afterwards a watch that fails matters no more. *)
DirKept(p) == phase = "monitor" /\ p \in Dir => wdof[p] # 0

NothingSkipped ==
  \A i \in Range(Inputs) \ Range(todo), p \in Present :
    Under(p, i) => FileSeen(p) /\ DirSeen(p) /\ DirKept(p)

Order ==
  /\ Range(todo) \subseteq Range(Inputs)
  /\ phase = "start" => todo = Inputs
  /\ phase \in {"monitor", "done"} => todo = <<>>

WInv ==
  /\ TypeOK /\ LabelsOK /\ EventsOK /\ FilesAlone /\ TimesOK /\ DirsStay /\ Truth
  /\ NothingLost /\ NothingSkipped /\ Order

-----------------------------------------------------------------------------
(* Paths and sequences. *)

(* A set of numbers has a least one. *)
LEMMA Least ==
  ASSUME NEW T, T \subseteq Nat, T # {}
  PROVE  \E x \in T : \A y \in T : x <= y
<1>1. IsWellFoundedOn(OpToRel(<, Nat), Nat)
  BY NatLessThanWellFounded
<1> DEFINE R == OpToRel(<, Nat)
<1> HIDE DEF R
<1>2. PICK x \in T : \A y \in T : ~(<<y, x>> \in R)
  BY <1>1, WFMin DEF R
<1>3. \A y \in T : y < x => <<y, x>> \in R
  BY DEF OpToRel, R
<1>4. \A y \in T : x \in Nat /\ y \in Nat /\ ~(y < x)
  BY <1>2, <1>3
<1> QED
  BY <1>4

LEMMA PathParts ==
  ASSUME NEW p \in Path
  PROVE  /\ p \in Seq(STRING \ {Self}) /\ p # <<>> /\ Len(p) \in Nat
         /\ Last(p) \in STRING /\ Last(p) # Self
         /\ Append(Home(p), Last(p)) = p
<1> DEFINE S == STRING \ {Self}
<1>1. p \in Seq(S) /\ p # <<>>
  BY WatchAssumption
<1> HIDE DEF S
<1>2. PICK s \in Seq(S), x \in S : p = Append(s, x)
  BY <1>1, SequenceEmptyOrAppend
<1>3. Len(p) = Len(s) + 1 /\ Len(s) \in Nat /\ p[Len(s) + 1] = x /\ \A i \in 1..Len(s) : p[i] = s[i]
  BY <1>2, AppendProperties
<1>4. Last(p) = x
  BY <1>3 DEF Last
<1>5. Home(p) = SubSeq(p, 1, Len(s))
  BY <1>3 DEF Home, Front
<1>6. SubSeq(p, 1, Len(s)) = s
  BY <1>2, <1>3
<1>7. Last(p) \in STRING /\ Last(p) # Self
  BY <1>4 DEF S
<1>8. Append(Home(p), Last(p)) = p /\ Len(p) \in Nat
  BY <1>2, <1>3, <1>4, <1>5, <1>6
<1> QED
  BY <1>1, <1>7, <1>8 DEF S

LEMMA NextFoundIn ==
  ASSUME TypeOK, found # {}
  PROVE  NextFound \in found /\ NextFound \in Path
<1>1. \A p \in found : p \in Path /\ Len(p) \in Nat
  BY PathParts DEF TypeOK
<1> DEFINE T == {Len(p) : p \in found}
<1>2. T \subseteq Nat /\ T # {}
  BY <1>1
<1>3. PICK x \in T : \A y \in T : x <= y
  BY <1>2, Least
<1>4. \E p \in found : \A q \in found : Len(p) <= Len(q)
  BY <1>3
<1> QED
  BY <1>1, <1>4 DEF NextFound

LEMMA HeadAndTail ==
  ASSUME NEW S, NEW s \in Seq(S), s # <<>>
  PROVE  /\ Head(s) \in S /\ Tail(s) \in Seq(S)
         /\ Range(s) = {Head(s)} \cup Range(Tail(s))
<1>1. /\ Head(s) \in S /\ Tail(s) \in Seq(S) /\ Len(Tail(s)) = Len(s) - 1
      /\ \A i \in 1..Len(Tail(s)) : Tail(s)[i] = s[i + 1]
  BY HeadTailProperties
<1>2. Len(s) \in Nat \ {0} /\ Head(s) = s[1]
  BY EmptySeq
<1>3. Range(s) = {s[i] : i \in 1..Len(s)} /\ Range(Tail(s)) = {Tail(s)[i] : i \in 1..Len(Tail(s))}
  BY <1>1, RangeEquality
<1>4. ASSUME NEW i \in 1..Len(s), i # 1 PROVE s[i] \in Range(Tail(s))
  BY <1>1, <1>2, <1>3, <1>4
<1>5. ASSUME NEW i \in 1..Len(Tail(s)) PROVE Tail(s)[i] \in Range(s)
  BY <1>1, <1>2, <1>3
<1>6. Head(s) \in Range(s) /\ \A i \in 1..Len(s) : i = 1 => s[i] = Head(s)
  BY <1>2, <1>3
<1>7. Range(Tail(s)) \subseteq Range(s)
  BY <1>3, <1>5
<1>8. Range(s) \subseteq {Head(s)} \cup Range(Tail(s))
  BY <1>3, <1>4, <1>6
<1> QED
  BY <1>1, <1>6, <1>7, <1>8

LEMMA RangeSingle ==
  ASSUME NEW x
  PROVE  /\ Range(<<x>>) = {x} /\ Range(<<>>) = {}
         /\ \A S : <<>> \in Seq(S) /\ (x \in S => <<x>> \in Seq(S))
<1>1. Range(<<x>>) = {x}
  BY DEF Range
<1>2. Range(<<>>) = {}
  BY DEF Range
<1>3. \A S : <<>> \in Seq(S)
  BY EmptySeq
<1>4. \A S : x \in S => <<x>> \in Seq(S)
  OBVIOUS
<1> QED
  BY <1>1, <1>2, <1>3, <1>4

(* What is above something that is there is a directory, and there. *)
LEMMA AboveIsDir ==
  ASSUME NEW i \in Path, NEW p \in Present, IsPrefix(i, p), p # i
  PROVE  i \in Present \cap Dir
BY WatchAssumption

LEMMA UnreadType ==
  ASSUME TypeOK
  PROVE  /\ Range(queue \o buffer) = Unread
         /\ \A e \in Unread : e \in Event /\ e.wd \in 1..Len(labels)
<1>1. Range(queue \o buffer) = Unread
  BY RangeConcatenation DEF TypeOK, Unread
<1>2. Range(queue) \subseteq Event /\ Range(buffer) \subseteq Event
  BY RangeOfSeq DEF TypeOK
<1>3. \A e \in Unread : e.wd <= Len(labels) /\ e.wd \in Nat \ {0}
  BY <1>1, <1>2 DEF TypeOK, Unread, Event
<1>4. Len(labels) \in Nat
  BY DEF TypeOK
<1> QED
  BY <1>1, <1>2, <1>3, <1>4 DEF Unread
-----------------------------------------------------------------------------
LEMMA InitWInv == Init => WInv
<1> SUFFICES ASSUME Init PROVE WInv
  OBVIOUS
<1> USE DEF Init
<1>0. <<>> \in Seq(Event) /\ <<>> \in Seq(Path) /\ Len(<<>>) = 0
  BY EmptySeq
<1>1. Range(queue) = {} /\ Range(buffer) = {} /\ Range(queue \o buffer) = {}
  <2>1. <<>> \o <<>> = <<>>
    BY <1>0, ConcatEmptySeq
  <2> QED
    BY <2>1, RangeSingle
<1>2. TypeOK
  <2>1. {changed, notified, reported} \subseteq [Path -> Stamp]
    BY DEF Stamp, Never
  <2>2. wdof \in [Path -> 0..Len(labels)]
    BY <1>0
  <2>3. clock \in 0..MaxTime /\ made \in 0..MaxChanges /\ there \in SUBSET Path
    BY WatchAssumption
  <2>4. todo \in Seq(Path) /\ labels \in Seq(Path)
    BY <1>0, WatchAssumption
  <2> QED
    BY <1>0, <1>1, <2>1, <2>2, <2>3, <2>4 DEF TypeOK
<1>3. LabelsOK
  BY DEF LabelsOK, Path
<1>4. EventsOK /\ FilesAlone
  BY <1>1 DEF EventsOK, Unread, FilesAlone
<1>5. TimesOK /\ DirsStay /\ Truth /\ NothingLost /\ Order
  BY DEF TimesOK, Never, DirsStay, Truth, NothingLost, Order
<1>6. NothingSkipped
  BY DEF NothingSkipped
<1> QED
  BY <1>2, <1>3, <1>4, <1>5, <1>6 DEF WInv

-----------------------------------------------------------------------------
(* Changes of the file system. *)

(* The event for the directory that p is in. *)
LEMMA HomeEvent ==
  ASSUME TypeOK, LabelsOK, NEW p \in Path, NEW kind \in {"close", "entry", "folder"}
  PROVE  /\ InHome(p, kind) \in Seq(Event)
         /\ \A e \in Range(InHome(p, kind)) :
              /\ e \in Event /\ e.wd \in 1..Len(labels)
              /\ e.kind = kind /\ e.name # Self
              /\ Spoken(e) = p /\ labels[e.wd] \in Dir
<1> DEFINE h == Home(p)
           e0 == [wd |-> wdof[h], kind |-> kind, name |-> Last(p)]
<1>1. CASE h \in Dir /\ wdof[h] # 0
  <2>1. wdof[h] \in 1..Len(labels) /\ wdof[h] \in Nat \ {0} /\ labels[wdof[h]] = h
    BY <1>1 DEF TypeOK, LabelsOK, Path
  <2>2. Last(p) \in STRING /\ Last(p) # Self /\ Append(h, Last(p)) = p
    BY PathParts
  <2>3. e0 \in Event /\ e0.name # Self /\ e0.wd = wdof[h] /\ e0.kind = kind /\ e0.name = Last(p)
    BY <2>1, <2>2 DEF Event
  <2> HIDE DEF e0
  <2>4. Spoken(e0) = p
    BY <2>1, <2>2, <2>3 DEF Spoken
  <2>5. InHome(p, kind) = <<e0>>
    BY <1>1 DEF InHome, e0
  <2>6. Range(<<e0>>) = {e0} /\ <<e0>> \in Seq(Event)
    BY <2>3, RangeSingle
  <2> QED
    BY <1>1, <2>1, <2>3, <2>4, <2>5, <2>6
<1>2. CASE ~(h \in Dir /\ wdof[h] # 0)
  <2>1. InHome(p, kind) = <<>>
    BY <1>2 DEF InHome
  <2> QED
    BY <2>1, RangeSingle
<1> QED
  BY <1>1, <1>2

(* The event for a file that is watched itself. *)
LEMMA OwnEvent ==
  ASSUME TypeOK, LabelsOK, NEW f \in File
  PROVE  /\ OnItself(f, "close") \in Seq(Event)
         /\ \A e \in Range(OnItself(f, "close")) :
              /\ e \in Event /\ e.wd \in 1..Len(labels) /\ e.wd = wdof[f]
              /\ e.kind = "close" /\ e.name = Self
              /\ labels[e.wd] \in InputFiles
<1> DEFINE e0 == [wd |-> wdof[f], kind |-> "close", name |-> Self]
<1>1. CASE wdof[f] # 0
  <2>1. wdof[f] \in 1..Len(labels) /\ wdof[f] \in Nat \ {0} /\ labels[wdof[f]] \in InputFiles
    BY <1>1 DEF TypeOK, LabelsOK, Path
  <2>2. e0 \in Event /\ e0.wd = wdof[f] /\ e0.kind = "close" /\ e0.name = Self
    BY <2>1 DEF Event
  <2>3. OnItself(f, "close") = <<e0>>
    BY <1>1 DEF OnItself
  <2> HIDE DEF e0
  <2>4. Range(<<e0>>) = {e0} /\ <<e0>> \in Seq(Event)
    BY <2>2, RangeSingle
  <2> QED
    BY <2>1, <2>2, <2>3, <2>4
<1>2. CASE wdof[f] = 0
  <2>1. OnItself(f, "close") = <<>>
    BY <1>2 DEF OnItself
  <2> QED
    BY <2>1, RangeSingle
<1> QED
  BY <1>1, <1>2

(* What every change of the file system does: p is new or written, gone is
   given up, and the events that are queued are true of p.                  *)
TrueOf(e, p) ==
  /\ e \in Event /\ e.wd \in 1..Len(labels)
  /\ \/ /\ e.name # Self /\ labels[e.wd] \in Dir /\ Spoken(e) = p
        /\ e.kind = "folder" => p \in Dir
     \/ /\ e.name = Self /\ e.kind = "close" /\ labels[e.wd] \in InputFiles
        /\ \A q \in Path : wdof'[q] = e.wd => q = p

LEMMA ChangeInv ==
  ASSUME WInv, NEW p \in Path, NEW gone \in SUBSET File, NEW events \in Seq(Event),
         Change(p, gone, events),
         there' \in SUBSET (there \cup {p}), there \ gone \subseteq there',
         wdof' \in [Path -> 0..Len(labels)], LabelsOK',
         \A d \in Dir : wdof'[d] = wdof[d],
         \A e \in Range(events) : TrueOf(e, p),
         \A e \in Unread, q \in Path \ gone :
           Tells(e, q) => (\A r \in Path : e.name = Self /\ wdof'[r] = e.wd => r = q)
  PROVE  WInv'
<1> USE DEF WInv
<1>1. /\ Alive /\ made' = made + 1 /\ made < MaxChanges
      /\ modified' = modified \cup {p} /\ queue' = queue \o events
      /\ UNCHANGED <<clock, recursive, passthru, test, phase, todo, found, alone, stat,
                     labels, buffer, notified, reported, passed, eof>>
  BY DEF Change, flags, notify, out
<1>2. changed' = [q \in Path |->
         IF q \in gone THEN Never
         ELSE IF q = p /\ \E e \in Range(events) : Spoken(e) = p THEN clock ELSE changed[q]]
  BY DEF Change
<1>3. queue' \in Seq(Event) /\ Unread' = Unread \cup Range(events)
  BY <1>1, ConcatProperties, RangeConcatenation DEF TypeOK, Unread
<1>4. \A e \in Unread : e \in Event /\ e.wd \in 1..Len(labels)
  BY UnreadType
<1>5. Dir \subseteq Path /\ gone \cap Dir = {} /\ File \subseteq Path
  BY WatchAssumption DEF Path
<1>6. TypeOK'
  <2>0. buffer' \in Seq(Event)
    BY <1>1 DEF TypeOK
  <2>1. Range(queue' \o buffer') = Unread'
    BY <1>3, <2>0, RangeConcatenation DEF Unread
  <2>2. \A e \in Range(queue' \o buffer') : e.wd <= Len(labels')
    BY <1>1, <1>3, <1>4, <2>1 DEF TrueOf
  <2>3. changed' \in [Path -> Stamp]
    BY <1>2 DEF TypeOK, Stamp
  <2>4. made' \in 0..MaxChanges
    BY <1>1, WatchAssumption DEF TypeOK
  <2>5. there' \in SUBSET Path /\ modified' \in SUBSET Path
    BY <1>1 DEF TypeOK
  <2> QED
    BY <1>1, <1>3, <2>2, <2>3, <2>4, <2>5 DEF TypeOK
<1>7. \A e : Spoken(e)' = Spoken(e)
  BY <1>1 DEF Spoken
<1>8. EventsOK'
  <2> SUFFICES ASSUME NEW e \in Unread' PROVE EventOK(e)'
    BY DEF EventsOK
  <2>1. CASE e \in Unread
    BY <1>1, <1>7, <2>1 DEF EventsOK, EventOK
  <2>2. CASE e \in Range(events)
    BY <1>1, <1>7, <2>2 DEF TrueOf, EventOK
  <2> QED
    BY <1>3, <2>1, <2>2
<1>9. FilesAlone' /\ Order'
  BY <1>1 DEF FilesAlone, Order
<1>10. TimesOK'
  <2>1. clock \in Nat /\ Never <= clock
    BY WatchAssumption DEF TypeOK, Never
  <2>2. \A q \in Path : changed'[q] <= clock
    BY <1>2, <2>1 DEF TimesOK
  <2> QED
    BY <1>1, <2>2 DEF TimesOK
<1>11. DirsStay' /\ Truth'
  BY <1>1, <1>5 DEF DirsStay, Truth
<1>12. NothingLost'
  <2> SUFFICES ASSUME NEW q \in Path, changed'[q] # Never PROVE Owed(q)'
    BY DEF NothingLost
  <2>1. q \notin gone
    BY <1>2
  <2>2. CASE q = p /\ \E e \in Range(events) : Spoken(e) = p
    <3>1. PICK e \in Range(events) : Spoken(e) = p
      BY <2>2
    <3>2. TrueOf(e, p)
      OBVIOUS
    <3>3. Tells(e, q)'
      BY <1>7, <2>2, <3>1, <3>2 DEF Tells, TrueOf
    <3> QED
      BY <1>3, <3>3 DEF Owed
  <2>3. CASE ~(q = p /\ \E e \in Range(events) : Spoken(e) = p)
    <3>1. changed'[q] = changed[q]
      BY <1>2, <2>1, <2>3
    <3>2. Owed(q)
      BY <1>1, <3>1 DEF NothingLost
    <3>3. ASSUME NEW e \in Unread, Tells(e, q) PROVE Tells(e, q)'
      BY <1>7, <2>1, <3>3 DEF Tells
    <3> QED
      BY <1>1, <1>3, <3>1, <3>2, <3>3 DEF Owed
  <2> QED
    BY <2>2, <2>3
<1>13. NothingSkipped'
  <2> SUFFICES ASSUME NEW i \in Range(Inputs) \ Range(todo), NEW q \in Present, Under(q, i)
               PROVE  FileSeen(q)' /\ DirSeen(q)' /\ DirKept(q)'
    BY <1>1 DEF NothingSkipped, Under
  <2>1. FileSeen(q) /\ DirSeen(q) /\ DirKept(q)
    BY DEF NothingSkipped
  <2>2. Pending' = Pending /\ Alive' = Alive
    BY <1>1 DEF Pending, Alive
  <2>3. q \in there' /\ q \notin modified' => q \in there /\ q \notin modified
    BY <1>1
  <2> QED
    BY <1>1, <2>1, <2>2, <2>3 DEF FileSeen, DirSeen, DirKept
<1> QED
  BY <1>6, <1>8, <1>9, <1>10, <1>11, <1>12, <1>13

LEMMA SameWatches ==
  ASSUME WInv, UNCHANGED <<wdof, labels>>
  PROVE  /\ wdof' \in [Path -> 0..Len(labels)] /\ LabelsOK'
         /\ \A d \in Dir : wdof'[d] = wdof[d]
         /\ \A e \in Unread, q \in Path :
              Tells(e, q) => (\A r \in Path : e.name = Self /\ wdof'[r] = e.wd => r = q)
BY DEF WInv, TypeOK, LabelsOK, Tells

LEMMA CreateFileInv ==
  ASSUME WInv, NEW f \in File, CreateFile(f)
  PROVE  WInv'
<1>1. f \in Path /\ {} \in SUBSET File
  BY DEF Path
<1>2. Change(f, {}, InHome(f, "entry")) /\ there' = there \cup {f} /\ UNCHANGED <<wdof, labels>>
  BY DEF CreateFile, Change
<1>3. /\ InHome(f, "entry") \in Seq(Event)
      /\ \A e \in Range(InHome(f, "entry")) : TrueOf(e, f)
  BY <1>1, HomeEvent DEF WInv, TrueOf
<1> QED
  BY <1>1, <1>2, <1>3, SameWatches, ChangeInv DEF WInv, TypeOK

LEMMA MakeDirInv ==
  ASSUME WInv, NEW d \in Dir, MakeDir(d)
  PROVE  WInv'
<1>1. d \in Path /\ {} \in SUBSET File
  BY DEF Path
<1>2. Change(d, {}, InHome(d, "folder")) /\ there' = there \cup {d} /\ UNCHANGED <<wdof, labels>>
  BY DEF MakeDir, Change
<1>3. /\ InHome(d, "folder") \in Seq(Event)
      /\ \A e \in Range(InHome(d, "folder")) : TrueOf(e, d)
  BY <1>1, HomeEvent DEF WInv, TrueOf
<1> QED
  BY <1>1, <1>2, <1>3, SameWatches, ChangeInv DEF WInv, TypeOK

LEMMA WriteFileInv ==
  ASSUME WInv, NEW f \in File, WriteFile(f)
  PROVE  WInv'
<1> DEFINE home == InHome(f, "close")
           own  == OnItself(f, "close")
<1>1. f \in Path /\ {} \in SUBSET File
  BY DEF Path
<1>2. Change(f, {}, home \o own) /\ there' = there /\ UNCHANGED <<wdof, labels>>
  BY DEF WriteFile, Change
<1>3. home \in Seq(Event) /\ \A e \in Range(home) : TrueOf(e, f)
  BY <1>1, HomeEvent DEF WInv, TrueOf
<1>4. own \in Seq(Event) /\ \A e \in Range(own) : TrueOf(e, f)
  <2>1. ASSUME NEW e \in Range(own) PROVE TrueOf(e, f)
    <3>1. /\ e \in Event /\ e.wd \in 1..Len(labels) /\ e.wd = wdof[f]
          /\ e.kind = "close" /\ e.name = Self /\ labels[e.wd] \in InputFiles
      BY <2>1, OwnEvent DEF WInv
    <3>2. \A q \in Path : wdof'[q] = e.wd => q = f
      BY <1>1, <1>2, <3>1 DEF WInv, LabelsOK
    <3> QED
      BY <3>1, <3>2 DEF TrueOf
  <2> QED
    BY <2>1, OwnEvent DEF WInv
<1>5. home \o own \in Seq(Event) /\ Range(home \o own) = Range(home) \cup Range(own)
  BY <1>3, <1>4, ConcatProperties, RangeConcatenation
<1> HIDE DEF home, own
<1>6. \A e \in Range(home \o own) : TrueOf(e, f)
  BY <1>3, <1>4, <1>5
<1> QED
  BY <1>1, <1>2, <1>5, <1>6, SameWatches, ChangeInv DEF WInv, TypeOK

(* The watch moves with the file; an event of it that is waiting still tells
   of the path it told of, unless that is the path the file has left.       *)
LEMMA MoveFileInv ==
  ASSUME WInv, NEW f \in File, NEW g \in File, MoveFile(f, g)
  PROVE  WInv'
<1> USE DEF WInv
<1>1. f \in Path /\ g \in Path /\ {f} \in SUBSET File /\ f # g
  BY DEF Path, MoveFile
<1>2. /\ Change(g, {f}, InHome(g, "entry")) /\ there' = (there \ {f}) \cup {g}
      /\ wdof' = [wdof EXCEPT ![g] = wdof[f], ![f] = 0] /\ labels' = labels
  BY DEF MoveFile, Change
<1>3. /\ InHome(g, "entry") \in Seq(Event)
      /\ \A e \in Range(InHome(g, "entry")) : TrueOf(e, g)
  BY <1>1, HomeEvent DEF TrueOf
<1>4. /\ wdof \in [Path -> 0..Len(labels)] /\ Len(labels) \in Nat
      /\ wdof' \in [Path -> 0..Len(labels)]
      /\ wdof'[f] = 0 /\ wdof'[g] = wdof[f]
      /\ \A p \in Path : p # f /\ p # g => wdof'[p] = wdof[p]
  <2>1. wdof \in [Path -> 0..Len(labels)] /\ Len(labels) \in Nat
    BY DEF TypeOK
  <2>2. wdof' = [wdof EXCEPT ![g] = wdof[f], ![f] = 0]
    BY <1>2
  <2>3. wdof'[f] = 0 /\ wdof'[g] = wdof[f] /\ \A p \in Path : p # f /\ p # g => wdof'[p] = wdof[p]
    BY <1>1, <2>1, <2>2
  <2>4. DOMAIN wdof' = Path /\ wdof' = [p \in Path |-> wdof'[p]]
    BY <2>1, <2>2
  <2>5. \A p \in Path : wdof'[p] \in 0..Len(labels)
    BY <1>1, <2>1, <2>3
  <2>6. wdof' \in [Path -> 0..Len(labels)]
    BY <2>4, <2>5
  <2> QED
    BY <2>1, <2>3, <2>6
<1>5. \A d \in Dir : d \in Path /\ d # f /\ d # g
  BY WatchAssumption DEF Path
<1>6. LabelsOK'
  <2>1. \A p, q \in Path : wdof'[p] = wdof'[q] /\ wdof'[p] # 0 => p = q
    BY <1>1, <1>4 DEF LabelsOK
  <2>2. \A d \in Dir : wdof'[d] # 0 => labels'[wdof'[d]] = d
    BY <1>2, <1>4, <1>5 DEF LabelsOK
  <2>3. \A h \in File : wdof'[h] # 0 => labels'[wdof'[h]] \in InputFiles
    BY <1>2, <1>4 DEF LabelsOK, Path
  <2> QED
    BY <2>1, <2>2, <2>3 DEF LabelsOK
<1>7. ASSUME NEW e \in Unread, NEW q \in Path \ {f}, Tells(e, q),
             NEW r \in Path, e.name = Self, wdof'[r] = e.wd
      PROVE  r = q
  <2>1. e.wd # 0 /\ \A t \in Path : wdof[t] = e.wd => t = q
    BY <1>7, UnreadType DEF Tells
  <2> QED
    BY <1>1, <1>4, <1>7, <2>1
<1>8. \A d \in Dir : wdof'[d] = wdof[d]
  BY <1>4, <1>5
<1>9. there' \in SUBSET (there \cup {g}) /\ there \ {f} \subseteq there'
  BY <1>2
<1>10. \A e \in Unread, q \in Path \ {f} :
         Tells(e, q) => (\A r \in Path : e.name = Self /\ wdof'[r] = e.wd => r = q)
  BY <1>7
<1> HIDE DEF WInv
<1> DEFINE events == InHome(g, "entry")   gone == {f}
<1>11. /\ g \in Path /\ gone \in SUBSET File /\ events \in Seq(Event)
       /\ Change(g, gone, events)
       /\ \A e \in Range(events) : TrueOf(e, g)
  BY <1>1, <1>2, <1>3
<1>12. /\ there' \in SUBSET (there \cup {g}) /\ there \ gone \subseteq there'
       /\ wdof' \in [Path -> 0..Len(labels)]
       /\ \A e \in Unread, q \in Path \ gone :
            Tells(e, q) => (\A r \in Path : e.name = Self /\ wdof'[r] = e.wd => r = q)
  BY <1>4, <1>9, <1>10
<1> HIDE DEF events, gone
<1> QED
  BY <1>6, <1>8, <1>11, <1>12, ChangeInv

-----------------------------------------------------------------------------
(* The node. *)

(* A step that changes neither the file system nor the watches nor what is
   waiting, and no history.                                                 *)
LEMMA TickInv ==
  ASSUME WInv, Tick
  PROVE  WInv'
<1> USE DEF WInv, Tick
<1>1. /\ clock' = clock + 1 /\ clock < MaxTime
      /\ UNCHANGED <<there, made, changed, modified, wdof, queue, recursive, passthru, test,
                     phase, todo, found, alone, stat, labels, buffer, notified, reported,
                     passed, eof>>
  BY DEF kernel, flags, notify, out
<1>2. clock' \in 0..MaxTime /\ clock \in Nat /\ Unread' = Unread
  BY <1>1, WatchAssumption DEF TypeOK, Unread
<1>3. TypeOK'
  BY <1>1, <1>2 DEF TypeOK
<1>4. LabelsOK' /\ EventsOK' /\ FilesAlone' /\ DirsStay' /\ Truth' /\ Order'
  BY <1>1, <1>2 DEF LabelsOK, EventsOK, EventOK, Spoken, FilesAlone, DirsStay, Truth, Order
<1>5. TimesOK'
  <2>1. \A p \in Path : changed[p] \in Int
    BY DEF TypeOK, Stamp, Never
  <2> QED
    BY <1>1, <1>2, <2>1 DEF TimesOK
<1>6. NothingLost'
  BY <1>1, <1>2 DEF NothingLost, Alive, Owed, Tells, Spoken
<1>7. NothingSkipped'
  BY <1>1 DEF NothingSkipped, Under, FileSeen, DirSeen, DirKept, Pending, Alive
<1> QED
  BY <1>3, <1>4, <1>5, <1>6, <1>7

LEMMA BeginInv ==
  ASSUME WInv, Begin
  PROVE  WInv'
<1> USE DEF WInv, Begin
<1>1. /\ phase = "start" /\ phase' \in {"inputs", "failed"}
      /\ UNCHANGED <<there, clock, made, changed, modified, wdof, queue, recursive, passthru,
                     test, todo, found, alone, stat, labels, buffer, notified, reported,
                     passed, eof>>
  BY DEF disk, kernel, flags, notify, out
<1>2. Unread' = Unread
  BY <1>1 DEF Unread
<1>3. TypeOK'
  BY <1>1 DEF TypeOK
<1>4. LabelsOK' /\ EventsOK' /\ FilesAlone' /\ DirsStay' /\ Truth' /\ Order' /\ TimesOK'
  BY <1>1, <1>2 DEF LabelsOK, EventsOK, EventOK, Spoken, FilesAlone, DirsStay, Truth, Order, TimesOK
<1>5. NothingLost'
  BY <1>1, <1>2 DEF NothingLost, Alive, Owed, Tells, Spoken
<1>6. NothingSkipped'
  BY <1>1 DEF NothingSkipped, Under, FileSeen, DirSeen, DirKept, Pending, Alive
<1> QED
  BY <1>3, <1>4, <1>5, <1>6

LEMMA KillInv ==
  ASSUME WInv, Kill
  PROVE  WInv'
<1> USE DEF WInv, Kill
<1>1. /\ phase' = "killed" /\ wdof' = [p \in Path |-> 0] /\ queue' = <<>> /\ buffer' = <<>>
      /\ phase # "done"
      /\ UNCHANGED <<there, clock, made, changed, modified, recursive, passthru, test,
                     todo, found, alone, stat, labels, notified, reported, passed, eof>>
  BY DEF disk, flags, notify, out, Alive
<1>2. /\ queue' \in Seq(Event) /\ buffer' \in Seq(Event)
      /\ Unread' = {} /\ Range(queue' \o buffer') = {}
  <2>1. queue' \in Seq(Event) /\ buffer' \in Seq(Event) /\ Unread' = {}
    BY <1>1, RangeSingle DEF Unread
  <2>2. queue' \o buffer' = <<>>
    BY <1>1, <2>1, ConcatEmptySeq
  <2> QED
    BY <2>1, <2>2, RangeSingle
<1>3. TypeOK'
  <2>1. wdof' \in [Path -> 0..Len(labels')]
    BY <1>1 DEF TypeOK
  <2> QED
    BY <1>1, <1>2, <2>1 DEF TypeOK
<1>4. LabelsOK' /\ EventsOK' /\ FilesAlone' /\ DirsStay' /\ Truth' /\ Order' /\ TimesOK'
  BY <1>1, <1>2 DEF LabelsOK, EventsOK, FilesAlone, DirsStay, Truth, Order, TimesOK, Path
<1>5. NothingLost'
  BY <1>1 DEF NothingLost, Alive
<1>6. NothingSkipped'
  BY <1>1 DEF NothingSkipped, Under, FileSeen, DirSeen, DirKept, Pending, Alive
<1> QED
  BY <1>3, <1>4, <1>5, <1>6

(* Look finds only paths, and the path itself alone unless it is a directory. *)
LEMMA LookType ==
  ASSUME TypeOK, NEW p \in Path, Look(p)
  PROVE  /\ found' \in SUBSET Path /\ alone' \in BOOLEAN
         /\ p \in found'
         /\ recursive /\ p \in there \cap Dir => Contents(p) \subseteq found'
         /\ alone' => found' = {p}
BY DEF Look, Contents, TypeOK

LEMMA NextInputInv ==
  ASSUME WInv, NextInput
  PROVE  WInv'
<1> USE DEF WInv, NextInput
<1> DEFINE i == Head(todo)
<1>1. /\ phase = "inputs" /\ found = {} /\ todo # <<>> /\ todo' = Tail(todo) /\ Look(i)
      /\ UNCHANGED <<there, clock, made, changed, modified, wdof, queue, recursive, passthru,
                     test, phase, stat, labels, buffer, notified, reported, passed, eof>>
  BY DEF disk, kernel, flags, out
<1>2. Unread' = Unread
  BY <1>1 DEF Unread
<1>3. /\ i \in Path /\ todo' \in Seq(Path)
      /\ Range(todo) = {i} \cup Range(todo')
  BY <1>1, HeadAndTail DEF TypeOK
<1> HIDE DEF i
<1>4. /\ found' \in SUBSET Path /\ alone' \in BOOLEAN /\ i \in found'
      /\ recursive /\ i \in there \cap Dir => Contents(i) \subseteq found'
      /\ alone' => found' = {i}
  BY <1>1, <1>3, LookType
<1>5. TypeOK'
  BY <1>1, <1>3, <1>4 DEF TypeOK
<1>6. LabelsOK' /\ EventsOK' /\ DirsStay' /\ Truth' /\ TimesOK' /\ Order'
  BY <1>1, <1>2, <1>3 DEF LabelsOK, EventsOK, EventOK, Spoken, DirsStay, Truth, TimesOK, Order
<1>7. NothingLost'
  BY <1>1, <1>2 DEF NothingLost, Alive, Owed, Tells, Spoken
<1>8. i \in Range(Inputs)
  BY <1>3 DEF Order
<1>9. FilesAlone'
  BY <1>3, <1>4, <1>8 DEF FilesAlone, InputFiles, Path
<1>10. NothingSkipped'
  <2> SUFFICES ASSUME NEW j \in Range(Inputs) \ Range(todo'), NEW p \in Present, Under(p, j)
               PROVE  FileSeen(p)' /\ DirSeen(p)' /\ DirKept(p)'
    BY <1>1 DEF NothingSkipped, Under
  <2>1. DirKept(p)' /\ Pending = {} /\ Pending' = found'
    BY <1>1 DEF DirKept, Pending
  <2>2. CASE j \notin Range(todo)
    <3>1. FileSeen(p) /\ DirSeen(p)
      BY <2>2 DEF NothingSkipped
    <3> QED
      BY <1>1, <2>1, <3>1 DEF FileSeen, DirSeen, Alive
  <2>3. CASE j \in Range(todo)
    <3>1. j = i
      BY <1>3, <2>3
    <3>2. p \in there => p \in found'
      <4>1. CASE p = i
        BY <1>4, <4>1
      <4>2. CASE p # i
        <5>1. recursive /\ IsPrefix(i, p)
          BY <3>1, <4>2 DEF Under
        <5>2. i \in there \cap Dir
          BY <1>3, <4>2, <5>1, AboveIsDir DEF DirsStay
        <5> QED
          BY <1>4, <4>2, <5>1, <5>2 DEF Contents
      <4> QED
        BY <4>1, <4>2
    <3>3. p \in Dir => p \in there
      BY DEF DirsStay
    <3> QED
      BY <1>1, <2>1, <3>2, <3>3 DEF FileSeen, DirSeen
  <2> QED
    BY <2>2, <2>3
<1> QED
  BY <1>5, <1>6, <1>7, <1>9, <1>10

(* A watch that is set: the path has one, no other path's watch is touched,
   and only the label of an input file may become another input file's.     *)
Watches(p) ==
  /\ labels' \in Seq(Path) /\ Len(labels) <= Len(labels')
  /\ wdof' \in [Path -> 0..Len(labels')]
  /\ LabelsOK'
  /\ \A q \in Path : q # p => wdof'[q] = wdof[q]
  /\ wdof'[p] \in {wdof[p], Len(labels) + 1}
  /\ \A k \in 1..Len(labels) :
       \/ labels'[k] = labels[k]
       \/ k = wdof[p] /\ labels[k] \in InputFiles /\ p \in InputFiles /\ labels'[k] = p

LEMMA SameWatchesKept ==
  ASSUME WInv, NEW p \in Path, UNCHANGED <<wdof, labels>>
  PROVE  Watches(p)
BY DEF WInv, TypeOK, LabelsOK, Watches

LEMMA AddWatchKeeps ==
  ASSUME WInv, NEW p \in Path, p \in InputFiles \cup Dir, AddWatch(p)
  PROVE  Watches(p) /\ wdof'[p] # 0
<1> USE DEF WInv
<1>0. /\ labels \in Seq(Path) /\ wdof \in [Path -> 0..Len(labels)] /\ Len(labels) \in Nat
      /\ Dir \cap File = {} /\ Dir \subseteq Path /\ File \subseteq Path
  BY WatchAssumption DEF TypeOK, Path
<1>1. CASE wdof[p] # 0
  <2>1. wdof[p] \in 1..Len(labels) /\ labels' = [labels EXCEPT ![wdof[p]] = p] /\ wdof' = wdof
    BY <1>0, <1>1 DEF AddWatch
  <2>2. /\ labels' \in Seq(Path) /\ Len(labels') = Len(labels)
        /\ \A k \in 1..Len(labels) : labels'[k] = IF k = wdof[p] THEN p ELSE labels[k]
    BY <1>0, <2>1, ExceptSeq
  <2>3. p \in Dir => labels[wdof[p]] = p
    BY <1>1 DEF LabelsOK
  <2>4. p \in File => p \in InputFiles /\ labels[wdof[p]] \in InputFiles
    BY <1>0, <1>1 DEF LabelsOK, InputFiles
  <2>5. \A q \in Path : wdof[q] # 0 => wdof[q] \in 1..Len(labels)
    BY <1>0
  <2>6. \A q \in Path : wdof[q] # 0 /\ q # p => labels'[wdof[q]] = labels[wdof[q]]
    BY <1>1, <2>2, <2>5 DEF LabelsOK
  <2>7. labels'[wdof[p]] = p
    BY <2>1, <2>2
  <2>8. LabelsOK'
    BY <1>0, <2>1, <2>4, <2>6, <2>7 DEF LabelsOK
  <2>9. \A k \in 1..Len(labels) :
          \/ labels'[k] = labels[k]
          \/ k = wdof[p] /\ labels[k] \in InputFiles /\ p \in InputFiles /\ labels'[k] = p
    BY <1>0, <2>2, <2>3, <2>4 DEF Path
  <2> QED
    BY <1>0, <1>1, <2>1, <2>2, <2>8, <2>9 DEF Watches
<1>2. CASE wdof[p] = 0
  <2>1. wdof' = [wdof EXCEPT ![p] = Len(labels) + 1] /\ labels' = Append(labels, p)
    BY <1>2 DEF AddWatch
  <2>2. /\ labels' \in Seq(Path) /\ Len(labels') = Len(labels) + 1
        /\ \A k \in 1..Len(labels) : labels'[k] = labels[k]
        /\ labels'[Len(labels) + 1] = p
    BY <1>0, <2>1, AppendProperties
  <2>3. /\ wdof' \in [Path -> 0..Len(labels')] /\ wdof'[p] = Len(labels) + 1
        /\ \A q \in Path : q # p => wdof'[q] = wdof[q]
    BY <1>0, <2>1, <2>2
  <2>4. \A q \in Path : wdof[q] # 0 => wdof[q] \in 1..Len(labels)
    BY <1>0
  <2>5. \A q \in Path : q # p /\ wdof'[q] # 0 => labels'[wdof'[q]] = labels[wdof[q]]
    BY <2>2, <2>3, <2>4
  <2>6. labels'[wdof'[p]] = p
    BY <2>2, <2>3
  <2>7. \A q, r \in Path : wdof'[q] = wdof'[r] /\ wdof'[q] # 0 => q = r
    BY <1>0, <2>3, <2>4 DEF LabelsOK
  <2>8. LabelsOK'
    <3>1. \A d \in Dir : wdof'[d] # 0 => labels'[wdof'[d]] = d
      BY <1>0, <2>3, <2>5, <2>6 DEF LabelsOK
    <3>2. \A h \in File : wdof'[h] # 0 => labels'[wdof'[h]] \in InputFiles
      <4>1. p \in File => p \in InputFiles
        BY <1>0 DEF InputFiles
      <4> QED
        BY <1>0, <2>3, <2>5, <2>6, <4>1 DEF LabelsOK
    <3> QED
      BY <2>7, <3>1, <3>2 DEF LabelsOK
  <2>9. \A k \in 1..Len(labels) : labels'[k] = labels[k]
    BY <2>2
  <2>10. /\ Len(labels) <= Len(labels')
         /\ wdof'[p] \in {wdof[p], Len(labels) + 1} /\ wdof'[p] # 0
    BY <1>0, <2>2, <2>3
  <2> QED
    BY <2>2, <2>3, <2>8, <2>9, <2>10 DEF Watches
<1> QED
  BY <1>1, <1>2

LEMMA SetWatchInv ==
  ASSUME WInv, SetWatch
  PROVE  WInv'
<1> USE DEF WInv
<1> DEFINE p == NextFound
<1>1. /\ phase \in {"inputs", "monitor"} /\ found # {} /\ found' = found \ {p}
      /\ passed' = IF Passes(p) THEN passed \cup {p} ELSE passed
      /\ UNCHANGED <<there, clock, made, changed, modified, queue, recursive, passthru, test,
                     phase, todo, alone, buffer, notified, reported, eof>>
  BY DEF SetWatch, disk, flags
<1>2. p \in found /\ p \in Path
  BY <1>1, NextFoundIn
<1>3. \/ ToWatch(p) /\ p \in there /\ AddWatch(p) /\ stat' = stat
      \/ stat' = FALSE /\ UNCHANGED <<wdof, labels>>
      \/ ~ToWatch(p) /\ UNCHANGED <<wdof, labels, stat>>
  BY DEF SetWatch
<1> HIDE DEF p
<1>4. ToWatch(p) => p \in InputFiles \cup Dir
  BY <1>2 DEF ToWatch, FilesAlone
<1>5. Watches(p) /\ stat' \in BOOLEAN /\ (stat' => stat)
  <2>1. Watches(p)
    BY <1>2, <1>3, <1>4, AddWatchKeeps, SameWatchesKept
  <2>2. stat \in BOOLEAN
    BY DEF TypeOK
  <2>3. stat' = stat \/ stat' = FALSE
    BY <1>3
  <2>4. stat' \in BOOLEAN
    BY <2>2, <2>3
  <2>5. stat' => stat
    BY <2>3
  <2> QED
    BY <2>1, <2>4, <2>5
<1>6. p \in there \cap Dir /\ stat' => wdof'[p] # 0
  BY <1>2, <1>3, <1>4, AddWatchKeeps DEF ToWatch
<1>7. \A q \in Path : wdof[q] # 0 => wdof'[q] # 0
  BY <1>2, <1>5 DEF Watches, TypeOK
<1>8. \A e \in Unread : e \in Event /\ e.wd \in 1..Len(labels)
  BY UnreadType
<1>9. Unread' = Unread
  BY <1>1 DEF Unread
<1>10. TypeOK'
  <2>0. Range(queue' \o buffer') = Unread
    BY <1>1, UnreadType
  <2>1. \A e \in Range(queue' \o buffer') : e.wd <= Len(labels')
    BY <1>5, <1>8, <2>0 DEF Watches
  <2>2. found' \in SUBSET Path /\ passed' \in SUBSET Path
    BY <1>1, <1>2 DEF TypeOK
  <2> QED
    BY <1>1, <1>5, <2>1, <2>2 DEF TypeOK, Watches
<1>11. LabelsOK' /\ FilesAlone' /\ TimesOK' /\ DirsStay' /\ Truth' /\ Order'
  BY <1>1, <1>5 DEF Watches, FilesAlone, TimesOK, DirsStay, Truth, Order
<1>12. ASSUME NEW e \in Unread, labels'[e.wd] # labels[e.wd]
       PROVE  /\ e.wd = wdof[p] /\ p \in InputFiles /\ labels'[e.wd] = p
              /\ e.name = Self /\ e.kind = "close" /\ Spoken(e)' = p
  <2>1. /\ e.wd = wdof[p] /\ labels[e.wd] \in InputFiles
        /\ p \in InputFiles /\ labels'[e.wd] = p
    BY <1>5, <1>8, <1>12 DEF Watches
  <2>2. labels[e.wd] \notin Dir
    BY <2>1, WatchAssumption DEF InputFiles
  <2>3. e.name = Self /\ e.kind = "close"
    BY <2>2 DEF EventsOK, EventOK
  <2> QED
    BY <2>1, <2>3 DEF Spoken
<1>13. \A e \in Unread : labels'[e.wd] = labels[e.wd] => Spoken(e)' = Spoken(e)
  BY DEF Spoken
<1>14. EventsOK'
  <2> SUFFICES ASSUME NEW e \in Unread PROVE EventOK(e)'
    BY <1>9 DEF EventsOK
  <2>1. CASE labels'[e.wd] = labels[e.wd]
    BY <1>1, <1>13, <2>1 DEF EventsOK, EventOK
  <2>2. CASE labels'[e.wd] # labels[e.wd]
    BY <1>12, <2>2 DEF EventOK
  <2> QED
    BY <2>1, <2>2
<1>15. ASSUME NEW e \in Unread, NEW q \in Path, Tells(e, q) PROVE Tells(e, q)'
  <2>1. Spoken(e)' = q
    <3>1. CASE labels'[e.wd] = labels[e.wd]
      BY <1>13, <1>15, <3>1 DEF Tells
    <3>2. CASE labels'[e.wd] # labels[e.wd]
      BY <1>2, <1>12, <1>15, <3>2 DEF Tells
    <3> QED
      BY <3>1, <3>2
  <2>2. \A r \in Path : wdof'[r] = e.wd => wdof[r] = e.wd
    BY <1>5, <1>8 DEF Watches
  <2> QED
    BY <1>15, <2>1, <2>2 DEF Tells
<1>16. NothingLost'
  BY <1>1, <1>9, <1>15 DEF NothingLost, Alive, Owed
<1>17. NothingSkipped'
  <2> SUFFICES ASSUME NEW i \in Range(Inputs) \ Range(todo), NEW q \in Present, Under(q, i)
               PROVE  FileSeen(q)' /\ DirSeen(q)' /\ DirKept(q)'
    BY <1>1 DEF NothingSkipped, Under
  <2>1. FileSeen(q) /\ DirSeen(q) /\ DirKept(q)
    BY DEF NothingSkipped
  <2>2. q \in Path
    BY WatchAssumption
  <2>3. q \in Pending => q = p \/ q \in Pending'
    BY <1>1 DEF Pending
  <2>4. FileSeen(q)'
    BY <1>1, <2>1, <2>3 DEF FileSeen, Passes
  <2>5. DirSeen(q)'
    BY <1>1, <1>5, <1>6, <1>7, <2>1, <2>2, <2>3 DEF DirSeen, Alive, DirsStay
  <2>6. DirKept(q)'
    BY <1>1, <1>7, <2>1, <2>2 DEF DirKept
  <2> QED
    BY <2>4, <2>5, <2>6
<1> QED
  BY <1>10, <1>11, <1>14, <1>16, <1>17

LEMMA EndInputsInv ==
  ASSUME WInv, EndInputs
  PROVE  WInv'
<1> USE DEF WInv
<1>1. /\ phase = "inputs" /\ found = {} /\ todo = <<>>
      /\ phase' = IF ~stat THEN "failed" ELSE IF test THEN "done" ELSE "monitor"
      /\ UNCHANGED <<there, clock, made, changed, modified, queue, recursive, passthru, test,
                     todo, found, alone, stat, labels, buffer, reported, passed>>
  BY DEF EndInputs, disk, flags, notify
<1>2. \/ /\ phase' = "done" /\ eof' = TRUE
         /\ wdof' = [p \in Path |-> 0] /\ notified' = [p \in Path |-> Never]
      \/ /\ phase' # "done" /\ UNCHANGED <<eof, wdof, notified>>
  BY DEF EndInputs
<1>3. Unread' = Unread
  BY <1>1 DEF Unread
<1>4. phase' \in {"failed", "done", "monitor"}
  BY <1>1
<1>5. wdof' \in [Path -> 0..Len(labels)] /\ notified' \in [Path -> Stamp] /\ eof' \in BOOLEAN
  <2>1. wdof' \in [Path -> 0..Len(labels)]
    BY <1>2 DEF TypeOK
  <2>2. notified' \in [Path -> Stamp]
    BY <1>2 DEF TypeOK, Stamp
  <2>3. eof' \in BOOLEAN
    <3>1. eof \in BOOLEAN
      BY DEF TypeOK
    <3> QED
      BY <1>2, <3>1
  <2> QED
    BY <2>1, <2>2, <2>3
<1>6. TypeOK'
  BY <1>1, <1>4, <1>5 DEF TypeOK
<1>7. LabelsOK'
  BY <1>1, <1>2 DEF LabelsOK, Path
<1>8. EventsOK' /\ FilesAlone' /\ DirsStay' /\ Truth' /\ TimesOK' /\ Order'
  BY <1>1, <1>2, <1>3, <1>4 DEF EventsOK, EventOK, Spoken, FilesAlone, DirsStay, Truth, TimesOK, Order
<1>9. NothingLost'
  BY <1>1, <1>2, <1>3 DEF NothingLost, Alive, Owed, Tells, Spoken
<1>10. NothingSkipped'
  <2> SUFFICES ASSUME NEW i \in Range(Inputs) \ Range(todo), NEW q \in Present, Under(q, i)
               PROVE  FileSeen(q)' /\ DirSeen(q)' /\ DirKept(q)'
    BY <1>1 DEF NothingSkipped, Under
  <2>1. FileSeen(q) /\ DirSeen(q)
    BY DEF NothingSkipped
  <2>2. Pending = {} /\ Pending' = {} /\ Alive
    BY <1>1 DEF Pending, Alive
  <2>3. Alive' => phase' = "monitor" /\ stat
    BY <1>1 DEF Alive
  <2> QED
    BY <1>1, <1>2, <2>1, <2>2, <2>3 DEF FileSeen, DirSeen, DirKept
<1> QED
  BY <1>6, <1>7, <1>8, <1>9, <1>10

LEMMA ReadInv ==
  ASSUME WInv, Read
  PROVE  WInv'
<1> USE DEF WInv, Read
<1>1. /\ phase = "monitor" /\ buffer = <<>> /\ buffer' = queue /\ queue' = <<>>
      /\ UNCHANGED <<there, clock, made, changed, modified, wdof, recursive, passthru, test,
                     phase, todo, found, alone, stat, labels, notified, reported, passed, eof>>
  BY DEF disk, flags, notify, out
<1>2. queue' \in Seq(Event) /\ buffer' \in Seq(Event) /\ Unread' = Unread
  BY <1>1, RangeSingle DEF TypeOK, Unread
<1>3. Range(queue' \o buffer') = Unread
  <2>1. queue' \o buffer' = queue
    BY <1>1, ConcatEmptySeq DEF TypeOK
  <2>2. Unread = Range(queue)
    BY <1>1, RangeSingle DEF Unread
  <2> QED
    BY <2>1, <2>2
<1>4. TypeOK'
  BY <1>1, <1>2, <1>3, UnreadType DEF TypeOK
<1>5. LabelsOK' /\ EventsOK' /\ FilesAlone' /\ DirsStay' /\ Truth' /\ TimesOK' /\ Order'
  BY <1>1, <1>2 DEF LabelsOK, EventsOK, EventOK, Spoken, FilesAlone, DirsStay, Truth, TimesOK, Order
<1>6. NothingLost'
  BY <1>1, <1>2 DEF NothingLost, Alive, Owed, Tells, Spoken
<1>7. NothingSkipped'
  BY <1>1 DEF NothingSkipped, Under, FileSeen, DirSeen, DirKept, Pending, Alive
<1> QED
  BY <1>4, <1>5, <1>6, <1>7

(* The report of p, or the reason for which there is none. *)
LEMMA ReportPays ==
  ASSUME TypeOK, notified = reported, NEW p, Report(p)
  PROVE  /\ notified' = reported' /\ reported' \in [Path -> Stamp]
         /\ \A q \in Path : q # p => reported'[q] = reported[q]
         /\ p \in Path => reported'[p] # Never /\ clock - reported'[p] < Debounce
<1>1. clock \in Nat /\ Debounce \in Nat \ {0} /\ reported \in [Path -> Stamp]
  BY WatchAssumption DEF TypeOK
<1>2. CASE Due(p) /\ notified' = [notified EXCEPT ![p] = clock]
           /\ reported' = [reported EXCEPT ![p] = clock]
  <2>1. notified' = reported' /\ reported' \in [Path -> Stamp]
    BY <1>1, <1>2 DEF Stamp
  <2>2. \A q \in Path : q # p => reported'[q] = reported[q]
    BY <1>1, <1>2
  <2>3. p \in Path => reported'[p] = clock
    BY <1>1, <1>2
  <2> QED
    BY <1>1, <2>1, <2>2, <2>3 DEF Never
<1>3. CASE ~Due(p) /\ UNCHANGED <<notified, reported>>
  BY <1>1, <1>3 DEF Due, Stamp, Never
<1> QED
  BY <1>2, <1>3 DEF Report

LEMMA TakeInv ==
  ASSUME WInv, Take
  PROVE  WInv'
<1> USE DEF WInv
<1> DEFINE e == Head(buffer)
           p == Spoken(e)
<1>1. /\ phase = "monitor" /\ found = {} /\ buffer # <<>> /\ buffer' = Tail(buffer)
      /\ UNCHANGED <<there, clock, made, changed, modified, wdof, queue, recursive, passthru,
                     test, phase, todo, stat, labels, passed, eof>>
  BY DEF Take, Rest, disk, kernel, flags
<1>2. \/ e.kind = "folder" /\ Look(p) /\ UNCHANGED <<notified, reported>>
      \/ e.kind # "folder" /\ Report(p) /\ UNCHANGED <<found, alone>>
  BY DEF Take
<1> HIDE DEF e, p
<1>3. buffer' \in Seq(Event) /\ Unread = {e} \cup Unread'
  BY <1>1, HeadAndTail DEF TypeOK, Unread, e
<1>4. EventOK(e) /\ p = Spoken(e)
  BY <1>3 DEF EventsOK, p
<1>5. e.kind = "folder" => p \in Dir
  BY <1>4 DEF EventOK
<1>6. p \in modified \cup InputFiles
  BY <1>4 DEF EventOK, Spoken
<1>7. Dir \subseteq Path
  BY DEF Path
<1>8. /\ found' \in SUBSET Path /\ alone' \in BOOLEAN
      /\ alone' => found' \subseteq InputFiles \cup Dir
  BY <1>2, <1>5, <1>7, LookType DEF TypeOK, FilesAlone
<1>9. /\ notified' = reported' /\ reported' \in [Path -> Stamp]
      /\ \A q \in Path : q # p => reported'[q] = reported[q]
      /\ e.kind = "folder" => reported' = reported
      /\ e.kind # "folder" /\ p \in Path => reported'[p] # Never /\ clock - reported'[p] < Debounce
  BY <1>1, <1>2, ReportPays DEF TimesOK, TypeOK
<1>10. TypeOK'
  <2>0. queue' \in Seq(Event)
    BY <1>1 DEF TypeOK
  <2>1. Range(queue' \o buffer') = Unread'
    BY <1>3, <2>0, RangeConcatenation DEF Unread
  <2>2. \A x \in Range(queue' \o buffer') : x.wd <= Len(labels')
    BY <1>1, <1>3, <2>1, UnreadType
  <2> QED
    BY <1>1, <1>3, <1>8, <1>9, <2>2 DEF TypeOK
<1>11. LabelsOK' /\ EventsOK' /\ FilesAlone' /\ DirsStay' /\ Order'
  BY <1>1, <1>3, <1>8 DEF LabelsOK, EventsOK, EventOK, Spoken, FilesAlone, DirsStay, Order
<1>12. TimesOK'
  BY <1>1, <1>9 DEF TimesOK
<1>13. Truth'
  BY <1>1, <1>6, <1>9 DEF Truth
<1>14. NothingLost'
  <2> SUFFICES ASSUME NEW q \in Path, changed[q] # Never PROVE Owed(q)'
    BY <1>1 DEF NothingLost
  <2>1. Owed(q)
    BY <1>1 DEF NothingLost, Alive
  <2>2. \A x : Tells(x, q) => Tells(x, q)'
    BY <1>1 DEF Tells, Spoken
  <2>3. CASE q # p
    <3>1. ~Tells(e, q)
      BY <1>4, <2>3 DEF Tells
    <3> QED
      BY <1>1, <1>3, <1>9, <2>1, <2>2, <2>3, <3>1 DEF Owed
  <2>4. CASE q = p /\ e.kind = "folder"
    BY <1>5, <2>4 DEF Owed
  <2>5. CASE q = p /\ e.kind # "folder"
    <3>1. reported'[q] # Never /\ clock - reported'[q] < Debounce
      BY <1>9, <2>5
    <3>2. changed[q] <= clock /\ changed[q] \in Int /\ clock \in Int /\ reported'[q] \in Int
          /\ Debounce \in Int
      BY <1>9, WatchAssumption DEF TimesOK, TypeOK, Stamp, Never
    <3> QED
      BY <1>1, <3>1, <3>2 DEF Owed
  <2> QED
    BY <2>3, <2>4, <2>5
<1>15. NothingSkipped'
  <2>1. Pending' = {} /\ Pending = {}
    BY <1>1 DEF Pending
  <2> QED
    BY <1>1, <2>1 DEF NothingSkipped, Under, FileSeen, DirSeen, DirKept, Alive
<1> QED
  BY <1>10, <1>11, <1>12, <1>13, <1>14, <1>15

LEMMA StutterWInv ==
  ASSUME WInv, UNCHANGED vars
  PROVE  WInv'
<1>1. /\ UNCHANGED <<there, clock, made, changed, modified, wdof, queue, recursive, passthru,
                     test, phase, todo, found, alone, stat, labels, buffer, notified, reported,
                     passed, eof>>
  BY DEF vars, disk, kernel, flags, notify, out
<1>2. TypeOK'
  BY <1>1 DEF WInv, TypeOK
<1>3. LabelsOK' /\ EventsOK' /\ FilesAlone' /\ TimesOK' /\ DirsStay' /\ Truth' /\ Order'
  BY <1>1 DEF WInv, LabelsOK, EventsOK, Unread, EventOK, Spoken, FilesAlone, TimesOK, DirsStay,
              Truth, Order
<1>4. NothingLost'
  BY <1>1 DEF WInv, NothingLost, Alive, Owed, Unread, Tells, Spoken
<1>5. NothingSkipped'
  BY <1>1 DEF WInv, NothingSkipped, Under, FileSeen, DirSeen, DirKept, Pending, Alive
<1> QED
  BY <1>2, <1>3, <1>4, <1>5 DEF WInv

LEMMA NextWInv == WInv /\ [Next]_vars => WInv'
<1> SUFFICES ASSUME WInv, [Next]_vars PROVE WInv'
  OBVIOUS
<1>1. ASSUME NEW f \in File, CreateFile(f) \/ WriteFile(f) PROVE WInv'
  BY <1>1, CreateFileInv, WriteFileInv
<1>2. ASSUME NEW f \in File, NEW g \in File, MoveFile(f, g) PROVE WInv'
  BY <1>2, MoveFileInv
<1>3. ASSUME NEW d \in Dir, MakeDir(d) PROVE WInv'
  BY <1>3, MakeDirInv
<1>4. CASE Tick \/ Kill
  BY <1>4, TickInv, KillInv
<1>5. CASE NodeStep
  BY <1>5, BeginInv, NextInputInv, SetWatchInv, EndInputsInv, ReadInv, TakeInv DEF NodeStep
<1>6. CASE UNCHANGED vars
  BY <1>6, StutterWInv
<1> QED
  BY <1>1, <1>2, <1>3, <1>4, <1>5, <1>6 DEF Next

-----------------------------------------------------------------------------
THEOREM WatchInvariance == Spec => []WInv
<1>1. Init => WInv
  BY InitWInv
<1>2. WInv /\ [Next]_vars => WInv'
  BY NextWInv
<1> QED
  BY <1>1, <1>2, PTL DEF Spec

(* What the node keeps of its watches, and what the kernel queues for it, is
   well-formed: every event has a watch descriptor that watch_fd_map_ knows. *)
THEOREM WatchTypeCorrect == Spec => []TypeOK
<1>1. WInv => TypeOK
  BY DEF WInv
<1> QED
  BY <1>1, WatchInvariance, PTL

(* Every change the monitoring node has been told of has an event waiting, or
   has been reported since, or within the debounce time before.             *)
THEOREM ChangesReported == Spec => []Reported
<1>1. WInv => Reported
  <2> SUFFICES ASSUME WInv, phase = "monitor", NEW p \in Path, changed[p] # Never
               PROVE  \/ \E e \in Range(Waiting) : Spoken(e) = p
                      \/ p \in Dir
                      \/ reported[p] # Never /\ changed[p] - reported[p] < Debounce
    BY DEF Reported
  <2>1. Owed(p)
    BY DEF WInv, NothingLost, Alive
  <2>2. Range(Waiting) = Unread
    BY UnreadType DEF WInv, Waiting
  <2> QED
    BY <2>1, <2>2 DEF Owed, Tells
<1> QED
  BY <1>1, WatchInvariance, PTL

(* What is reported is a file that was changed, or one of the inputs. *)
THEOREM ReportsTruthful == Spec => []SpeaksTruth
<1>1. WInv => SpeaksTruth
  BY DEF WInv, Truth, SpeaksTruth, InputFiles
<1> QED
  BY <1>1, WatchInvariance, PTL

LEMMA AllSeen ==
  ASSUME WInv, phase \in {"monitor", "done"}, NEW p \in AllFound
  PROVE  FileSeen(p) /\ DirKept(p) /\ Pending = {}
<1>1. PICK i \in Range(Inputs) : Under(p, i)
  BY DEF AllFound, Under
<1>2. i \notin Range(todo) /\ p \in Present
  BY RangeSingle DEF WInv, Order, AllFound
<1> QED
  BY <1>1, <1>2 DEF WInv, NothingSkipped, Pending

(* All files found pass through the graph initially. *)
THEOREM AllPassThrough == Spec => []PassesAll
<1>1. WInv => PassesAll
  BY AllSeen DEF PassesAll, FileSeen
<1> QED
  BY <1>1, WatchInvariance, PTL

(* No directory that was there is unwatched when the node monitors. *)
THEOREM TreeIsWatched == Spec => []WatchesTree
<1>1. WInv => WatchesTree
  BY AllSeen DEF WatchesTree, DirKept
<1> QED
  BY <1>1, WatchInvariance, PTL
=============================================================================
