----------------------------- MODULE WorkProofs -----------------------------
(***************************************************************************)
(* Proofs about the work graph, its sheets and the assignment, for any     *)
(* projects, tasks, hosts, principals and keys.                            *)
(*                                                                         *)
(* Every command writes the whole of a record it made of one it read       *)
(* before.  The invariants say of what is pending that either what it      *)
(* would write is a successor of what is there now, or the version moved   *)
(* on and it will be refused: a record changes only together with its      *)
(* version, so nothing in between is ever written.                         *)
(***************************************************************************)
EXTENDS Assignments, SequenceTheorems, TLAPS

(* What a host may be about to write or to file. *)
WriteCall    == [op : {"write"}, on : Records, value : Record]
ReassignCall == [op : {"reassign"}, key : ReassignKeys, value : Assignment]
RouteCall    == [op : {"route"}, value : Assignment]
ObserveCall  == [op : {"observe"}, key : ObservationKeys, version : Nat,
                 generation : Nat, by : Principals]

Pending == {Idle} \cup WriteCall \cup ReassignCall \cup RouteCall \cup ObserveCall

(* The operation of a call tells which one it is. *)
LEMMA PendingKinds ==
    ASSUME NEW c \in Pending
    PROVE  /\ c.op = "write" => c \in WriteCall
           /\ c.op = "reassign" => c \in ReassignCall
           /\ c.op = "route" => c \in RouteCall
           /\ c.op = "observe" => c \in ObserveCall
           /\ c.op \in {None, "write", "reassign", "route", "observe"}
BY WorkAssumption, AssignmentAssumption
   DEF WorkAssumption, AssignmentAssumption, Pending, Idle, WriteCall, ReassignCall, RouteCall,
       ObserveCall

-----------------------------------------------------------------------------
(* The work graph and its sheets. *)

(* What a revision of a record keeps. *)
Succeeds(old, new) ==
    /\ old.admitted => new.admitted
    /\ old.dependencies \subseteq new.dependencies
    /\ new.tasks = old.tasks
    /\ new.keys = old.keys
    /\ old.project # None => new.project = old.project

(* A record that is about to be written is one version after the present one
   and keeps what it must, or the present one has moved on. *)
Fits(rec, c) ==
    LET old == rec[c.on] IN
    /\ c.value.version \in 1 .. old.version + 1
    /\ c.value.version = old.version + 1 => Succeeds(old, c.value)

Whole(rec) ==
    \A p \in Projects :
        /\ rec[p].keys \subseteq rec[p].tasks
        /\ \A t \in rec[p].tasks : rec[t].version > 0 /\ rec[t].project = p

GraphInv ==
    /\ record \in [Records -> Record]
    /\ call \in [Hosts -> Pending]
    /\ \A r \in Records : record[r].version = 0 => record[r] = Absent
    /\ \A h \in Hosts : call[h].op = "write" => Fits(record, call[h])
    /\ Whole(record)

(* A record changes only together with its version. *)
Moves(rec, new) ==
    \A r \in Records : new[r] = rec[r] \/ new[r].version = rec[r].version + 1

LEMMA RecordParts ==
    ASSUME NEW row \in Record
    PROVE  /\ row.version \in Nat /\ row.project \in Projects \cup {None}
           /\ row.parent \in Records \cup {None} /\ row.dependencies \subseteq Records
           /\ row.admitted \in BOOLEAN /\ row.tasks \subseteq Tasks /\ row.keys \subseteq Tasks
BY DEF Record

LEMMA AbsentType == Absent \in Record
BY DEF Absent, Record

LEMMA FitsStill ==
    ASSUME NEW rec \in [Records -> Record], NEW new \in [Records -> Record], Moves(rec, new),
           NEW c \in WriteCall, Fits(rec, c)
    PROVE  Fits(new, c)
<1>1. c.on \in Records /\ c.value \in Record
  BY DEF WriteCall
<1>2. rec[c.on].version \in Nat /\ new[c.on].version \in Nat /\ c.value.version \in Nat
  BY <1>1, RecordParts
<1>3. CASE new[c.on] = rec[c.on]
  BY <1>3 DEF Fits
<1>4. CASE new[c.on].version = rec[c.on].version + 1
  BY <1>2, <1>4 DEF Fits
<1> QED
  BY <1>1, <1>3, <1>4 DEF Moves

(* A command leaves the records alone until it writes, and what it is about to
   write fits. *)
Submits(h) ==
    \E c \in WriteCall : /\ Fits(record, c)
                         /\ call' = [call EXCEPT ![h] = c]
                         /\ UNCHANGED record

LEMMA PendsFits ==
    ASSUME GraphInv, NEW h \in Hosts, NEW r \in Records, NEW value \in Record,
           Succeeds(record[r], value), Pends(h, r, value)
    PROVE  Submits(h)
<1> DEFINE version == record[r].version + 1
           row == [value EXCEPT !.version = version]
           c == [op |-> "write", on |-> r, value |-> row]
<1>1. record[r] \in Record /\ record[r].version \in Nat
  BY RecordParts DEF GraphInv
<1>2. call' = [call EXCEPT ![h] = c] /\ UNCHANGED record
  BY DEF Pends, Calls
<1>3. version \in Nat /\ version \in 1 .. record[r].version + 1
  BY <1>1
<1>4. row \in Record /\ row.version = record[r].version + 1 /\ Succeeds(record[r], row)
  <2> HIDE DEF version
  <2>1. /\ row \in Record /\ row.version = version /\ row.admitted = value.admitted
        /\ row.dependencies = value.dependencies /\ row.tasks = value.tasks
        /\ row.keys = value.keys /\ row.project = value.project
    BY <1>3 DEF Record
  <2> HIDE DEF row
  <2>2. Succeeds(record[r], row)
    BY <2>1 DEF Succeeds
  <2> QED
    BY <2>1, <2>2 DEF version
<1> HIDE DEF row
<1>5. c \in WriteCall /\ c.on = r /\ c.value = row
  BY <1>4 DEF WriteCall
<1> HIDE DEF c
<1>6. Fits(record, c)
  BY <1>1, <1>3, <1>4, <1>5 DEF Fits
<1> QED
  BY <1>2, <1>5, <1>6 DEF Submits

LEMMA CreateSubmits ==
    ASSUME GraphInv, NEW h \in Hosts, NEW t \in Tasks, ~Exists(t),
           NEW project \in Projects \cup {None}, NEW parent \in Records \cup {None},
           NEW deps \in SUBSET Records, Create(h, t, project, parent, deps)
    PROVE  Submits(h)
<1> DEFINE of == IF project = None THEN ProjectOf(parent) ELSE project
           above == IF parent = None THEN project ELSE parent
           value == [Absent EXCEPT !.project = of, !.parent = above, !.dependencies = deps]
<1>1. record[t] = Absent /\ t \in Records
  <2>1. t \in Records /\ record[t].version \in Nat
    BY RecordParts DEF Records, GraphInv
  <2> QED
    BY <2>1 DEF GraphInv, Exists
<1>2. ProjectOf(parent) \in Projects \cup {None}
  <2>1. CASE parent \in Tasks
    BY <2>1, RecordParts DEF ProjectOf, GraphInv, Records
  <2>2. CASE parent \notin Tasks
    BY <2>2 DEF ProjectOf, Records
  <2> QED
    BY <2>1, <2>2
<1>3. of \in Projects \cup {None} /\ above \in Records \cup {None}
  BY <1>2 DEF Records
<1>4. Pends(h, t, value)
  BY DEF Create
<1> HIDE DEF of, above
<1>5. /\ value \in Record /\ value.tasks = Absent.tasks /\ value.keys = Absent.keys
      /\ Absent.dependencies = {} /\ Absent.admitted = FALSE /\ Absent.project = None
  BY <1>3, AbsentType DEF Absent, Record
<1> HIDE DEF value
<1>6. Succeeds(record[t], value)
  BY <1>1, <1>5 DEF Succeeds
<1> QED
  BY <1>1, <1>4, <1>5, <1>6, PendsFits

LEMMA LinkParentSubmits ==
    ASSUME GraphInv, NEW h \in Hosts, NEW child \in Records, NEW parent \in Records,
           LinkParent(h, child, parent)
    PROVE  Submits(h)
<1> DEFINE old == record[child]
           of == IF old.project = None THEN ProjectOf(parent) ELSE old.project
           value == [old EXCEPT !.parent = parent, !.project = of]
<1>1. old \in Record
  BY DEF GraphInv
<1>2. ProjectOf(parent) \in Projects \cup {None}
  BY RecordParts DEF ProjectOf, GraphInv, Records
<1>3. of \in Projects \cup {None} /\ (old.project # None => of = old.project)
  BY <1>1, <1>2, RecordParts
<1>4. Pends(h, child, value)
  BY DEF LinkParent
<1> HIDE DEF of, old
<1>5. /\ value \in Record /\ value.tasks = old.tasks /\ value.keys = old.keys
      /\ value.dependencies = old.dependencies /\ value.admitted = old.admitted
      /\ value.project = of
  BY <1>1, <1>3 DEF Record
<1> HIDE DEF value
<1>6. Succeeds(old, value)
  BY <1>3, <1>5 DEF Succeeds
<1> QED
  BY <1>4, <1>5, <1>6, PendsFits DEF old

LEMMA CommandSubmits ==
    ASSUME GraphInv, NEW h \in Hosts, Command(h) \/ \E p \in Projects : Activate(h, p)
    PROVE  Submits(h)
<1>1. ASSUME NEW r \in Records, Revise(h, r)
      PROVE  Submits(h)
  <2>1. record[r] \in Record /\ Succeeds(record[r], record[r])
    BY DEF GraphInv, Succeeds
  <2> QED
    BY <1>1, <2>1, PendsFits DEF Revise
<1>2. ASSUME NEW r \in Records, NEW prerequisite \in Records, LinkDependency(h, r, prerequisite)
      PROVE  Submits(h)
  <2> DEFINE deps == record[r].dependencies \cup {prerequisite}
             value == [record[r] EXCEPT !.dependencies = deps]
  <2>1. record[r] \in Record
    BY DEF GraphInv
  <2>2. deps \in SUBSET Records /\ record[r].dependencies \subseteq deps
    BY <2>1, RecordParts
  <2>3. Pends(h, r, value)
    BY <1>2 DEF LinkDependency
  <2> HIDE DEF deps
  <2>4. /\ value \in Record /\ value.tasks = record[r].tasks /\ value.keys = record[r].keys
        /\ value.dependencies = deps /\ value.admitted = record[r].admitted
        /\ value.project = record[r].project
    BY <2>1, <2>2 DEF Record
  <2> HIDE DEF value
  <2> QED
    BY <2>2, <2>3, <2>4, PendsFits DEF Succeeds
<1>3. ASSUME NEW p \in Projects, Activate(h, p)
      PROVE  Submits(h)
  <2> DEFINE value == [record[p] EXCEPT !.admitted = TRUE]
  <2>1. record[p] \in Record /\ p \in Records
    BY DEF GraphInv, Records
  <2>2. Pends(h, p, value)
    BY <1>3 DEF Activate
  <2>3. /\ value \in Record /\ value.tasks = record[p].tasks /\ value.keys = record[p].keys
        /\ value.dependencies = record[p].dependencies /\ value.admitted = TRUE
        /\ value.project = record[p].project
    BY <2>1 DEF Record
  <2> HIDE DEF value
  <2> QED
    BY <2>1, <2>2, <2>3, PendsFits DEF Succeeds
<1> QED
  BY <1>1, <1>2, <1>3, CreateSubmits, LinkParentSubmits DEF Command

(* Whatever a host is about to do, it may only submit, write or be refused. *)
LEMMA SubmitInductive ==
    ASSUME GraphInv, NEW h \in Hosts, Submits(h)
    PROVE  GraphInv'
<1>1. PICK c \in WriteCall : /\ Fits(record, c)
                             /\ call' = [call EXCEPT ![h] = c]
                             /\ UNCHANGED record
  BY DEF Submits
<1>2. c \in Pending
  BY DEF Pending
<1>3. call' \in [Hosts -> Pending]
  BY <1>1, <1>2 DEF GraphInv
<1>4. \A g \in Hosts : call'[g] = IF g = h THEN c ELSE call[g]
  BY <1>1 DEF GraphInv
<1> QED
  BY <1>1, <1>3, <1>4 DEF GraphInv

(* What else the hosts are about to do keeps fitting, as long as records change
   together with their versions. *)
LEMMA PendingFits ==
    ASSUME GraphInv, record' \in [Records -> Record], Moves(record, record'),
           call' \in [Hosts -> Pending],
           \A h \in Hosts : call'[h] = call[h] \/ call'[h].op # "write"
    PROVE  \A h \in Hosts : call'[h].op = "write" => Fits(record', call'[h])
<1> SUFFICES ASSUME NEW h \in Hosts, call'[h].op = "write" PROVE Fits(record', call'[h])
  OBVIOUS
<1>1. call'[h] = call[h] /\ call[h] \in WriteCall /\ Fits(record, call[h])
  BY PendingKinds DEF GraphInv
<1> QED
  BY <1>1, FitsStill DEF GraphInv

(* Returning to idle. *)
LEMMA ReturnsCalls ==
    ASSUME GraphInv, NEW h \in Hosts, Returns(h)
    PROVE  /\ call' \in [Hosts -> Pending]
           /\ \A g \in Hosts : call'[g] = call[g] \/ call'[g].op # "write"
<1>1. Idle \in Pending /\ Idle.op # "write"
  BY WorkAssumption DEF WorkAssumption, Pending, Idle
<1> QED
  BY <1>1 DEF Returns, GraphInv

LEMMA WriteInductive ==
    ASSUME GraphInv, NEW h \in Hosts, Write(h)
    PROVE  /\ GraphInv' /\ Moves(record, record')
           /\ \A r \in Records : record'[r] = record[r] \/ Succeeds(record[r], record'[r])
<1> DEFINE c == call[h]
           old == record[c.on]
<1>1. c \in WriteCall /\ c.on \in Records /\ c.value \in Record /\ Fits(record, c)
  BY PendingKinds DEF GraphInv, Write, WriteCall
<1>2. record' = [record EXCEPT ![c.on] = c.value] /\ Returns(h)
  BY DEF Write
<1>3. c.value.version = old.version + 1 /\ Succeeds(old, c.value)
  BY <1>1 DEF Write, Unchanged, Fits
<1> HIDE DEF c
<1>4. record \in [Records -> Record] /\ record' \in [Records -> Record]
  BY <1>1, <1>2 DEF GraphInv
<1>5. \A r \in Records : record'[r] = IF r = c.on THEN c.value ELSE record[r]
  BY <1>1, <1>2 DEF GraphInv
<1>6. Moves(record, record')
  BY <1>3, <1>5 DEF Moves
<1>7. \A g \in Hosts : call'[g].op = "write" => Fits(record', call'[g])
  BY <1>2, <1>4, <1>6, ReturnsCalls, PendingFits
<1>8. old.version \in Nat
  BY <1>1, <1>4, RecordParts
<1>9. \A r \in Records : record'[r].version = 0 => record'[r] = Absent
  BY <1>3, <1>5, <1>8 DEF GraphInv
<1>10. Whole(record')
  <2> SUFFICES ASSUME NEW p \in Projects
               PROVE  /\ record'[p].keys \subseteq record'[p].tasks
                      /\ \A t \in record'[p].tasks :
                            record'[t].version > 0 /\ record'[t].project = p
    BY DEF Whole
  <2>1. p \in Records /\ p # None
    BY WorkAssumption DEF WorkAssumption, Records
  <2>2. record'[p].keys = record[p].keys /\ record'[p].tasks = record[p].tasks
    BY <1>3, <1>5, <2>1 DEF Succeeds
  <2>3. record[p].keys \subseteq record[p].tasks
    BY DEF GraphInv, Whole
  <2>4. ASSUME NEW t \in record[p].tasks
        PROVE  record'[t].version > 0 /\ record'[t].project = p
    <3>1. record[t].version > 0 /\ record[t].project = p
      BY DEF GraphInv, Whole
    <3>2. t \in Records
      BY <1>4, <2>1, RecordParts DEF Records
    <3>3. CASE t = c.on
      BY <1>3, <1>5, <1>8, <2>1, <3>1, <3>2, <3>3 DEF Succeeds
    <3>4. CASE t # c.on
      BY <1>5, <3>1, <3>2, <3>4
    <3> QED
      BY <3>3, <3>4
  <2> QED
    BY <2>2, <2>3, <2>4
<1>11. GraphInv'
  BY <1>2, <1>4, <1>7, <1>9, <1>10, ReturnsCalls DEF GraphInv
<1>12. \A r \in Records : record'[r] = record[r] \/ Succeeds(record[r], record'[r])
  BY <1>3, <1>5
<1> QED
  BY <1>6, <1>11, <1>12

(* Steps that leave the records alone and submit nothing. *)
LEMMA AsideInductive ==
    ASSUME GraphInv, UNCHANGED record, call' \in [Hosts -> Pending],
           \A h \in Hosts : call'[h] = call[h] \/ call'[h].op # "write"
    PROVE  GraphInv'
BY PendingFits DEF GraphInv, Moves

LEMMA CreateProjectInductive ==
    ASSUME GraphInv, NEW p \in Projects, CreateProject(p)
    PROVE  GraphInv' /\ record[p] = Absent /\ \A r \in Records \ {p} : record'[r] = record[r]
<1> DEFINE row == [Absent EXCEPT !.version = 1]
<1>1. row \in Record /\ row.version = 1 /\ row.tasks = {} /\ row.keys = {}
  BY AbsentType DEF Absent, Record
<1>2. record' = [record EXCEPT ![p] = row] /\ UNCHANGED call /\ ~Exists(p) /\ p \in Records
  BY DEF CreateProject, Records
<1> HIDE DEF row
<1>3. record \in [Records -> Record] /\ record' \in [Records -> Record]
  BY <1>1, <1>2 DEF GraphInv
<1>4. \A r \in Records : record'[r] = IF r = p THEN row ELSE record[r]
  BY <1>2 DEF GraphInv
<1>5. record[p].version = 0 /\ record[p] = Absent
  BY <1>2, <1>3, RecordParts DEF Exists, GraphInv
<1>6. Moves(record, record')
  BY <1>1, <1>4, <1>5 DEF Moves
<1>7. \A g \in Hosts : call'[g].op = "write" => Fits(record', call'[g])
  BY <1>2, <1>3, <1>6, PendingFits DEF GraphInv
<1>8. \A r \in Records : record'[r].version = 0 => record'[r] = Absent
  BY <1>1, <1>4 DEF GraphInv
<1>9. \A q \in Projects : \A t \in record[q].tasks : t \in Records /\ t # p
  BY <1>3, RecordParts, WorkAssumption DEF WorkAssumption, Records
<1>10. Whole(record')
  BY <1>1, <1>2, <1>4, <1>9 DEF GraphInv, Whole, Records
<1> QED
  BY <1>2, <1>3, <1>4, <1>5, <1>7, <1>8, <1>10 DEF GraphInv

(* What a sheet writes: the project and the tasks it names, one version further. *)
SheetWrites(p, names) ==
    /\ record' \in [Records -> Record] /\ names \subseteq Records /\ p \notin names
    /\ \A r \in Records \ ({p} \cup names) : record'[r] = record[r]
    /\ \A t \in names : /\ record'[t].version = record[t].version + 1
                        /\ record'[t].project = p
                        /\ record'[t].admitted = record[t].admitted
    /\ record'[p].version = record[p].version + 1
    /\ record'[p].admitted = record[p].admitted
    /\ record'[p].dependencies = record[p].dependencies
    /\ record'[p].tasks = record[p].tasks \cup names
    /\ record'[p].keys = record[p].keys \cup names

LEMMA SheetRows ==
    ASSUME GraphInv, NEW p \in Projects, NEW names \in SUBSET Tasks,
           NEW sheet \in [names -> SUBSET Records], ApplySheet(p, sheet)
    PROVE  SheetWrites(p, names)
<1>1. names \subseteq Records /\ p \in Records /\ p \notin names /\ DOMAIN sheet = names
  BY WorkAssumption DEF WorkAssumption, Records
<1>2. \A r \in Records : record[r] \in Record /\ record[r].version \in Nat
  BY RecordParts DEF GraphInv
<1>3. ASSUME NEW t \in names
      PROVE  LET row == TaskRow(p, t, sheet[t]) IN
             /\ row \in Record /\ row.version = record[t].version + 1
             /\ row.project = p /\ row.admitted = record[t].admitted
  <2> DEFINE version == record[t].version + 1  deps == sheet[t]  old == record[t]
             row == [old EXCEPT !.version = version, !.project = p, !.parent = p,
                                !.dependencies = deps]
  <2>1. version \in Nat /\ deps \in SUBSET Records /\ p \in Projects /\ p \in Records
    BY <1>1, <1>2
  <2>2. TaskRow(p, t, sheet[t]) = row
    BY DEF TaskRow
  <2>3. old \in Record
    BY <1>1, <1>2
  <2> HIDE DEF version, deps, old
  <2>4. row \in Record /\ row.version = version /\ row.project = p /\ row.admitted = old.admitted
    BY <2>1, <2>3 DEF Record
  <2> HIDE DEF row
  <2> QED
    BY <2>2, <2>4 DEF version, old
<1>4. LET row == ProjectRow(p, names) IN
      /\ row \in Record /\ row.version = record[p].version + 1
      /\ row.admitted = record[p].admitted /\ row.dependencies = record[p].dependencies
      /\ row.tasks = record[p].tasks \cup names /\ row.keys = record[p].keys \cup names
  <2> DEFINE old == record[p]  version == old.version + 1
             tasks == old.tasks \cup names  keys == old.keys \cup names
             row == [old EXCEPT !.version = version, !.tasks = tasks, !.keys = keys]
  <2>1. old \in Record /\ version \in Nat /\ tasks \in SUBSET Tasks /\ keys \in SUBSET Tasks
    BY <1>1, <1>2, RecordParts
  <2>2. ProjectRow(p, names) = row
    BY DEF ProjectRow
  <2> HIDE DEF version, tasks, keys, old
  <2>3. /\ row \in Record /\ row.version = version /\ row.admitted = old.admitted
        /\ row.dependencies = old.dependencies /\ row.tasks = tasks /\ row.keys = keys
    BY <2>1 DEF Record
  <2> HIDE DEF row
  <2> QED
    BY <2>2, <2>3 DEF version, tasks, keys, old
<1> DEFINE rows == ChildRows(p, sheet)
<1>5. \A r \in Records : rows[r] = IF r \in names THEN TaskRow(p, r, sheet[r]) ELSE record[r]
  BY <1>1 DEF ChildRows
<1>6. DOMAIN rows = Records /\ rows \in [Records -> Record]
  BY <1>1, <1>2, <1>3 DEF ChildRows
<1>7. record' = [rows EXCEPT ![p] = ProjectRow(p, names)]
  BY <1>1 DEF ApplySheet
<1> HIDE DEF rows
<1>8. \A r \in Records : record'[r] = IF r = p THEN ProjectRow(p, names) ELSE rows[r]
  BY <1>6, <1>7
<1>9. record' \in [Records -> Record]
  BY <1>4, <1>6, <1>7
<1> QED
  BY <1>1, <1>3, <1>4, <1>5, <1>8, <1>9 DEF SheetWrites

LEMMA SheetInductive ==
    ASSUME GraphInv, NEW p \in Projects, NEW names \in SUBSET Tasks,
           NEW sheet \in [names -> SUBSET Records], Exists(p), ApplySheet(p, sheet)
    PROVE  GraphInv'
<1> SheetWrites(p, names)
  BY SheetRows
<1>1. /\ record' \in [Records -> Record] /\ names \subseteq Records /\ p \notin names
      /\ p \in Records
      /\ \A r \in Records \ ({p} \cup names) : record'[r] = record[r]
      /\ \A t \in names : record'[t].version = record[t].version + 1 /\ record'[t].project = p
      /\ record'[p].version = record[p].version + 1
      /\ record'[p].tasks = record[p].tasks \cup names
      /\ record'[p].keys = record[p].keys \cup names
  BY DEF Records, SheetWrites
<1>2. UNCHANGED call /\ \A t \in names : record[t].version > 0 => record[t].project = p
  BY DEF ApplySheet, PlanAccepted, Nameable, Exists
<1>3. \A r \in Records : record[r].version \in Nat
  BY RecordParts DEF GraphInv
<1>4. Moves(record, record')
  BY <1>1 DEF Moves
<1>5. \A g \in Hosts : call'[g].op = "write" => Fits(record', call'[g])
  BY <1>1, <1>2, <1>4, PendingFits DEF GraphInv
<1>6. \A r \in Records : record'[r].version = 0 => record'[r] = Absent
  BY <1>1, <1>3 DEF GraphInv
<1>7. Whole(record')
  <2> SUFFICES ASSUME NEW q \in Projects
               PROVE  /\ record'[q].keys \subseteq record'[q].tasks
                      /\ \A t \in record'[q].tasks :
                            record'[t].version > 0 /\ record'[t].project = q
    BY DEF Whole
  <2>1. q \in Records /\ q \notin names
    BY WorkAssumption DEF WorkAssumption, Records
  <2>2. record[q].keys \subseteq record[q].tasks /\ record[q].tasks \subseteq Tasks
    BY <2>1, RecordParts DEF GraphInv, Whole
  <2>3. record'[q].keys \subseteq record'[q].tasks
    BY <1>1, <2>1, <2>2
  <2>4. ASSUME NEW t \in record'[q].tasks
        PROVE  record'[t].version > 0 /\ record'[t].project = q
    <3>1. t \in record[q].tasks \/ (q = p /\ t \in names)
      BY <1>1, <2>1
    <3>2. t \in record[q].tasks => record[t].version > 0 /\ record[t].project = q
      BY DEF GraphInv, Whole
    <3>3. t \in Records /\ t # p
      BY <1>1, <2>2, <3>1, WorkAssumption DEF WorkAssumption, Records
    <3>4. CASE t \in names
      BY <1>1, <1>2, <1>3, <3>1, <3>2, <3>4
    <3>5. CASE t \notin names
      BY <1>1, <3>1, <3>2, <3>3, <3>5
    <3> QED
      BY <3>4, <3>5
  <2> QED
    BY <2>3, <2>4
<1> QED
  BY <1>1, <1>2, <1>5, <1>6, <1>7 DEF GraphInv

-----------------------------------------------------------------------------
(* The assignment. *)

(* Nothing of a is lost in b. *)
Kept(a, b) == IsPrefix(a.history, b.history) /\ (a.route => b.route)

(* A dispatch or report names the principal of the generation it is filed under. *)
Fenced(a, o) == o.generation \in DOMAIN a.history /\ a.history[o.generation] = o.by

(* An assignment that is about to be written is one version after the present one
   and keeps all of it, or the present one has moved on. *)
Carries(a, c) ==
    /\ c.value.version <= a.version + 1
    /\ c.value.version = a.version + 1 => Kept(a, c.value) /\ c.value.history # <<>>

AssignInv ==
    /\ assignment \in Assignment
    /\ reassigned \in [ReassignKeys -> Assignment]
    /\ observed \in [ObservationKeys -> {Idle} \cup ObserveCall]
    /\ assignment # Unassigned => assignment.history # <<>>
    /\ \A k \in ReassignKeys : Kept(reassigned[k], assignment)
    /\ \A k \in ObservationKeys : observed[k] # Idle => Fenced(assignment, observed[k])
    /\ \A h \in Hosts : call[h].op \in {"reassign", "route"} => Carries(assignment, call[h])
    /\ \A h \in Hosts : call[h].op = "observe" => Fenced(assignment, call[h])

(* A prefix, place by place. *)
LEMMA PrefixPlaces ==
    ASSUME NEW S, NEW s \in Seq(S), NEW t \in Seq(S)
    PROVE  IsPrefix(s, t) <=> Len(s) <= Len(t) /\ \A i \in 1 .. Len(s) : s[i] = t[i]
<1>1. CASE Len(s) <= Len(t)
  <2>1. /\ SubSeq(s, 1, Len(s)) \in Seq(S) /\ Len(SubSeq(s, 1, Len(s))) = Len(s)
        /\ \A i \in 1 .. Len(s) : SubSeq(s, 1, Len(s))[i] = s[i]
    OBVIOUS
  <2>2. /\ SubSeq(t, 1, Len(s)) \in Seq(S) /\ Len(SubSeq(t, 1, Len(s))) = Len(s)
        /\ \A i \in 1 .. Len(s) : SubSeq(t, 1, Len(s))[i] = t[i]
    BY <1>1
  <2>3. SubSeq(s, 1, Len(s)) = SubSeq(t, 1, Len(s)) <=> \A i \in 1 .. Len(s) : s[i] = t[i]
    BY <2>1, <2>2
  <2> QED
    BY <1>1, <2>3 DEF IsPrefix
<1>2. CASE ~(Len(s) <= Len(t))
  BY <1>2 DEF IsPrefix
<1> QED
  BY <1>1, <1>2

LEMMA HistoryParts ==
    ASSUME NEW a \in Assignment
    PROVE  /\ a.version \in Nat /\ a.history \in Seq(Principals) /\ a.route \in BOOLEAN
           /\ DOMAIN a.history = 1 .. Len(a.history) /\ Len(a.history) \in Nat
BY DEF Assignment

LEMMA KeptItself == ASSUME NEW a \in Assignment PROVE Kept(a, a)
BY HistoryParts, PrefixPlaces DEF Kept

LEMMA KeptTransitive ==
    ASSUME NEW a \in Assignment, NEW b \in Assignment, NEW c \in Assignment,
           Kept(a, b), Kept(b, c)
    PROVE  Kept(a, c)
<1>1. /\ a.history \in Seq(Principals) /\ b.history \in Seq(Principals)
      /\ c.history \in Seq(Principals)
      /\ Len(a.history) \in Nat /\ Len(b.history) \in Nat /\ Len(c.history) \in Nat
  BY HistoryParts
<1>2. Len(a.history) <= Len(b.history) /\ \A i \in 1 .. Len(a.history) : a.history[i] = b.history[i]
  BY <1>1, PrefixPlaces DEF Kept
<1>3. Len(b.history) <= Len(c.history) /\ \A i \in 1 .. Len(b.history) : b.history[i] = c.history[i]
  BY <1>1, PrefixPlaces DEF Kept
<1>4. \A i \in 1 .. Len(a.history) : a.history[i] = c.history[i]
  BY <1>1, <1>2, <1>3
<1>5. IsPrefix(a.history, c.history)
  BY <1>1, <1>2, <1>3, <1>4, PrefixPlaces
<1> QED
  BY <1>5 DEF Kept

LEMMA FencedStill ==
    ASSUME NEW a \in Assignment, NEW b \in Assignment, Kept(a, b), NEW o, Fenced(a, o)
    PROVE  Fenced(b, o)
<1>1. Len(a.history) <= Len(b.history) /\ \A i \in 1 .. Len(a.history) : a.history[i] = b.history[i]
  BY HistoryParts, PrefixPlaces DEF Kept
<1> QED
  BY <1>1, HistoryParts DEF Fenced

(* An assignment changes only together with its version, and is never shortened. *)
Grows(a, b) == b = a \/ (b.version = a.version + 1 /\ Kept(a, b))

LEMMA CarriesStill ==
    ASSUME NEW a \in Assignment, NEW b \in Assignment, Grows(a, b),
           NEW c, c.value \in Assignment, Carries(a, c)
    PROVE  Carries(b, c)
<1>1. a.version \in Nat /\ b.version \in Nat /\ c.value.version \in Nat
  BY HistoryParts
<1> QED
  BY <1>1 DEF Carries, Grows

(* What the assignment's own state needs when the assignment grows and hosts at
   most start something that fits. *)
LEMMA AssignmentGrows ==
    ASSUME GraphInv, AssignInv, assignment' \in Assignment, Grows(assignment, assignment'),
           assignment' # Unassigned => assignment'.history # <<>>,
           call' \in [Hosts -> Pending],
           \A h \in Hosts :
              \/ call'[h] = call[h]
              \/ call'[h].op \notin {"reassign", "route", "observe"}
              \/ call'[h].op \in {"reassign", "route"} /\ Carries(assignment', call'[h])
              \/ call'[h].op = "observe" /\ Fenced(assignment', call'[h]),
           reassigned' \in [ReassignKeys -> Assignment],
           \A k \in ReassignKeys :
              reassigned'[k] = reassigned[k] \/ reassigned'[k] = assignment',
           observed' \in [ObservationKeys -> {Idle} \cup ObserveCall],
           \A k \in ObservationKeys :
              observed'[k] = observed[k] \/ Fenced(assignment', observed'[k])
    PROVE  AssignInv'
<1>1. assignment \in Assignment /\ Kept(assignment, assignment')
  BY KeptItself DEF AssignInv, Grows
<1>2. \A k \in ReassignKeys : Kept(reassigned'[k], assignment')
  <2> TAKE k \in ReassignKeys
  <2>1. reassigned[k] \in Assignment /\ Kept(reassigned[k], assignment)
    BY DEF AssignInv
  <2> QED
    BY <1>1, <2>1, KeptTransitive, KeptItself
<1>3. \A k \in ObservationKeys : observed'[k] # Idle => Fenced(assignment', observed'[k])
  BY <1>1, FencedStill DEF AssignInv
<1>4. ASSUME NEW h \in Hosts, call'[h].op \in {"reassign", "route"}
      PROVE  Carries(assignment', call'[h])
  <2>1. CASE call'[h] = call[h]
    <3>1. call[h] \in ReassignCall \cup RouteCall
      BY <1>4, <2>1, PendingKinds DEF GraphInv
    <3>2. call[h].value \in Assignment
      BY <3>1 DEF ReassignCall, RouteCall
    <3>3. Carries(assignment, call[h])
      BY <1>4, <2>1 DEF AssignInv
    <3> QED
      BY <1>1, <2>1, <3>2, <3>3, CarriesStill
  <2> QED
    BY <1>4, <2>1
<1>5. ASSUME NEW h \in Hosts, call'[h].op = "observe"
      PROVE  Fenced(assignment', call'[h])
  BY <1>1, <1>5, FencedStill DEF AssignInv
<1> QED
  BY <1>2, <1>3, <1>4, <1>5 DEF AssignInv

(* A command that read the assignment: what it will write or file fits now. *)
LEMMA ReadsInductive ==
    ASSUME GraphInv, AssignInv, NEW h \in Hosts, NEW c \in Pending, Reads(h, c),
           c.op # "write",
           c.op \in {"reassign", "route"} => Carries(assignment, c),
           c.op = "observe" => Fenced(assignment, c)
    PROVE  GraphInv' /\ AssignInv'
<1>1. call' = [call EXCEPT ![h] = c] /\ UNCHANGED <<record, assignment, reassigned, observed>>
  BY DEF Reads, assignVars
<1>2. call' \in [Hosts -> Pending]
  BY <1>1 DEF GraphInv
<1>3. \A g \in Hosts : call'[g] = IF g = h THEN c ELSE call[g]
  BY <1>1 DEF GraphInv
<1>4. GraphInv'
  BY <1>1, <1>2, <1>3, AsideInductive
<1>5. AssignInv'
  BY <1>1, <1>2, <1>3 DEF AssignInv
<1> QED
  BY <1>4, <1>5

LEMMA StartReassignInductive ==
    ASSUME GraphInv, AssignInv, NEW h \in Hosts, NEW key \in ReassignKeys, NEW x \in Principals,
           StartReassign(h, key, x)
    PROVE  GraphInv' /\ AssignInv'
<1> DEFINE old == assignment
           version == old.version + 1
           history == Append(old.history, x)
           value == [old EXCEPT !.version = version, !.history = history]
           c == [op |-> "reassign", key |-> key, value |-> value]
<1>1. old \in Assignment /\ old.version \in Nat /\ old.history \in Seq(Principals)
  BY HistoryParts DEF AssignInv
<1>2. version \in Nat /\ history \in Seq(Principals) /\ Len(history) = Len(old.history) + 1
      /\ (\A i \in 1 .. Len(old.history) : history[i] = old.history[i]) /\ history # <<>>
  BY <1>1
<1>3. Reads(h, c)
  BY DEF StartReassign
<1> HIDE DEF history
<1>4. IsPrefix(old.history, history)
  BY <1>1, <1>2, PrefixPlaces
<1>5. /\ value \in Assignment /\ value.version = version /\ value.history = history
      /\ value.route = old.route
  BY <1>1, <1>2 DEF Assignment
<1> HIDE DEF value
<1>6. c \in Pending /\ c.op = "reassign" /\ c.value = value
  BY <1>5 DEF Pending, ReassignCall
<1> HIDE DEF c
<1>7. Carries(assignment, c)
  <2>1. Kept(assignment, value)
    BY <1>4, <1>5 DEF Kept
  <2>2. value.version <= assignment.version + 1 /\ value.history # <<>>
    BY <1>1, <1>2, <1>5
  <2> QED
    BY <1>6, <2>1, <2>2 DEF Carries
<1> QED
  BY <1>3, <1>6, <1>7, ReadsInductive

LEMMA StartPinRouteInductive ==
    ASSUME GraphInv, AssignInv, NEW h \in Hosts, StartPinRoute(h)
    PROVE  GraphInv' /\ AssignInv'
<1> DEFINE old == assignment
           version == old.version + 1
           value == [old EXCEPT !.version = version, !.route = TRUE]
           c == [op |-> "route", value |-> value]
<1>1. old \in Assignment /\ old.version \in Nat /\ version \in Nat /\ Kept(old, old)
  BY HistoryParts, KeptItself DEF AssignInv
<1>2. Reads(h, c) /\ old.history # <<>>
  BY DEF StartPinRoute, Reads, AssignInv
<1> HIDE DEF version, old
<1>3. /\ value \in Assignment /\ value.version = version /\ value.history = old.history
      /\ value.route = TRUE
  BY <1>1 DEF Assignment
<1> HIDE DEF value
<1>4. c \in Pending /\ c.op = "route" /\ c.value = value
  BY <1>3 DEF Pending, RouteCall
<1> HIDE DEF c
<1>5. Carries(assignment, c)
  <2>1. Kept(assignment, value)
    BY <1>1, <1>3 DEF Kept, old
  <2>2. value.version <= assignment.version + 1 /\ value.history # <<>>
    BY <1>1, <1>2, <1>3 DEF version, old
  <2> QED
    BY <1>4, <2>1, <2>2 DEF Carries
<1> QED
  BY <1>2, <1>4, <1>5, ReadsInductive

LEMMA StartObserveInductive ==
    ASSUME GraphInv, AssignInv, NEW h \in Hosts, NEW key \in ObservationKeys,
           StartObserve(h, key)
    PROVE  GraphInv' /\ AssignInv'
<1> DEFINE c == [op |-> "observe", key |-> key, version |-> assignment.version,
                 generation |-> Generation, by |-> Last(assignment.history)]
<1>1. Reads(h, c) /\ assignment.history # <<>>
  BY DEF StartObserve, Reads, AssignInv
<1>2. assignment.version \in Nat /\ assignment.history \in Seq(Principals)
  BY HistoryParts DEF AssignInv
<1>3. /\ Generation \in DOMAIN assignment.history /\ Generation \in Nat
      /\ Last(assignment.history) = assignment.history[Generation]
      /\ Last(assignment.history) \in Principals
  BY <1>1, <1>2 DEF Generation, Last
<1>4. c \in Pending /\ c.op = "observe"
  BY <1>2, <1>3 DEF Pending, ObserveCall
<1>5. Fenced(assignment, c)
  BY <1>3 DEF Fenced
<1> HIDE DEF c
<1> QED
  BY <1>1, <1>4, <1>5, ReadsInductive

(* A write, a filing and a refusal. *)
LEMMA ReassignInductive ==
    ASSUME GraphInv, AssignInv, NEW h \in Hosts, Reassign(h) \/ PinRoute(h)
    PROVE  GraphInv' /\ AssignInv'
<1> DEFINE c == call[h]
<1>1. c \in ReassignCall \cup RouteCall /\ c.value \in Assignment /\ Carries(assignment, c)
  <2>1. c.op \in {"reassign", "route"}
    BY DEF Reassign, PinRoute
  <2>2. c \in ReassignCall \cup RouteCall
    BY <2>1, PendingKinds DEF GraphInv
  <2> QED
    BY <2>1, <2>2 DEF ReassignCall, RouteCall, AssignInv
<1>2. /\ assignment' = c.value /\ Returns(h) /\ UNCHANGED <<record, observed>>
      /\ c.value.version = assignment.version + 1
  BY <1>1, HistoryParts DEF Reassign, PinRoute, SameVersion, AssignInv
<1>3. Grows(assignment, assignment') /\ assignment'.history # <<>> /\ assignment' \in Assignment
  BY <1>1, <1>2 DEF Carries, Grows
<1>4. /\ call' \in [Hosts -> Pending]
      /\ \A g \in Hosts : call'[g] = call[g] \/ call'[g].op \notin {"reassign", "route", "observe"}
      /\ \A g \in Hosts : call'[g] = call[g] \/ call'[g].op # "write"
  <2>1. Idle \in Pending /\ Idle.op \notin {"write", "reassign", "route", "observe"}
    BY WorkAssumption, AssignmentAssumption
       DEF WorkAssumption, AssignmentAssumption, Pending, Idle
  <2> QED
    BY <1>2, <2>1 DEF Returns, GraphInv
<1>5. /\ reassigned' \in [ReassignKeys -> Assignment]
      /\ \A k \in ReassignKeys : reassigned'[k] = reassigned[k] \/ reassigned'[k] = assignment'
  <2>1. CASE Reassign(h)
    <3>1. c \in ReassignCall /\ c.key \in ReassignKeys
      BY <2>1, PendingKinds DEF Reassign, GraphInv, ReassignCall
    <3>2. reassigned' = [reassigned EXCEPT ![c.key] = c.value]
      BY <2>1 DEF Reassign
    <3> QED
      BY <1>1, <1>2, <3>1, <3>2 DEF AssignInv
  <2>2. CASE PinRoute(h)
    BY <2>2 DEF PinRoute, AssignInv
  <2> QED
    BY <2>1, <2>2
<1> HIDE DEF c
<1>6. GraphInv'
  BY <1>2, <1>4, AsideInductive
<1>7. AssignInv'
  <2>1. observed' \in [ObservationKeys -> {Idle} \cup ObserveCall]
    BY <1>2 DEF AssignInv
  <2> QED
    BY <1>2, <1>3, <1>4, <1>5, <2>1, AssignmentGrows
<1> QED
  BY <1>6, <1>7

LEMMA IdleCall ==
    ASSUME GraphInv, NEW h \in Hosts, Returns(h)
    PROVE  /\ call' \in [Hosts -> Pending]
           /\ \A g \in Hosts :
                 call'[g] = call[g] \/ call'[g].op \notin {"write", "reassign", "route", "observe"}
<1>1. Idle \in Pending /\ Idle.op \notin {"write", "reassign", "route", "observe"}
  BY WorkAssumption, AssignmentAssumption
     DEF WorkAssumption, AssignmentAssumption, Pending, Idle
<1> QED
  BY <1>1 DEF Returns, GraphInv

LEMMA ObserveInductive ==
    ASSUME GraphInv, AssignInv, NEW h \in Hosts, Observe(h)
    PROVE  GraphInv' /\ AssignInv'
<1> DEFINE c == call[h]
<1>1. c \in ObserveCall /\ c.key \in ObservationKeys /\ Fenced(assignment, c)
  BY PendingKinds DEF Observe, GraphInv, AssignInv, ObserveCall
<1>2. /\ observed' = [observed EXCEPT ![c.key] = c] /\ Returns(h)
      /\ UNCHANGED <<record, assignment, reassigned>>
  BY DEF Observe, Observed
<1> HIDE DEF c
<1>3. /\ observed' \in [ObservationKeys -> {Idle} \cup ObserveCall]
      /\ \A k \in ObservationKeys :
            observed'[k] = observed[k] \/ Fenced(assignment', observed'[k])
  BY <1>1, <1>2 DEF AssignInv
<1>4. GraphInv'
  BY <1>2, IdleCall, AsideInductive
<1>5. AssignInv'
  <2>1. /\ assignment' \in Assignment /\ reassigned' \in [ReassignKeys -> Assignment]
        /\ assignment' # Unassigned => assignment'.history # <<>>
        /\ \A k \in ReassignKeys : reassigned'[k] = reassigned[k]
        /\ Grows(assignment, assignment')
    BY <1>2 DEF AssignInv, Grows
  <2> QED
    BY <1>2, <1>3, <2>1, IdleCall, AssignmentGrows
<1> QED
  BY <1>4, <1>5

LEMMA ConflictsInductive ==
    ASSUME GraphInv, AssignInv, NEW h \in Hosts,
           Returns(h), UNCHANGED <<record, assignVars>>
    PROVE  GraphInv' /\ AssignInv'
<1>1. GraphInv'
  BY IdleCall, AsideInductive
<1>2. AssignInv'
  BY IdleCall DEF assignVars, AssignInv
<1> QED
  BY <1>1, <1>2

LEMMA AssignInductive ==
    ASSUME GraphInv, AssignInv, NEW x \in Principals, Assign(x)
    PROVE  GraphInv' /\ AssignInv'
<1> DEFINE value == [version |-> 1, history |-> <<x>>, route |-> FALSE]
<1>1. /\ value \in Assignment /\ value.version = 1 /\ value.history = <<x>>
      /\ <<x>> \in Seq(Principals) /\ Len(<<x>>) = 1 /\ value.history # <<>>
  BY DEF Assignment
<1>2. /\ assignment' = value /\ assignment = Unassigned
      /\ UNCHANGED <<reassigned, observed, record, call>>
  BY DEF Assign, graphVars
<1>3. Unassigned \in Assignment
  BY DEF Unassigned, Assignment
<1>4. Unassigned.version = 0 /\ Unassigned.history = <<>> /\ ~Unassigned.route
  BY DEF Unassigned
<1> HIDE DEF value
<1>5. IsPrefix(Unassigned.history, value.history)
  <2>1. IsPrefix(<<>>, <<x>>)
    BY DEF IsPrefix
  <2> QED
    BY <1>1, <1>4, <2>1
<1>6. Grows(assignment, assignment')
  BY <1>1, <1>2, <1>4, <1>5 DEF Grows, Kept
<1>7. GraphInv'
  BY <1>2 DEF GraphInv
<1>8. AssignInv'
  <2>1. /\ reassigned' \in [ReassignKeys -> Assignment] /\ call' \in [Hosts -> Pending]
        /\ observed' \in [ObservationKeys -> {Idle} \cup ObserveCall]
    BY <1>2 DEF AssignInv, GraphInv
  <2>2. \A h \in Hosts : call'[h] = call[h]
    BY <1>2
  <2>3. \A k \in ReassignKeys : reassigned'[k] = reassigned[k]
    BY <1>2
  <2>4. \A k \in ObservationKeys : observed'[k] = observed[k]
    BY <1>2
  <2>5. assignment' \in Assignment /\ assignment'.history # <<>>
    BY <1>1, <1>2
  <2> QED
    BY <1>6, <2>1, <2>2, <2>3, <2>4, <2>5, AssignmentGrows
<1> QED
  BY <1>7, <1>8

-----------------------------------------------------------------------------
(* The whole system. *)

WorkInv == GraphInv /\ AssignInv

(* Steps of the graph leave the assignment alone, and start nothing about it. *)
LEMMA AssignmentStands ==
    ASSUME AssignInv, UNCHANGED assignVars,
           \A h \in Hosts : call'[h] = call[h] \/ call'[h].op \notin {"reassign", "route", "observe"}
    PROVE  AssignInv'
BY DEF assignVars, AssignInv

LEMMA GraphStepInductive ==
    ASSUME WorkInv, NEW h \in Hosts, GraphStep(h) \/ \E p \in Projects : Activate(h, p),
           UNCHANGED assignVars
    PROVE  WorkInv'
<1> GraphInv /\ AssignInv
  BY DEF WorkInv
<1>1. CASE Submits(h)
  <2>1. PICK c \in WriteCall : call' = [call EXCEPT ![h] = c]
    BY <1>1 DEF Submits
  <2>2. c.op = "write"
    BY DEF WriteCall
  <2>3. \A g \in Hosts : call'[g] = call[g] \/ call'[g].op = "write"
    BY <2>1, <2>2 DEF GraphInv
  <2> QED
    BY <1>1, <2>3, SubmitInductive, AssignmentStands DEF WorkInv
<1>2. CASE Write(h)
  <2>1. Returns(h)
    BY <1>2 DEF Write
  <2> QED
    BY <1>2, <2>1, WriteInductive, IdleCall, AssignmentStands DEF WorkInv
<1>3. CASE Refused(h)
  <2>1. Returns(h) /\ UNCHANGED record
    BY <1>3 DEF Refused
  <2> QED
    BY <2>1, ConflictsInductive DEF WorkInv
<1> QED
  BY <1>1, <1>2, <1>3, CommandSubmits DEF GraphStep

LEMMA BatchStepInductive ==
    ASSUME WorkInv, BatchStep, UNCHANGED assignVars
    PROVE  WorkInv'
<1> GraphInv /\ AssignInv
  BY DEF WorkInv
<1>1. PICK p \in Projects :
        \/ CreateProject(p)
        \/ Exists(p) /\ \E sheet \in Sheets : ApplySheet(p, sheet)
  BY DEF BatchStep
<1>2. GraphInv'
  <2>1. CASE CreateProject(p)
    BY <2>1, CreateProjectInductive
  <2>2. ASSUME Exists(p), NEW sheet \in Sheets, ApplySheet(p, sheet)
        PROVE  GraphInv'
    <3>1. PICK names \in SUBSET Tasks : sheet \in [names -> SUBSET Records]
      BY DEF Sheets
    <3> QED
      BY <2>2, <3>1, SheetInductive
  <2> QED
    BY <1>1, <2>1, <2>2
<1>3. UNCHANGED call
  BY <1>1 DEF CreateProject, ApplySheet
<1> QED
  BY <1>2, <1>3, AssignmentStands DEF WorkInv

LEMMA WorkInductive == WorkInv /\ [Next]_vars => WorkInv'
<1> SUFFICES ASSUME WorkInv, [Next]_vars PROVE WorkInv'
  OBVIOUS
<1> GraphInv /\ AssignInv
  BY DEF WorkInv
<1>1. CASE UNCHANGED vars
  BY <1>1 DEF vars, graphVars, assignVars, WorkInv, GraphInv, AssignInv
<1>2. CASE AssignmentNext
  <2>1. ASSUME NEW h \in Hosts, AssignmentStep(h)
        PROVE  WorkInv'
    <3>1. CASE Conflicts(h)
      BY <3>1, ConflictsInductive DEF Conflicts, WorkInv
    <3> QED
      BY <2>1, <3>1, StartReassignInductive, StartPinRouteInductive, StartObserveInductive,
         ReassignInductive, ObserveInductive DEF AssignmentStep, WorkInv
  <2> QED
    BY <1>2, <2>1, AssignInductive DEF AssignmentNext, WorkInv
<1>3. CASE WorkNext
  BY <1>3, GraphStepInductive, BatchStepInductive DEF WorkNext
<1> QED
  BY <1>1, <1>2, <1>3 DEF Next

LEMMA WorkInitially == Init => WorkInv
<1> SUFFICES ASSUME Init PROVE WorkInv
  OBVIOUS
<1>1. Unassigned \in Assignment /\ Unassigned.history = <<>> /\ Unassigned.route = FALSE
  BY DEF Unassigned, Assignment
<1>2. Idle \in Pending /\ Idle.op \notin {"write", "reassign", "route", "observe"}
  BY WorkAssumption, AssignmentAssumption
     DEF WorkAssumption, AssignmentAssumption, Pending, Idle
<1>3. \A p \in Projects : p \in Records
  BY DEF Records
<1>4. Whole(record)
  BY <1>3 DEF Init, Whole, Absent
<1>5. GraphInv
  BY <1>2, <1>4, AbsentType DEF Init, GraphInv
<1>6. Kept(Unassigned, Unassigned)
  BY <1>1, KeptItself
<1>7. AssignInv
  BY <1>1, <1>2, <1>6 DEF Init, AssignInv
<1> QED
  BY <1>5, <1>7 DEF WorkInv

LEMMA WorkInvariance == Spec => []WorkInv
BY WorkInitially, WorkInductive, PTL DEF Spec

(* The records, the assignment, its receipts and what the hosts are about keep
   their types. *)
THEOREM WorkTypeCorrect == Spec => []TypeOK
<1>1. WorkInv => TypeOK
  BY PendingKinds DEF WorkInv, GraphInv, AssignInv, TypeOK
<1> QED
  BY <1>1, WorkInvariance, PTL

(* The task list of a project names every task a sheet ever had a name for, and
   each of them is there and is the project's, whichever commands write records
   they read before. *)
THEOREM PlansStayWhole == Spec => []PlanIsWhole
<1>1. WorkInv => PlanIsWhole
  BY DEF WorkInv, GraphInv, Whole, PlanIsWhole, Exists
<1> QED
  BY <1>1, WorkInvariance, PTL

(* A step drops a dependency only where a sheet left it out, and never takes the
   admission of an activated project away. *)
THEOREM RevisionsKeepLinks == Spec => LinksSurvive
<1> DEFINE Survives ==
       \A r \in Records :
          /\ record[r].admitted => record'[r].admitted
          /\ \/ record[r].dependencies \subseteq record'[r].dependencies
             \/ \E p \in Projects \ {r} : record'[p].version # record[p].version
<1>1. WorkInv /\ [Next]_vars => [Survives]_record
  <2> SUFFICES ASSUME WorkInv, [Next]_vars, record' # record PROVE Survives
    OBVIOUS
  <2> GraphInv
    BY DEF WorkInv
  <2>1. CASE \E h \in Hosts : Write(h)
    <3>1. \A r \in Records : record'[r] = record[r] \/ Succeeds(record[r], record'[r])
      BY <2>1, WriteInductive
    <3> QED
      BY <3>1 DEF Succeeds
  <2>2. ASSUME NEW p \in Projects, CreateProject(p)
        PROVE  Survives
    <3>1. record[p] = Absent /\ \A r \in Records \ {p} : record'[r] = record[r]
      BY <2>2, CreateProjectInductive
    <3>2. Absent.admitted = FALSE /\ Absent.dependencies = {}
      BY DEF Absent
    <3> QED
      BY <3>1, <3>2
  <2>3. ASSUME NEW p \in Projects, NEW sheet \in Sheets, ApplySheet(p, sheet)
        PROVE  Survives
    <3>1. PICK names \in SUBSET Tasks : sheet \in [names -> SUBSET Records]
      BY DEF Sheets
    <3>2. SheetWrites(p, names)
      BY <2>3, <3>1, SheetRows
    <3>3. record[p].version \in Nat
      BY RecordParts DEF GraphInv, Records
    <3>4. record'[p].version # record[p].version
      BY <3>2, <3>3 DEF SheetWrites
    <3>5. \A r \in Records : record[r].admitted => record'[r].admitted
      BY <3>2 DEF SheetWrites
    <3>6. \A r \in Records : r # p => p \in Projects \ {r}
      OBVIOUS
    <3>7. record'[p].dependencies = record[p].dependencies
      BY <3>2 DEF SheetWrites
    <3> QED
      BY <3>4, <3>5, <3>6, <3>7
  <2>4. ASSUME NEW h \in Hosts, Submits(h)
        PROVE  FALSE
    BY <2>4 DEF Submits
  <2>5. WorkNext
    BY DEF Next, vars, graphVars, AssignmentNext, Assign, AssignmentStep, StartReassign,
       StartPinRoute, StartObserve, Reads, Reassign, PinRoute, Conflicts, Observe
  <2>6. ASSUME NEW h \in Hosts, GraphStep(h) \/ \E p \in Projects : Activate(h, p)
        PROVE  Write(h)
    BY <2>4, <2>6, CommandSubmits DEF GraphStep, Refused
  <2> QED
    BY <2>1, <2>2, <2>3, <2>5, <2>6 DEF WorkNext, BatchStep
<1> QED
  BY <1>1, WorkInvariance, PTL DEF Spec, LinksSurvive

(* A reassignment that was answered is in the history for good, at the generation
   its answer named, and a pinned route stays, for any interleaving of hosts that
   write the whole of an assignment they read before. *)
THEOREM ReassignmentsStand == Spec => []ReassignmentsKept
<1>1. WorkInv => ReassignmentsKept
  BY DEF WorkInv, AssignInv, Kept, ReassignmentsKept
<1> QED
  BY <1>1, WorkInvariance, PTL

(* What is dispatched or reported, however late, is filed under the generation of
   the principal who was responsible when its caller was let through. *)
THEOREM ObservationsStayFenced == Spec => []ObservationsFenced
<1>1. WorkInv => ObservationsFenced
  BY DEF WorkInv, AssignInv, Fenced, ObservationsFenced
<1> QED
  BY <1>1, WorkInvariance, PTL
=============================================================================
