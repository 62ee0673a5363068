------------------------------- MODULE Batches -------------------------------
(***************************************************************************)
(* Project sheets, domains/work/batches.py over the work graph (and the    *)
(* editable sheet of domains/work/sheet.py, which turns its commands into  *)
(* these): one command creates and changes the tasks of a project and its  *)
(* task list.                                                              *)
(*                                                                         *)
(* A sheet is read, checked and written in one transaction, against        *)
(* records as they are in it; what does not pass leaves nothing behind.    *)
(* But only the dependencies among the tasks of the sheet are checked.  A  *)
(* base revision, if there is one, is that of the project: with it a sheet *)
(* is refused or applied as it would be without.  What a caller read, to   *)
(* write the sheet, is in the sheet.                                       *)
(***************************************************************************)
EXTENDS WorkGraph, FiniteSets

(* A task of a sheet is one of the project, or a new one. *)
Nameable(p, t) == Exists(t) => record[t].project = p

(* _validate_plan: the dependencies among the tasks of the sheet. *)
PlanAccepted(p, sheet) ==
    LET names == DOMAIN sheet IN
    /\ \A t \in names : Nameable(p, t)
    /\ \A t \in names : \A d \in sheet[t] \ names : Exists(d)
    /\ Acyclic([t \in names |-> sheet[t] \cap names])

(* The record of a task under a sheet: it is moved back under the project, and
   depends on what the sheet says.  A sheet that does not say is one that says
   what the task depends on already. *)
TaskRow(p, t, deps) ==
    [record[t] EXCEPT !.version = @ + 1, !.project = p, !.parent = p, !.dependencies = deps]

(* Mutant of ProjectRow: the task list is what the sheet lists. *)
ProjectRowReplaced(p, names) ==
    [record[p] EXCEPT !.version = @ + 1, !.tasks = names, !.keys = @ \cup names]

(* The sheet's tasks first, then the others; the order is left out. *)
ProjectRow(p, names) ==
    [record[p] EXCEPT !.version = @ + 1, !.tasks = @ \cup names, !.keys = @ \cup names]

(* The rows of the tasks, each created or written at the version it has. *)
ChildRows(p, sheet) ==
    [r \in Records |-> IF r \in DOMAIN sheet THEN TaskRow(p, r, sheet[r]) ELSE record[r]]

ApplySheet(p, sheet) ==
    LET names == DOMAIN sheet IN
    /\ Room(1 + Cardinality(names))
    /\ PlanAccepted(p, sheet)
    /\ record' = [ChildRows(p, sheet) EXCEPT ![p] = ProjectRow(p, names)]
    /\ UNCHANGED call

(* activate_project: the lifecycle, a manager, resources. *)
Activate(h, p) ==
    Reading(h) /\ Exists(p) /\ Room(1) /\ Pends(h, p, [record[p] EXCEPT !.admitted = TRUE])

Sheets == UNION {[names -> SUBSET Records] : names \in SUBSET Tasks}

BatchStep ==
    \E p \in Projects :
        \/ CreateProject(p)
        \/ Exists(p) /\ Room(1) /\ \E sheet \in Sheets : ApplySheet(p, sheet)
-----------------------------------------------------------------------------

(* Every revision keeps what it does not set, although commands write the whole of
   a record they read before: a dependency is gone only where a sheet, which
   writes a project and its tasks, left it out, and an activated project stays
   admitted. *)
LinksSurvive ==
    [][\A r \in Records :
          /\ record[r].admitted => record'[r].admitted
          /\ \/ record[r].dependencies \subseteq record'[r].dependencies
             \/ \E p \in Projects \ {r} : record'[p].version # record[p].version]_record

(* The task list of a project names every task a sheet ever had a name for, and
   each is there and belongs to the project: no sheet drops tasks by leaving them
   out, and none is written by halves. *)
PlanIsWhole ==
    \A p \in Projects :
        /\ record[p].keys \subseteq record[p].tasks
        /\ \A t \in record[p].tasks : Exists(t) /\ record[t].project = p

(* "Hierarchy and dependency cycles are rejected before mutation or rolled back"
   (work/wrk-02-result.md:31).  They are looked for outside the transaction, only
   among the tasks of a sheet, and not at the top of the hierarchy. *)
NoCycles ==
    /\ Acyclic(Dependencies)
    /\ \A r \in Records : \E top \in Above(r) : record[top].parent = None
=============================================================================
