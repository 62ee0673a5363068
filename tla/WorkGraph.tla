------------------------------ MODULE WorkGraph ------------------------------
(***************************************************************************)
(* The work graph of domains/work/module.py: projects and tasks, which     *)
(* have a parent and depend on others.  (Efforts, criteria, scenarios and  *)
(* gates are tasks as far as the graph goes.)                              *)
(*                                                                         *)
(* Every command but the creation of a project reads the records it is     *)
(* about and checks the graph outside the transaction, and then writes the *)
(* whole record it made of what it read, if that record still has the      *)
(* version it had.  What is pending at a host is the record it will write. *)
(* A command repeated under its key is answered from its receipt, and      *)
(* changes nothing; ids are derived from the key, so a repeated creation   *)
(* is one of these.                                                        *)
(***************************************************************************)
EXTENDS Integers, Functions

CONSTANTS Projects, Tasks, Hosts,
          None,         \* no parent, no project, nothing pending
          MaxVersions   \* bound on the versions of all records together

Records == Projects \cup Tasks

ASSUME WorkAssumption ==
    /\ None \notin Records \cup Hosts \cup {"write"}
    /\ Projects \cap Tasks = {}
    /\ MaxVersions \in Nat

VARIABLES record,  \* the records; version 0 is none
          call     \* what each host is about to write

(* admitted: a project that was activated; tasks: what the task list of a project
   names; keys: the tasks its batch history has names for. *)
Record == [version : Nat, project : Projects \cup {None},
           parent : Records \cup {None}, dependencies : SUBSET Records,
           admitted : BOOLEAN, tasks : SUBSET Tasks, keys : SUBSET Tasks]

Absent == [version |-> 0, project |-> None, parent |-> None, dependencies |-> {},
           admitted |-> FALSE, tasks |-> {}, keys |-> {}]

Idle == [op |-> None]

Room(n) == FoldFunction(LAMBDA r, sum : r.version + sum, n, record) <= MaxVersions

Exists(r) == record[r].version > 0

ProjectOf(r) == IF r \in Tasks THEN record[r].project ELSE r   \* a project, or None

Dependencies == [r \in Records |-> record[r].dependencies]

(* No dependencies go around: every set of records has one that depends on none
   of them. *)
Acyclic(deps) ==
    \A S \in SUBSET DOMAIN deps : S # {} => \E r \in S : deps[r] \cap S = {}

(* A record and those above it. *)
Above(r) ==
    {x \in Records : \A S \in SUBSET Records :
        r \in S /\ (\A y \in S : record[y].parent # None => record[y].parent \in S) => x \in S}

(* What _validate_parent accepts: the walk up from the parent looks for the child
   only among records that have a parent themselves. *)
ParentAccepted(child, parent) ==
    /\ child # parent
    /\ child \notin Projects
    /\ \E top \in Above(parent) : record[top].parent = None
    /\ child \in Above(parent) => record[child].parent = None

(* _validate_dependency_set: the whole graph as read, with the new dependencies. *)
DependenciesAccepted(r, new) ==
    Acyclic([Dependencies EXCEPT ![r] = @ \cup new])

Reading(h) == call[h] = Idle

Calls(h, c) == call' = [call EXCEPT ![h] = c] /\ UNCHANGED record

Pends(h, r, value) ==
    Calls(h, [op |-> "write", on |-> r,
              value |-> [value EXCEPT !.version = record[r].version + 1]])

Returns(h) == call' = [call EXCEPT ![h] = Idle]

CreateProject(p) ==
    /\ ~Exists(p)
    /\ Room(1)
    /\ record' = [record EXCEPT ![p] = [Absent EXCEPT !.version = 1]]
    /\ UNCHANGED call

(* create, of records there are: the parent is the project unless it is given, and the project that of
   the parent. *)
Create(h, t, project, parent, deps) ==
    LET above == IF parent = None THEN project ELSE parent IN
    /\ above # None => ParentAccepted(t, above)
    /\ DependenciesAccepted(t, deps)
    /\ Pends(h, t, [Absent EXCEPT !.project = IF project = None THEN ProjectOf(parent) ELSE project,
                                  !.parent = above, !.dependencies = deps])

(* revise, set_lifecycle, withdraw, set_readiness: a version with other content. *)
Revise(h, r) == Exists(r) /\ Pends(h, r, record[r])

LinkParent(h, child, parent) ==
    /\ Exists(child) /\ Exists(parent)
    /\ ParentAccepted(child, parent)
    /\ record[child].project # None \/ ProjectOf(parent) # None   \* or it fails
    /\ Pends(h, child, [record[child] EXCEPT
            !.parent = parent, !.project = IF @ = None THEN ProjectOf(parent) ELSE @])

LinkDependency(h, r, prerequisite) ==
    /\ Exists(r) /\ Exists(prerequisite)
    /\ prerequisite \notin record[r].dependencies
    /\ DependenciesAccepted(r, {prerequisite})
    /\ Pends(h, r, [record[r] EXCEPT !.dependencies = @ \cup {prerequisite}])

(* Mutant of Unchanged: the record is written whatever became of it. *)
UnchangedOrNot(c) == TRUE

(* The record still has the version that was read. *)
Unchanged(c) == record[c.on].version + 1 = c.value.version

Write(h) ==
    /\ call[h].op = "write"
    /\ Unchanged(call[h])
    /\ record' = [record EXCEPT ![call[h].on] = call[h].value]
    /\ Returns(h)

(* VersionConflictError. *)
Refused(h) ==
    /\ call[h].op = "write"
    /\ ~Unchanged(call[h])
    /\ Returns(h)
    /\ UNCHANGED record

Command(h) ==
    \/ \E t \in {t \in Tasks : ~Exists(t)}, project \in {p \in Projects : Exists(p)} \cup {None},
          parent \in {r \in Records : Exists(r)} \cup {None},
          deps \in SUBSET {r \in Records : Exists(r)} : Create(h, t, project, parent, deps)
    \/ \E r \in Records : Revise(h, r)
    \/ \E child, parent \in Records : LinkParent(h, child, parent)
    \/ \E r, prerequisite \in Records : LinkDependency(h, r, prerequisite)

GraphStep(h) ==
    \/ Reading(h) /\ Room(1) /\ Command(h)
    \/ Write(h)
    \/ Refused(h)
=============================================================================
