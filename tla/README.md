# Herzchen: a TLA+ verification project

Herzchen (`src/`) is a kernel of project state for agents and people who
work on the same project: one SQLite file, commands with request keys and
pinned revisions, an event stream, limits and an operation ledger on top of it,
authoring sessions that lend files to an editor and take them back, and the
domains (work graph, decisions, assessments, content, packs) whose records all
go through the same commands. The implementation is 43 Python files under
`src/src/herzchen/`; everything below names files relative to that directory.

This directory holds TLA+ models of it, TLC configurations, and proofs checked
by TLAPS. Every definition that stands for code is mapped to its lines in
`PROJECT.json`.

- [Inventory](#inventory)
- [Plan](#plan)
- [Modules and code](#modules-and-code)
- [Runs](#runs)
- [Bounds](#bounds), [fairness](#fairness), [abstractions](#abstractions)
- [Proofs](#proofs)
- [Findings](#findings)
- [Not modelled](#not-modelled)

## Inventory

### Command store: `kernel/store.py`, `kernel/schema.py`, records of `contracts/model.py`

*State.* The tables: identities (revision, version, edit token, payload),
references, events with a `next_sequence` per stream, receipts by logical
request key, domain descriptors and their digest. In memory: the descriptors of
the last commit, the transaction that runs, its thread, its savepoints.

*Operations.* `open`, `close`, `transaction` and its commit and rollback,
`savepoint`; inside a transaction `mutate` (a command or a no-op),
`put_identity`, `put_reference`, `revise_identity`, `append_event`,
`register_domain`; reads.

*Interactions.* Every other component calls it; its transactions are the only
atomic unit they have.

*Hard behaviour.* Threads taking turns through a re-entrant lock; nested
savepoints that must restore memory and tables together; a COMMIT that fails; a
`close` that does not take the lock; a crash at any point; replays of requests
whose answer was lost; two writers of the same stream number.

*Correct when* a request key is decided once and for good, a version has at
most one winner, a receipt and its event exist together or not at all, streams
have no gap, foreign keys hold at every level of a transaction, descriptors in
memory are those in the tables, and a fresh reader sees committed state only.

### Limits: `kernel/limits.py`

*State.* Pools (capacity of units held at once, allowance of units used in
all) and reservations (declared, actual, charged units; held, uncertain,
consumed, released), both identities of the store; the `ReservationRecord` each
caller keeps.

*Operations.* `create_pool`, `reserve`, `mark_uncertain`, `settle`, `release`,
reads.

*Hard behaviour.* Callers act on a record read earlier, lose answers, repeat
requests after others moved the reservation on, restart; pools are redefined
under held reservations.

*Correct when* admission never exceeds capacity or allowance, no request is
applied twice, a settlement is final, and what was declared stays declared.

### Operation ledger: `kernel/operations.py`

*State.* An operation per external effect: prepared, committed, failed, unknown
or uncertain, with its receipt. *Operations.* `prepare`, `record_outcome`,
`resolve_unknown`, `get`. *Hard behaviour.* A crash between the effect and the
recording of its outcome; retries of either; two outcomes that race. *Correct
when* an outcome is recorded once, an unknown one is only resolved by
`resolve_unknown`, and a retry gets the same answer.

### Recovery: `kernel/recovery.py`

*State.* Snapshots of the store, recovery epochs, tokens with fences, retained
unknown operations; an event cursor's page; the interval controller's last
start. *Operations.* `create_snapshot`, `verify_restore_candidate`,
`restore_snapshot`, `EventCursorReader.page`, `begin_epoch`, `issue_token`,
`retire_token`, `validate_token`, `settle`, `retain_unknown_operation`,
`IntervalController.start`, `poll`, `complete`. *Hard behaviour.* Managers
write the whole list of tokens from a record read earlier; an old store is
restored under live tokens, cursors and keys; a page of events is read while
transactions append and roll back; hosts poll at once and report late. *Correct when* a
token of an earlier epoch is never valid again, a settlement stands, a cursor
misses no event and notices a restored stream, and a slot of an interval is
reserved and run once.

### Writer lease: `authoring/writer_lease.py`

*State.* A lock file per checkout: `flock` held by processes, and a generation
and phase as contents. *Operations.* `open_writer`, writes under
`_write_lease`, `close`, `hold_retirement`. *Interactions.* Managed writers
share the lock; finish, idle close and cleanup hold it exclusively. *Hard
behaviour.* Locks die with processes, contents stay; the file is truncated
before it is written. *Correct when* nobody writes while a lease is held and a
descriptor from before a retirement is never written again.

### Authoring sessions, finish, idle close, cleanup, snapshots: `authoring/`

*State.* The session record in the store (open or released, cleanup status,
manifest, fence), the snapshots in it, the files of the checkout, the lock
file. *Operations.* `sessions.py`: `open`, `record_content_edit`, `autosave`,
`finish`, `release`, `validate_retirement_handoff`,
`reestablish_retirement_fence`, `refresh_final_snapshot`, `cleanup`;
`finish.py`: capture, verify, close, reject, recover; `idle.py`:
`close_if_idle`; `cleanup.py`: `run`; `integration.py` composes them under a
lease; `snapshots.py` captures a tree. *Hard behaviour.* Three things change
one after the other (files, lock file, record), with crashes and retries
between; fences expire; programs that ignore the lease edit files. *Correct
when* nothing is deleted that was not saved, complete means gone, an open
session can be edited, and a cleanup that did not complete can be retried.

### Work graph, sheets, assignments: `domains/work/`

*State.* One record per work item (project, parent, dependencies, lifecycle,
readiness), the task list and batch history in the record of a project; one
record per assignment (generation, history of principals, pinned route), and a
record per dispatch, result and report. *Operations.* `module.py`:
`create_project`, `create`, `revise`, `withdraw`, `set_readiness`,
`link_parent`, `link_dependency`; `batches.py`: `apply_project_sheet`,
`activate_project`; `sheet.py`: structural commands that become sheets, and
`pin_assignment_route`; `assignments.py`: `assign`, `reassign`, `dispatch`,
`append_result`, `append_report`. *Hard behaviour.* Everything but a sheet is
read and validated outside the transaction that writes the whole record; a sheet
validates inside its transaction, but only its own tasks; a principal acts on a
generation that ends meanwhile. *Correct when* no link or activation is lost,
a project lists all its tasks and no others, hierarchy and dependencies stay
acyclic, and what was observed is filed under the principal who was responsible.

### Assessment and decisions: `domains/assessment/`, `domains/work/decisions.py`

*State.* Frozen packets, candidates with the pins of their inputs, results with
their findings and corrections, decisions, charged units; all identities of the
store, with an operation of the ledger per assessment. *Operations.*
`freeze_input`, `select_candidate`, `assess`, `create_correction`,
`close_finding`, `accept`, `accept_without_review`, `dispose_unknown`,
`record_loop_facts`; `create_candidate`, `annotate_candidate`,
`record_decision`, `record_wait`, `choose_next_action`, `advance_timer`,
`reconcile_notifications`. *Hard behaviour.* `assess` is one transaction over
limits, operation ledger and store, and may fail between any two of them;
corrections rewrite a whole result from what was read; approvals are checked
before their transaction; other holders of the operation record go on writing
to it. *Correct when* only results are charged, no correction is lost, and a
decision keeps the evidence it was taken on.

### The rest

- **Content**, **packs**, **extensions** (`content/`, `packs/`, `extensions/`):
  records, packets, templates and descriptors: validation of payloads in front
  of the store's commands.
- **Command ports** (`command_ports.py`), **host adapters** (`adapters/`): text
  and argument translation without state of their own.

## Plan

| order | modules | what | state |
|---|---|---|---|
| 1 | `CommandLedger`, `CommandStore`, `CommandStoreProofs` | the store and what it promises | modelled, checked, proved |
| 2 | `Limits`, `LimitsProofs` | reservations by callers with stale records | modelled, checked, proved |
| 3 | `WriterLease` (proofs in `RetirementProofs`) | the lock file | modelled, checked, proved |
| 4 | `Retirement`, `RetirementProofs` | the end of a session over the lease | modelled, checked, proved |
| 5 | `Recovery`, `RecoveryProofs` | epochs, fences and settlements under restores | modelled, checked, proved |
| 6 | `Interval`, `IntervalProofs` | racing pollers and late reports | modelled, checked, proved |
| 7 | `EventCursor` (proofs in `RecoveryProofs`) | restored and rolled back streams under live cursors | modelled, checked, proved |
| 8 | `EffectOutcomes`, `Operations`, `Assessment`, `Decisions`, `DecisionsProofs` | outcomes of effects, and what is decided on them | modelled, checked, proved |
| 9 | `Sessions`, `SessionsProofs` | the records of scopes and actors, read and written in two steps | modelled, checked, proved |
| 10 | `WorkGraph`, `Batches`, `Assignments`, `WorkProofs` | validation outside the transaction, sheets, generations | modelled, checked, proved |
| 11 | `Content`, `Packs` | the record life cycles over one abstract store command | left |
| 12 | pending projects in `Batches`: reservation, materialisation, amendment of two scopes | effects outside the store with late answers | left |
| 13 | `Sessions` over `Retirement` | a late cleanup and the files of the next session in one model | left |

Abstract specifications: `CommandLedger` over `CommandStore` and `EffectOutcomes`
over `Operations` (both done, and proved to be implemented); "a file is on disk
or in a snapshot" over 13 is left. Theorems left: those of 11 to 13, once they
are modelled, and that refinement.

## Modules and code

### CommandStore

The tables are one record (`Tables`), so that one operator states a property of
the committed tables, of those a transaction works on and of those of every
savepoint (`Levels`). `committed` is what SQLite has on disk, `work` what the
connection sees, `saves` the savepoints with the descriptors they would
restore, `memDoms` and `workDoms` the descriptors in memory, `holder` the thread
in the transaction, `wedged` a connection that SQLite keeps inside a failed
commit. The operations are functions from tables to tables (`CommandEffect`,
`NoOpEffect`, `PutEffect`, ...), and each action is the guard of the code plus
the effect. A refused operation changes nothing and is no step; a replayed one
returns the receipt and is none either. Transactions end by `Commit`,
`CommitFails`, `Rollback`, `Stop` (close or crash).

`CommandLedger` is what callers rely on, without transactions: a key is decided
at most once, a committed command is stamped once in one append-only stream and
moves the version of its target. `CommandStore!LedgerSpec` is its instance over
the committed tables; one step of it publishes all commands of a transaction.

### Limits

`pools`, `res` and `receipts` are the identities and receipts in the store, and
`known` is the record in each caller's hands. A call is one transaction and so
one action; what is not atomic is the caller: `Answer` may be lost, `Replay`
brings back an old record, `Restart` forgets. `Transition` is `mark_uncertain`,
`settle` and `release`, which share `_transition` in the code.

### WriterLease

`lock` is `flock`, `stored` the contents of the lock file, `descriptor` the
generation each writer opened at, `lease` the id of the lease an owner
holds. `revoked` and `emptied` are history: they appear in no guard. `BeginWrite`
and `EndWrite` are the two ends of the shared lock around a managed write,
`Enter`, `Leave` and `OwnerCrash` those of `hold_retirement`. Wherever the file is
rewritten, the rewriting may stop after `ftruncate` or in the middle of the state
(`TornRead`, `TornEnter`, `TornLeave`); whoever reads an empty file writes it anew
as that of a checkout never retired (`Reread`, `Renew`).

### Retirement

EXTENDS `WriterLease` and adds the checkout (`bytes`, `present`), the session
record (`session`), the durable snapshots (`saved`) and what each owner is
doing (`work`). An owner's path is `Start` (lease), `Capture`, `Close` (finish,
reject or release for recovery) or `Refresh` (fresh capture of a closed session)
or `Resume`, `Reestablish` or `Refuse`, `Handoff`, then `Compare` and `Remove`
for each file, `Stop` at the first that is wrong, `Complete`, `Finish`; `Crash`
comes at any point, and so does `TornStep`. `Release`, `MarkCleanup` and
`FenceExpires` change the record without a lease. `opened` are the files behind
the descriptors of each writer: a file that was unlinked since is among them, so
that `Write` may reach bytes nobody will find.

### Recovery

`db` is the durable record of a realm (version, epoch, tokens) with the receipts
of the commands that wrote it. `work` is what each manager is about to do: it
has read the record and computed the whole next one (`BeginEpoch`, `Issue`,
`Validate` then `Retire`), which it sends with the version it read; `Commit` is
the command, `Answer` the second read by which the caller learns the token,
`Drop` a refusal or the death of the manager. `Settle` is one transaction.
`handed` are the tokens dispatchers hold. `Capture` and `Restore` put an older
store in the place of `db`; `line` counts restores and is history.

### Interval

`record` is the durable record of one interval, `receipts` the commands that
wrote it, `call` what each host is about to write from the record it read.
`Start`, `Poll` and `Complete` are the reads, `Commit`, `Replay` and `Refused`
what becomes of the write, `Crash` the death of a host in between. `ran` is
history: the requests each host was told to start.

### EventCursor

`stream` are the committed events, `tail` those of the transaction under way,
`kept` the stream in a snapshot; `cursor` is what each reader holds (position,
last event, watermark) and `page` what each reader knows between the statements
of a page. `OpenPage` (the check of the cursor), `Measure` (the watermark) and
`ReadPage` (the rows, and the new cursor) are `EventCursorReader.page`, with steps
of other threads between them; `LosePage` is a page that fails or is not used. `EndTransaction` commits or rolls back,
`RestoreStream` puts the older stream in place. A page is any sequence of
positions that `IsPage` admits, which is one: the first `Limit` shown behind the
cursor up to the watermark, ascending. `given` and `astray` are history: what a
reader was given along its cursor, and the readers who were given rows although
the event at their place had gone, or come, since it was checked. `MCRecovery`
joins it with `Recovery`: they share no state, so `part` says which of the two a
behaviour moves.

### Operations

`operation` is the stored state and version, `outcomes` the receipts under
transition keys, `told` every `OperationRecord` that was ever there to be given
out. `Transition` is `record_outcome` and `resolve_unknown`: the guard looks at
the record in the caller's hand and at the version the store compares.

`EffectOutcomes` is what callers rely on, without records, versions and keys: what
is known of an effect only moves on and a known outcome stays, an unknown one is
settled by a resolver and by nobody else, and whoever is told an outcome is told
the one that stands. `OutcomesImplemented` is its instance over the ledger:
`outcome` is the stored state, `resolved` the requests with a receipt of a
resolver who held the unknown record, `told` the terminal part of `told`.

### Assessment and Decisions

`Assessment` EXTENDS `Operations`; `Decisions` EXTENDS `Assessment` and is the
specification the run checks. `pin`, `packet`, `result`, `finding`,
`correction`, `decision` are the identities, `spent` the charged units of the
pool, `call` what a host read and will write. `Assess` is the whole transaction:
reservation, operation, outcome, settlement, findings and result; `Abort` is any
failure in it. `StartCorrect` and `Correct`, `StartApprove` and `Approve` are a
check and its transaction. What cannot change between the two, such as the
verdict of a result, is checked in one step. A packet and a candidate take the
revision of their input from a read before their transaction, and a candidate may
name an older one, so both may be outdated when they are recorded.

### Sessions

`scope` and `holder` are the two durable records, per scope and per actor;
`call` is the whole record a host will write back. `Open` and `Finish` are
transactions; `ReadOpen` and `ReadEnded` are the first checks of the other
calls, `WriteBack` their transaction with the second check (`Admitted`), which
`cleanup` and `record_finish_recovery` do not have. `OpenAgain` and
`FinishAgain` are the repeated and the losing call: whoever finishes a session that
another request has closed with its claim is answered `already_finished`, whatever
the outcome was. `issued`, `adopted` and `answers` are receipts and history, and so
is `displaced`: the sessions whose record in the scope or the actor was written
over by a late recovery or cleanup of another.

### WorkGraph, Batches, Assignments

`record` is the record of each work item, `call` what each host will write.
`Create`, `Revise`, `LinkParent`, `LinkDependency` and `Activate` read and
validate; `Write` or `Refused` ends them. `ApplySheet` is the whole of
`apply_project_sheet`: plan (`PlanAccepted`), rows of the tasks (`ChildRows`),
row of the project (`ProjectRow`). `Assignments` adds one assignment:
`StartReassign`, `StartPinRoute` and `StartObserve` read and fence, `Reassign`,
`PinRoute` and `Observe` write. In `MCWork`, `part` again says which of the two
parts moves.

The `MC*` modules only EXTEND the specification, join parts that share no state,
and name constants and request sets for the configurations.

## Runs

| run | checks | shows |
|---|---|---|
| `store_commands` | `ReferentialIntegrity` `GapFreeStreams` `ReceiptEventAgreement` `VersionCAS` `LedgerSpec` | commands, no-ops, puts, references, revisions and appended events on two identities under two keys, with failed commits, crashes and reopening; the committed tables implement the ledger |
| `store_nesting` | `Layered` `DescriptorsMirrorTables` | two threads, savepoints two deep, three domains of which two collide, commands that pin revisions or name that of their result: a rollback takes away its own unit and nothing else |
| `limits` | `HeldWithinCapacity` `CoveredWithinAllowance` `OneRequestPerVersion` `SettlementIsFinal` | two callers with stale records, lost answers and restarts, two reservations, a pool that may be narrowed below what is held |
| `retirement` | `WritersExcluded` `RevokedUntilEmptied` `NothingLostUntilEmptied` `CompleteMeansGone` `DeletionsAreSaved` `CaptureIsStable` | two writers, two owners, three leases, crashes, interrupted rewrites of the lock file, expired fences and programs that ignore the lease; what is deleted was saved, always; until an emptied lock file is read as new, what was revoked stays revoked and no write reaches a file that is gone |
| `retirement_torn` | `RevokedForGood` (violated) | a finding |
| `retirement_poll` | `OpenSessionIsWritable` (violated) | a finding, see below |
| `recovery` | `EpochFence` `FencesUnique` `HandedRetained` `CursorsFollow` `TokensOnlyAge` | two managers with stale records, dispatchers that settle, replays, deaths and one restore; a reader of a stream that is appended to, rolled back and restored between its pages and between the statements of one |
| `interval` | `CompletedForGood` `OneReservation` `OneInFlight` `EndedByItsReport` `DueIsReserved` | three hosts, four slots, stale reads, lost answers, crashes |
| `sessions` | `ActorsMirrorScopes` `ClosedForGood` `AnswersHold` | two actors, three hosts and two scopes: racing finishes, drafts, releases and recoveries written from a record read before, also over the next session, repeated opens |
| `assessment` | `CorrectionsLinked` `ChargedForResults` `DecisionsStand` `ToldOutcomesStand` `OutcomesImplemented` | two hosts assess, correct, close, accept, approve and dispose, with failures half-way and callers of the operation ledger that come back with old records |
| `work` | `LinksSurvive` `PlanIsWhole` `ReassignmentsKept` `ObservationsFenced` | whole records written from what was read before, sheets in between, reassignments and observations |
| `work_cycle` | `NoCycles` (violated) | a finding |

Deadlock is checked in the store and limits runs. It is off in the others: leases,
versions, restores, the clock, sessions, request keys and generations are
bounded or used up, after which nobody has anything to do.

The modules state more than the runs check: type invariants (`TypeOK`,
`LeaseTypeOK`), which are proved, invariants the proofs rest on or that follow from
others (`DeclarationIsKept`, `UnknownNeedsResolver`), and what the code does not keep
(see [Findings](#findings)).

Every property of a passing run has a mutant in `PROJECT.json`: a definition
with a plausible bug (a missing guard, a rollback too far, a file not read
again) under which TLC finds the property violated.

## Bounds

- *Store.* `MaxVersion` 3 admits a version that was
  created, revised and used once more, which is what a stale expectation needs;
  `MaxDepth` 2 is a savepoint inside a savepoint; two keys for a retry and a
  competitor; two identities for references across
  identities; three domains for a colliding pair and one that fits. Event ids,
  tokens and payloads are only compared.
- *Limits.* A pool of three units and an allowance of four, or of less allowance
  than capacity, or of one unit; reservations of one or two units with up to two
  actual ones: the first that can overrun, and the first that does not fit one
  limit while it fits the other. Five keys: pool, two reservations, two
  transitions. Keys are only compared, which makes `KeySymmetry` sound; both
  callers stay distinct.
- *Lease and retirement.* Two owners for a second one after a crash, three
  leases for the second retry, two writers, two files for a cleanup
  that stops half-way, two contents for an edit. A rewrite may stop as often as it
  is made.

- *Recovery.* Two managers for a stale one; versions for an epoch, a token, a
  settlement or retirement, and the next epoch; two boots for a new epoch and a
  repeated one; one restore for a lost timeline. A second operation would
  add tokens that are only compared with those of the first.
- *Interval.* Three hosts: one that wins, one that loses, one that reports.
  Slots 1 to 3: one that runs, one that is missed or reserved by a racing host,
  one after it. The clock stops at the bound, so what must happen after a slot
  fell due happens at whatever time TLC lets pass.
- *Event cursor.* Five events and pages of two: a page that is full, one that is
  not, an event of a transaction that was rolled back, and one that took its
  position. One reader, since readers share nothing but the stream.
- *Sessions.* Two actors and two scopes, one actor with two hosts: a manual and
  an idle finish of one session, and an actor who takes a second scope. Two
  sessions, two open requests, two finish requests: one after another in the
  same scope or by the same actor, and a request that is repeated for either.
- *Assessment.* One assessment key that two hosts race for; two candidates, so
  that one can be approved on the assessment of the other; two corrections for a
  lost link; an allowance of one under assessments of two units. The input is
  revised once, a finding closed twice. There is one decision key, for which all
  kinds of decisions compete; with two the run takes hours, and what is lost is a
  wait at the cap, which needs an earlier decision, and nothing else relates two
  decisions.
- *Work.* One project, two tasks, two hosts, five versions in all: create the
  project and two tasks, and let two hosts write, or a sheet between the read and
  the write of one. Two principals and two generations for a reassignment that
  races an observation or another reassignment.

The theorems hold for all values of these constants.

## Fairness

Only `Interval` assumes fairness, for `DueIsReserved`. The code has no scheduler
of its own: hosts call `poll` from a timer, so that somebody polls while a slot is
due (weak fairness of `Start` or `Poll` by any host), and a call that was
refused or replayed returns (weak fairness of `Replay` or `Refused`). A call may
always die before it writes; that not all of them do, whichever hosts they are
of, is strong fairness of `Commit` by any host. Nothing obliges a host to run a
request, or to report it: a request whose host is gone stays in flight.

## Abstractions

- *Store.* Revisions are integers, `NoRevision` for an unpinned identity,
  negative ones for what callers choose themselves. Digests are what they
  digest. Actor binding and the sealing of handlers are one question, whether
  the owner of the command is registered. SQLite's rollback journal is assumed
  to restore what was committed.
- *Limits.* A request is identified with the record it asks for, which is what
  its digest hashes. Calls made inside a caller's own transaction, which may be
  rolled back with the record still in the caller's hands, are left to the
  composition with the store.
- *Lease.* Signatures, lock directories and the admission of identities are
  left out: all processes share one authority. The random id of a lease is its
  number among all leases; generations, which an emptied file lets begin again, are
  kept apart from it.
- *Retirement.* One session in one checkout. The second digest of a file and
  its unlink are one step: unlink cannot be made conditional on contents, and an
  edit by a program that ignores the lease between the two would be lost. The
  record is read and written in one step; without a lease two writers of it can
  undo each other, which `Sessions` models. A writer has a
  descriptor on every file there was when it opened them. The idle clock is a free choice: a poll finds the
  session idle or it does not.

- *Recovery.* A token is named by operation, epoch and fence, of which its value
  is a digest; tokens named by the caller are left out. The host that restores a
  snapshot uses its root in the place of the old store, which nobody has open any
  more. What `apply` does in `settle` is outside.
- *Interval.* Time counts intervals, and all hosts read one clock and act as one
  actor, as the default does. There is one interval, so the request key all
  intervals share for their start does not matter here.
- *Event cursor.* Ids of events are random and never come again; signatures and
  expiry of cursors are left out. One roll-back between the check and the rows, at
  the very place of the cursor, cannot be noticed by the code; `CursorsFollow`
  excepts the reader to whom that happened, until it begins anew, and no other.
- *Sessions.* Contents of drafts and metadata are left out: what one save does to
  the draft of another is not seen. Recovery, rejection and cleanup are written
  whatever the scope holds by then; `ActorsMirrorScopes` excepts the sessions that
  were written over, and no others.
- *Assessment and decisions.* The pool is counted, not modelled again: a
  reservation and its settlement in one transaction are the units charged. One
  scope, obligation and criterion, there from the start. Who decides is what the
  caller says.
- *Transactions.* Above the store a transaction is one step, and in the store a
  command is: `mutate` with its own savepoint, `assess` over three services, the
  rows of a sheet happen or do not happen. A refusal half-way is undone by the
  savepoint or the transaction and is no step, so that no property says anything
  of the parts in between; that a roll-back restores what it should is checked and
  proved for the transactions and savepoints callers open (`Layered`,
  `DescriptorsMirrorTables`, `LedgerSpec`).
- *Work.* Fields that no property reads (titles, lifecycle, readiness, resources)
  are left out; efforts, criteria, scenarios and gates are tasks as far as the
  graph goes. `Acyclic` and `Above` say what the code's walks decide.

## Proofs

All proofs are checked by `tlapm` with SMT, Zenon and LS4, from the named
assumptions on constants only (finiteness of reservations, model values that
are distinct from what they stand beside, natural bounds). Each is: an
inductive invariant, a lemma that `Init` establishes it, a lemma that every step
keeps it, with one step per action, and a temporal step.

- `CommandStoreProofs`. `IInv` says `TypeOK`, and that *every* level of the
  transaction is `Sound`: referential, gap-free, receipts matched by events,
  expectations behind the version. Stating it of one set of tables at a time
  lets each operation be proved once (`CommandSound`, ..., `RegisterSound`), and
  the transaction boundaries only move tables between levels (`LevelsMove`).
  `VersionCAS` is not inductive: it needs that a version a committed command
  expected is behind the identity's version (`VersionSpent`). Theorems:
  `TypeCorrect`, `ReferencesResolve`, `StreamsHaveNoGaps`,
  `ReceiptsAndEventsAgree`, `VersionCASHasOneWinner`.

  The relations between levels need a second invariant, `LayersInv`: of two
  levels the inner one is `Ahead`, it has all the history of the outer one and no
  version behind it, and a receipt it has in addition moved the version of its
  target. `Ahead` is transitive and every operation keeps it, so that it holds
  from the committed tables through every savepoint to the working ones, and a
  rollback or a commit, however deep, goes from one level to another that is
  related to it. `SavepointsAreLayered` is a part of it. That a commit, which
  publishes several commands at once, is one step of `CommandLedger!Publish`
  (`ImplementsLedger`) is the same relation between the committed and the working
  tables: the new events are a continuation of the old stream, each is the event
  of a receipt that was undecided, and the version of its target grew. All other
  steps leave the committed tables alone and stutter. `DescriptorsStayMirrored`
  follows descriptors along with the tables they belong to.
- `LimitsProofs`. Capacity needs arithmetic over a set of reservations without
  induction: a sum is the cardinality of a set of units, and the lemmas
  `TotalMonotone`, `TotalCovered` and `TotalRaised` follow from the library's
  theorems on finite sets. `OneRequestPerVersion` and `DeclarationIsKept` need
  that every record anyone holds is in a receipt and every version behind the
  stored one has its receipt (`Remembered`). Theorems: `TypeCorrect`,
  `CapacityIsNeverExceeded`, `AllowanceCoversAdmissions`, `RequestsApplyOnce`,
  `SettledStaysSettled`, `DeclarationStays`.
- `RetirementProofs`, first part, on `WriterLease`. `Guarded` (types and exclusion)
  is inductive whatever a rewrite leaves in the file; `Remembered` (until an emptied
  file is read as new, a file that can be read says that the checkout was retired)
  is what revocation rests on. Theorems: `TypeCorrect`,
  `RetirementExcludesWriters`, `RevocationHolds`.
- `RetirementProofs`, second part. Every step of retirement is a step of the lock file or
  leaves it alone (`NextIsLeaseStep`), so retirement implements the lease
  (`RetirementKeepsTheLease`) and its invariant is inherited.
  On it rest `Quiet` (after the first lease all open descriptors are revoked until
  an emptied file is read, so a managed write does not reach a file that may be
  gone), `FenceSaved` (whoever passes the handoff holds a manifest that is saved)
  and `Listing` (what an owner deletes by is a saved manifest, and lists all there
  is). That deletions are saved, that complete means gone and that a capture is
  stable rest on the lock alone and hold whatever became of the file's contents.
  Theorems: `RetirementKeepsTheLease`, `TypesKept`, `DeletionsWereSaved`,
  `NothingIsLost`, `CompletedMeansGone`, `CapturesAreStable`.

- `RecoveryProofs`. A token of an old epoch stays fenced because a command that
  still expects the current version was computed from the current tokens:
  `Follows` says this of every command about to be sent, with what it leads to
  (`SoundTokens`, and the tokens there are, aged). A restore puts back a store
  that was sound, and ends all calls. Theorems: `TypeCorrect`,
  `TokensOfOldEpochsAreFenced`, `FencesAreUnique`, `HandedTokensAreRetained`,
  `TokensAge`.

  Its last part is about `EventCursor`. A position together with the id there
  names the whole past: the present stream and the one in the snapshot agree up to
  every position at which they have the same id (`CommonPast`). So a cursor is
  followed in both streams at once (`Tracks`): in each in which its last event is
  still at its place, what it was given is what that stream shows up to there.
  An append gives a new id, which no cursor names, a rollback leaves a beginning
  of the stream, and snapshot and restore only make the two streams equal; none
  of them can make a cursor of another past fit. A page adds to the events of
  the cursor those of its rows. Other threads may have changed the stream since the
  cursor was checked; but rows behind an event that is at its place again when they
  are read are behind the same past, and a reader to whom it was not is astray
  until it begins anew. Theorem: `CursorsFollowTheStream`.
- `IntervalProofs`. A call knows what it read (`Sensible`), and if it still
  expects the current version it read the current record (`Fresh`); what was
  completed is not above the slot reserved last (`CompletedOK`). Theorems:
  `TypeCorrect`, `CompletionIsFinal`, `SlotsAreReservedOnce`,
  `FlightIsExclusive`, `ReportsEndTheirOwn`.
- `DecisionsProofs` is in three layers. `LedgerInv`: a record in anybody's hands,
  a caller's, an assessment's or a decision's, is never ahead of its operation,
  and where it has a known outcome it is the current one. `Forward` says what no
  step takes back: results stay, corrections are only added, findings are only
  closed, committed operations stay committed. `Holds`: what a call or a
  decision has read is therefore still true when it writes or is looked at.
  Charges are the cardinality of a finite set of units, one per result and
  allowance, so they are counted without induction. That the ledger implements
  `EffectOutcomes` rests on `LedgerInv`: whoever transitions an operation holds its
  current record, so that what is known of the effect only moves on
  (`TransitionLearns`), with one receipt more, which says whether a resolver asked;
  whoever prepares or assesses finds nothing recorded (`UnresolvedLearns`); all
  other steps leave the ledger alone. Theorems: `TypeCorrect`, `KnownOutcomesStand`,
  `LedgerImplementsOutcomes`, `UnknownIsResolved`, `NoCorrectionIsLost`,
  `OnlyResultsAreCharged`, `DecisionsKeepTheirEvidence`.
- `SessionsProofs`. What a call is about to write is `Sensible`: the record of
  its session, open only if the call is a save, which looks again, and with a claim
  only if a finish of that session kept one (`Won`). So whatever is written late ends
  sessions only (`Closing`), a session that was answered is not open (`AnswersOK`),
  and a claim that is found is that of a winner. That actors and scopes agree
  (`MirrorInv`) is kept by every write, because whichever other session the two
  records named before it is displaced by it (`MirrorWritten`). Theorems:
  `TypeCorrect`, `EndedStaysEnded`, `FinishTellsTheTruth`, `ActorsAgreeWithScopes`.

- `WorkProofs`. Commands write the whole of a record they made of one they read
  before. `GraphInv` says that what a host is about to write either is the next
  version of what is there and keeps what it must (`Fits`, `Succeeds`), or is of a
  version that has passed and will be refused. A record changes together with
  its version only (`Moves`), so a sheet between the read and the write puts a
  call in the second case. That the plan stays whole (`Whole`) then rests on sheets
  alone. `AssignInv` says the same of the assignment and its history: a call
  carries the history it read (`Carries`), every answered reassignment is in the
  history at its generation (`Kept`), and an observation is filed under the
  generation and the principal that were let through together (`Fenced`).
  Theorems: `WorkTypeCorrect`, `PlansStayWhole`, `RevisionsKeepLinks`,
  `ReassignmentsStand`, `ObservationsStayFenced`.

Every safety property of a passing run is a theorem, and none has a hypothesis
beyond the assumptions on constants. Where the code keeps a property only up to
some event, the property itself says which: `RevokedUntilEmptied` and
`NothingLostUntilEmptied` (an emptied lock file is read as new), `CursorsFollow`
(the reader is not astray), `ActorsMirrorScopes` (the session was not displaced).
The history variables that record these events appear in no guard, and
[Findings](#findings) names the configurations in which the unrestricted
properties are violated.

Model-checked only: `DueIsReserved`, since liveness under fairness and `ENABLED`
are out of the prover's reach. The proofs use no induction over data, and no
theorem is about the sum of versions that bounds the work modules.

## Findings

1. **A poll that finds the session in use retires its checkout**
   (`authoring/integration.py:287`, run `retirement_poll`): the lease is taken
   before the idle time is looked at, and nothing records active again.
2. **An interrupted rewrite of the lock file revives revoked descriptors**
   (`authoring/writer_lease.py:221`, run `retirement_torn`): the file is cut to
   nothing before it is written, and an empty file counts as generation 0, active,
   so that a descriptor opened at generation 0 is written again after it was revoked.
   If the cleanup has unlinked its file meanwhile, the write succeeds on an inode
   without a name, for `write` looks at generation and phase only: those bytes are
   lost (`NothingLost`, `Retirement_lost.cfg`). What was on disk when a file was
   unlinked is saved all the same (`DeletionsAreSaved`).
3. **Two sheets close a cycle of dependencies** (`domains/work/batches.py:600`, run
   `work_cycle`): a sheet is checked for cycles among its own tasks only. From
   then on every `create` and `link_dependency`, which look at the whole graph,
   is refused.

Further disagreements are kept as configurations to run by hand; TLC finds each
property violated:

| configuration | property | what the code does |
|---|---|---|
| `CommandStore_failed_commit.cfg` | `NoUncommittedRead` | a failed COMMIT leaves the connection in its transaction (`kernel/store.py:294`): reads return what was never committed, and no transaction can begin until the store is closed |
| `CommandStore_pins.cfg` | `RevisionCAS` | callers name the revision of a result (`kernel/store.py:1169`; `kernel/limits.py:308`, `kernel/operations.py:383`, `domains/work/batches.py:197` do): one who names an old one brings back the state its competitors pinned, and a pin without an expected version has two winners |
| `Retirement_lost.cfg` | `NothingLost` | the second half of finding 2: a write to a file that is gone |
| `Recovery_stale.cfg` | `StaleDispatcherFenced` | epochs and fences count on from the snapshot (`kernel/recovery.py:1105`), so a token can equal one of the lost timeline, and the dispatcher that still holds that one settles with it |
| `Interval_race.cfg` | `LaunchedOnce` | pollers that read the same record in the same slot write the same command (`kernel/recovery.py:1262`), and the second is answered by the receipt of the first as if it had reserved the slot |
| `Assessment_stale.cfg` | `NoStaleApproval` | pins are compared before the transaction of `record_decision` (`domains/work/decisions.py:549`), so an approval can certify inputs revised in between |
| `Recovery_astray.cfg` | `EveryCursorFollows` | a page is several statements (`kernel/recovery.py:929`): a rollback of the event at the cursor's place and another event there, between the check and the rows, pass unnoticed |
| `Sessions_late.cfg` | `AllActorsMirrorScopes` | `cleanup` and `record_finish_recovery` write without a second look (`authoring/sessions.py`), over the next session of the scope or the actor |

Weaknesses seen while modelling that no run states as a violation:

- A cleanup whose owner dies after the last unlink, or cannot record the
  outcome, can never complete: a retry cannot open the files that are rightly gone,
  and a fresh capture misses them (`authoring/cleanup.py:236`).
- A poller that loses a slot to one of another slot gets a mismatch of the
  target, which `poll` does not turn into an answer (`kernel/recovery.py:1263`).
- All intervals share the default request key of `start`
  (`kernel/recovery.py:1244`).

- *Sessions.* A metadata or content edit can revert the draft of an autosave that
  came between its read and its write (the second check looks at the session, not
  the version). The release of an actor clears whichever session its record
  names. An open repeated after another actor took the scope answers with
  that actor's session (`sessions.py:163` promises the original result). A failed
  open records `saved_edit_not_opened` (`sessions.py:689`), while its replay looks
  for `saved_project_edit_not_opened` (`sessions.py:573`). A finish repeated after
  a refresh gets a conflict, one repeated after a failed apply an invalid session;
  `already_finished` does not say whether the winner finished or left a pending release.
- *Assessment and decisions.* An approval requires neither closed findings nor,
  if none is named, an assessment; an unknown result that is disposed of leaves its
  operation unknown, and one that is resolved later leaves the invocation as it was.
  The pins of a work candidate are not looked at by `assess`. A repeated decision
  is refused if its inputs moved meanwhile. After an unknown outcome,
  `record_outcome` under its default key conflicts for good. Approver and
  authority are what the caller says.
- *Work.* `link_parent` walks up only as long as records have a parent, so a
  record without one can come under its own descendant, and two concurrent
  `link_dependency` may each close half of a cycle: two more ways to a cycle than
  the finding's. `link_parent` between records without a project fails with an
  `AttributeError`. A sheet moves a task it names back under the project, and
  drops a dependency linked since it was read; its base revision guards the record
  of the project only. A result may be filed after its generation ended
  (`NoStaleObservation`, after the comment at `assignments.py:61`, is violated); a
  dispatch or result repeated after a reassignment conflicts. The default key of
  `pin_assignment_route` allows one pin for good. `list_observations` shows
  the last revision only.
- *Pending projects.* A second failed materialisation conflicts with the receipt of
  the first; a late failure overwrites a state that is editable by then; a
  partial amendment stays partial.
- *Cursors.* On a restored store that is shorter, the first page answers ok with a
  cursor whose watermark is behind its position, which its own decoder refuses
  next time. The status `gap` cannot occur. Readers are shown events of
  transactions that may be rolled back.

## Not modelled

- *Content, packs, extensions.* Their commands validate payloads and write one
  identity each through the store; what they could get wrong between commands is
  what the store's properties say. Modelled next, as record life cycles.
- *Parts of components.* Pending projects with a reservation, their
  materialisation and amendments in `batches.py`; views, policies, adoption and
  templates of the work sheet; `declare_scope`; `retain_unknown_operation`, tokens
  named by the caller and the files of a snapshot; the idle clock, symlinks and
  directory identities of a cleanup; packing of snapshots.
- *Command ports, host adapters.* Text and argument checking without state of
  their own; so are parsing and canonical encoding of records, which the models
  take as what they encode.
