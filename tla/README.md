# TLA+ models of the SSE / bridge / private-join platform

This directory holds TLA+ modules that model parts of the platform, TLC
configurations that check them on small instances, and TLAPS proofs of the most
important results. Every definition is translated from the code; `PROJECT.json`
maps each one to the lines it stands for, lists the runs, the hazards of the
code and the properties that cover them, and the findings.

    tlc -workers 2 -config MCQueryWorkflow.cfg MCQueryWorkflow.tla   # a run
    tlapm PrivacyBudgetCharge_proofs.tla                             # a proof

## 1. The system

A caller asks for an aggregate over the join of two parties' records. The
stages are separate programs that meet in files and in one SQL database:

    SSE candidate export -> record recovery -> bridge tokenizer -> private join -> policy release
       (sse/)               (services/)        (bridge/, Rust)     (a-psi/)        (a-psi/)
            ^                    ^                   ^                                 |
         keyring / KMS      authz policy         token keys               budget ledger, approvals, report
                                                                                       |
    query workflow (queue, workers, cancellations) starts the chain; audit chain / archive / anchor seal it

| # | Component | State it keeps | Operations | What makes it hard | What makes it correct |
|---|---|---|---|---|---|
| 1 | Privacy-budget policy release (`policy_release.py`, `manage_privacy_budget_approval.py`) | SQLite tables of consumption and approval events; JSONL ledger, approval queue, decisions, audit log; report files | release, approve, reject, expire, consume | several commands at once; two kinds of durable state, of which only one is transactional; a crash or a failing write at any file; an approval that lapses between two reads of the clock | no scope pays more than its limit; no query is paid for twice; store and ledger agree; an approval is granted before it is used and used once |
| 2 | Query workflow (`query_workflow_execution_store.py`, `run_query_workflow_worker.py`, `cancel_...`, `submit_query_workflow.py`) | executions table with leases; status and receipts sidecars per job; pipeline child processes | submit (dry run, enqueue, execute, console), claim, heartbeat, steal, finish, cancel | each store function reads, decides and writes in separate statements; leases expire; workers are killed and their pipelines are not | one submission admitted; completed means a pipeline exited 0; cancelled means somebody asked; what is queued is settled |
| 3 | Keyring, key agent, external KMS (`keyring_lib.py`, `manage_keyring.py`, `key_agent_service.py`, `external_kms_service.py`) | one keyring JSON file, lifecycle and access audit logs | rotate, promote, set a status, resolve a secret | the KMS changes the file under the lock of its process, the command line without one, the agent reads it; the digest of the audit record is taken after the save | the file is always whole, with one active version per key; no saved change is lost; a version kept under a reference that names its secret keeps that secret; the current keyring is on record |
| 4 | Record recovery (`services/record_recovery/`) | record store, authorisation policy, access log; socket, ready and pid files | recover, reload on SIGHUP, start, stop, status | policy replaced during a request; per-store lock; a startup that unlinks a live socket | every recovered record was authorised by a policy in force and logged |
| 5 | SSE server and client services (`sse/frontend/`) | per service id a folder with config, state and encrypted database, on both sides; one copy of the state per connection | upload a config, upload a database, search, update, delete; connect, wait, clean up | every connection keeps the state it read when it was created and writes it back a second after it closed; a crash or a failing write between two files; timeouts that race the echo | an announced database is there; a served client is not refused; one connection is served at a time; the database the client drops is one the server has, or was encrypted while the upload was under way |
| 6 | SSE persistence (`sse/data_persistence/`) | file-backed arrays, dictionaries, shelves | get, set, slice assignment, sync | rollback of a slice; truncation before the new contents | a crash leaves the old or the new contents |
| 7 | SSE schemes (`sse/schemes/`) | encrypted indexes | setup, trapdoor, search | data layout and cryptography | search returns what was indexed |
| 8 | Audit chain, seal, archive, anchor (`scripts/archive_audit_bundle.py`, `verify_audit_bundle.py`, `publish_external_audit_anchor.py`, ...) | archived files, index, hash-chained anchor log, external sinks | build, seal, archive, verify, publish | pipelines archive into one directory at once without a lock; index and anchor are two appends; a publication may be partial or repeated | a finished archiver's bundle verifies; sinks hold one chain; what was uploaded stays |
| 9 | Bridge tokenizer (`bridge/`) | none between runs | tokenise a batch | none: sequential | output matches input |
| 10 | Pipeline and private join (`run_sse_bridge_pipeline.sh`, `a-psi/`) | files of one run | run the stages | none: the stages run one after the other | refuses a stage whose predecessor failed |
| 11 | Metadata database, dashboard, console | tables, pages | migrate, connect, render | used by 1 and 2 | schema constraints |
| 12 | Evidence, rendering, benchmark and check scripts | none of their own | render, collect, test | none | - |

Interactions that matter to the models: the query workflow starts the pipeline
as a child process whose last stage is component 1, so a pipeline that is run
twice is decided twice, and the budget is what stops the second answer; the
dashboard calls the store of component 2 and the approval transition of
component 1; all of 1, 2 and 11 share the SQL database but no table.

## 2. Plan

1. *Privacy budget* - done: decision procedure, abstract promise, concurrent
   releases, refinement, twelve theorems.
2. *Query workflow* - done: store, submitters, workers, cancellers, faults, nine
   theorems.
3. *Keyring and KMS* - done: `Keyring` (the pure operations on a keyring),
   `KeyManagement` (the programs around the file), five theorems.
4. *SSE services* - done: `PiBasDatabase` (the encrypted dictionary),
   `SSEServer` (connections over the shared files), `SSEService` (composed with
   the client commands), nine theorems.
5. *Audit archive and anchor* - done: `AuditArchive`, five theorems.
6. *Record recovery* - open: `RecoveryService` (requests in flight, SIGHUP
   reload, store lock) and the start, stop and status life cycle of
   `manage_record_recovery_service.py` over socket, ready and pid file.
7. *Persistence* - open: slice rollback and truncating sync as small state
   machines.

Every safety invariant and action property that a run checks, and the
refinement, is also a theorem (section 5). Left for the prover: the properties of
the two open components, once they have modules. No module of a component
declares a RECURSIVE operator, so all of them can be proved about.

## 3. Modules

### Privacy budget

`PrivacyBudgetPolicy` is the decision procedure as pure operators: which rule
gives a scope its limit (the first that matches), how two windows relate, what
comparing a query with one prior release answers, and `Evaluate`, which visits
the prior records in id order. Times are numbers; a SHA-256 is the tuple it
hashes.

`PrivacyBudget` is the promise, without process or file: a set `charged` that
grows by a release the policy admits against everything charged before it
(`Release`), or by a near duplicate an operator approved (`ReleaseApproved`).

`PrivacyBudgetRelease` is the program. A process is one command. `pc` is its
next statement and labels are named after what it does next.

| State | In the code |
|---|---|
| `events`, `approvals` | committed rows of the two SQLite tables |
| `wEvents`, `wApprovals` | the same tables in the open transaction |
| `lock`, `cursor` | who is inside BEGIN IMMEDIATE, and the line it replays |
| `ledger`, `queue`, `decisions`, `audited`, `report` | the JSONL files and the reports, changed at once by a write |
| `admitted` | the rate-limit answer, read before the transaction |
| `verdict`, `decision` | what the run decided; the decision line it will append |

A release runs `Admit`, `BeginImmediate`, the three `Replay...` loops,
`Decide` (or `DecideApproved`, `DenyEarly`), then `Publish`, `AppendLedger`,
`AppendQueue`, `AppendAudit`, `AppendDecision`, `Consume`, `Commit`: the order
of `write_report_and_commit`. An operator command replays the approvals and
takes `Transition`, `AppendDecision`, `Commit`. `WriteFails` is a write that
raises, `Crash` the death of the process, `Tick` the clock approvals lapse by,
`BusyTimeout` a lock not obtained in time.

Since every transaction starts by replaying the files, a charge that reached
the ledger file counts from then on, whether or not its COMMIT happened. That
is the promise `BudgetWithinLimit` and `ChargedOnce` make precise, and why
`KeepsBudget` maps `charged` to the ledger's charging lines: a release is
charged at the instant its line is appended.

### Query workflow

`ExecutionStore` is the table. Every function of the store is a SELECT, a
decision, an UPDATE or INSERT and a COMMIT, with the SELECT outside the write
transaction, so the module gives decisions (`MayInsert`, `MayOvertake`,
`MayUse`, `MayCancel`, `ClaimCandidates`) and writes (`InsertQueued`,
`InsertRunning`, `Overtake`, `ClaimNext`, `RequestCancel`, `Heartbeat`,
`Finish`, `Expire`) apart. A lease is kept as the one thing the code asks of
it: whether it has expired. With several expired rows any one is a candidate:
their order by lease time is not kept.

`QueryWorkflow` is the processes that use it. Submitters make one submission in
one of four modes; `console` is the dashboard's `_start_job_thread`, which
claims before it looks at the sidecar. Workers loop over `TakeNext`, `Claim`,
`Reload`, `Announce`, `Beat`, `BeatWrite`, `Launch`, then watch the pipeline
(`StillRunning`, `Terminate`, `TimeOut`, `Collect`) and `Report`, `FinishRead`,
`FinishWrite`. Cancellers read, write, read again and note. A step is one
access to the table or to the sidecar, except that a receipt and the status
written right after it are one step, and so are a worker's look at its child
and its look at the row. `Gone` is the end of a process: its running child
becomes an orphan, which goes on and may still succeed.

A restarted worker keeps its name: the owner checks concern rows claimed in the
present life only, and `--owner` lets an administrator do the same. Time passes
a lease freely when nobody renews it (`ExpireUnattended`: the owner is gone, or
is an inline execution inside its one long `subprocess.run`); that a live
worker misses its own lease costs a fault (`ExpireStalled`). Timeouts are taken
as configured; when they fire is left open.

`ran`, `asked` and `crossed` are history variables of the properties: jobs a
pipeline of which exited 0, jobs somebody's cancellation was accepted for, jobs
of which a cancellation was written between the SELECT and the UPDATE of a
claim, or was overtaken by an inline execution.

### Keyring and key management

`Keyring` is `keyring_lib.py` as pure operators. A keyring maps key names to
entries, and an entry versions to a status and a reference to a secret kept
elsewhere: in the environment of the program that resolves it, in a vault under
a name and perhaps a version, or encrypted by AWS KMS in the reference itself
(`SecretRef`). `SecretOf` follows a reference, in a given environment and at a
given moment of the vault. `Permitted` and `Changed` are what a handler checks
and computes of the keyring it loaded (`Authorized`, `CanRotate`, `Rotated`,
`CanSetStatus`, `SetStatus`, `Promote`); `AccessAllowed` and `Selected` are the
reading side.

`KeyManagement` is the programs around one file. A process is one request: a
thread of the KMS, one run of `manage_keyring.py`, or a thread of the key
agent.

| State | In the code |
|---|---|
| `file` | the keyring file; `whole` is whether it parses. `applied` and `by` are history: whose changes it includes, who replaced it last |
| `proc` | the handler's phase and its local variables: request, computed keyring, selected version and its secret, digest |
| `lock` | the thread that holds the KMS's `state_lock` |
| `log`, `answers` | audit records; what resolve requests were answered with |
| `raced` | history: a command was between load and replace while another writer was |
| `vault` | `current_version` of each name in the vault, which an operator moves (`MoveCurrent`) |

A change takes `Load` (read, authorise, compute), `WriteTemp`, `Replace`
(`os.replace`; the KMS's `with` gives the lock back), `TakeDigest`,
`AppendLifecycle`. The digest is that of the file when it is taken, not of what
the process saved: a record may name somebody else's keyring. `SaveFails` and
`AuditFails` are the writes that raise. A resolution takes `LoadToResolve`,
under the lock in the KMS, then `ResolveSecret` without it, in the environment
of its program and at the vault's current version of that moment, and, in the
agent, `AppendAccess` or, after a refusal, `AppendDenial`. `Kill` ends a program
with all its threads at any point.

### SSE services

`PiBasDatabase` is the encrypted dictionary of PiBas. An address stands for
PRF(key, keyword, counter); it holds nothing, a ciphertext, or bytes an update
request put there. `Reached` is the loop of search, which stops at the first
counter whose address is missing; `DeleteByToken`, `DeleteAt`,
`UpdateByToken` and `UpdateEntries` are what the handlers do to `edb.D`.

`SSEServer` is the server for one service id. `disk` is the folder with its
three files, `conn` a connection with the server's Service object (`snap` is
its copy of the state, read when it was created), `running` the entry of
`_service_dict`. `Accept` creates the Service, sends the
INIT echo and either serves or waits for the connection that was registered;
`Wake` goes live when that one has closed; `Handle` runs the handler of the
next message; `Clean` is the cleanup a second after the close, which stores
`snap` and removes the entry if it is still this connection's. What the event
loop may do in between follows from its queue: a connection that registered
handles what it had received first (`Quiet`); one that waits is resumed two
rounds after the close it waits for, because `wait_closed` is shielded, so that
a new connection may come in between, but never the cleanup, which sleeps first
(`Over`). Handlers are one step, since none awaits, but a crash may fall between
or inside their writes (`CrashInHandler`, `CrashInClean`), and so may a write
that fails (`HandleFails`): the file is then truncated or as it was, and the
files after it are the old ones. The exception of an upload ends the connection
and leaves the Service object in the state it was about to store; a deletion or
an update answers it and goes on. The two share one bound, `MaxFaults`.

`SSEService` composes the server with the commands of the client. A command is
a process that loads the state bits (`Connect`), adopts the announced state,
checks and sends (`Send`), and takes the echo (`Receive`), gives up
(`Timeout`), is interrupted (`Kill`) or finds the connection gone
(`ConnectFailed`). `GenerateKey` and `EncryptDatabase` need no server. The
commands share the local folder (`local`) without a lock. `hist` holds what the
properties speak of: whether connections overlapped, whether one came while
another waited (`crowded`), which files a crash or a failure cut or tore, what
was stored in full.

### Audit archive

`AuditArchive` is one archive directory with the three scripts that use it. A
process is one invocation. An archiver (`proc`) copies chain and seal
(`FindCopy`, `FindNoCopy`, `OpenCopy`, `FillCopy`, `CheckCopy`, once for each),
reads the last anchor (`LinkAnchor`) and appends its index record and its
anchor record (`AppendIndex`, `AppendAnchor`); `Abort` is a refusal or a kill
anywhere. An append that fails may leave half a line, after which the file
cannot be loaded (`torn`). A publisher (`pub`) replays the log (`LoadAnchors`)
and sends it to a local ledger file, to rekor, one request per entry, or to an
S3 object that it reads, extends and puts back. `Verifies` is what
`verify_audit_bundle.py --archive-index` accepts, taken as one step. A hash is
what it hashes: the hash of an anchor entry is the sequence of the archivers
whose lines it chains. `ByJob` chooses between the tenant layout, where two
revisions of a job share a path, and the plain one.

`overlaps` is history: the windows between a read and the write it decides that
two processes were in at once. There are three, none protected by a lock:
`copy` (no file found, then copied), `link` (last anchor read, then extended),
`put` (object fetched, then put). The properties say what holds as long as the
window they depend on was not shared, and `PublishedOneChain` holds regardless.

## 4. What the runs check

Runs that must pass:

| Run | Instance | Shows |
|---|---|---|
| `budget_policy` (`MCPrivacyBudget`) | 20 queries: every window of a four-second line, missing bounds, two buckets, thresholds that round alike and not; three scopes; at most three charges | `WithinLimit`, `ChargedOnce`; `OverlapNeedsApproval`: what is released without an operator does not overlap or come within the gap, stated over seconds, not over the code's window relations; `SignalSymmetric`: the order of two releases does not matter |
| `budget_release` (`MCPrivacyBudgetRelease`) | three releases of four jobs, one operator, limit two, one crash or failing write, one instant | `BudgetWithinLimit`, `ChargedOnce`, `StoreMatchesLedger`, `ConsumeFollowsApproval`, `FlaggedWasApproved`, `ClosedRequestsStayClosed`, and that the program implements `PrivacyBudget` (`KeepsBudget`) |
| `budget_release_live` | two releases, one operator, one fault, no symmetry | `LockReleased` |
| `query_workflow` (`MCQueryWorkflow`) | one job, any two of five asks (dry run, two different enqueues, a stealing execution, the console), a stealing worker, one cancellation, one fault | `AdmittedOnce`, `CompletedRan`, `CancelledWasAsked`, `CancelledInQueueNeverRuns`, `CancellationKept`, `PayloadKept` |
| `query_workflow_queue` | one queued job, one stealing worker, one cancellation, two faults, fairness | `TerminalStays`, `EveryJobSettles` |
| `key_management` (`MCKeyManagement`) | two KMS threads, one command, one agent thread; any three of five requests on two keys and two versions, one of them to be refused; one version is kept in a vault of two versions, the other in the environments, which differ; the vault's current version moves once, after the first answer; fairness | `KeyringConsistent`, `SavedKept`, `SameVersionSameSecret`, `CurrentKeyringAudited`, `EveryRequestSettles` |
| `sse_service` (`MCSSEService`) | one service id, two operators' processes, three commands, three connections, one keyword with two identifiers, two keys, one crash or failing write; from a service just created, one with a config and an encrypted database, one with the database uploaded | `ReadyHasDatabase`, `LoadableAgain`, `NeverRefused`, `SerialStateExact`, `OneServing`, `WaitsForServed`, `DatabaseWithoutGap`, `DeletedAfterStored` |
| `audit_archive` (`MCAuditArchive`) | three archivers, two revisions of one job in the tenant layout, two publishers, three sinks | `ChainReplays`, `ArchivedVerifies`, `PublishedOneChain`, `UploadedKept` |

Why the bounds are enough to be interesting: three releases with limit two is
the least instance in which a budget can be overdrawn by a race, by a crash
followed by a rerun, or by an approved release. The unique index is not isolated
there: what only it stops is a third charge, and the limit comes first;
`ChargedOnceHolds` covers it. One fault at any of its positions followed by two
more releases covers each interrupted write and the replay after it. In the
workflow every hazard is about one row with several processes at it; two
submissions, a worker and a canceller reach every pair of steps that race for
it, and two faults let a worker be lost twice in the settling of one job.
Several jobs would add the choice among rows (`ClaimCandidates`), which the
queue's properties do not depend on.

Three requests on the keyring are the least in which a lost change is then
resolved or recorded; both versions of one key and a key to be created reach
every branch of `rotate_key`. Two resolutions with a rotation or a move of the
vault between them are what a second secret for a version takes. The vault moves
only after an answer, since before it a move is another initial vault, and only
once. Of the two threads of the KMS, which are alike, the first is the first to
be used.

Two operators with three commands reach every pair of handlers that meet in one
service. The third connection, which can come while the second waits for the
first, is used only in courses without a fault, while nobody deletes or updates,
and where nobody has done so by position or address. A keyword with two
identifiers is the shortest list a deletion can cut. The starting points of
`sse_service` are states a normal course of commands reaches, given so that
three commands get past them.

Three archivers are a fork and one more that archives on it; the publishers are
two because the `put` window takes two. No kill or failure is bounded in `key_management` and `audit_archive`: a
process that fails is not run again.

Symmetry (`Permutations` of the releases, of the submitters, of the workers, of
the operators' processes, of archivers, publishers and revisions) is used in
safety runs only; the processes it exchanges start alike. `CHECK_DEADLOCK FALSE`
everywhere, because all commands may be over, or, for a worker, there may be
nothing to do.

*Fairness.* In `budget_release_live` a release that has begun goes on, and so
does an operator command that holds the lock: nothing else in the program waits
for them, and the operating system schedules a process that can run. Nobody has
to start a command and the clock may stand still. In `query_workflow_queue`
a worker takes its steps, its supervisor starts it again when it has exited,
its pipeline ends by itself or is timed out, and an unattended lease runs out:
`WF` on each. Nobody has to submit or cancel, and no fault has to happen. In
`key_management` a thread or a command that can take a step takes one; the lock
goes to any waiting thread, since a holder's way to its release is finite and
the requests are. Nobody has to make a request.

Runs that must find a violation, each of something a document of the repository
says (`findings` has the quotations):

- `report_before_charge` (`ReportedIsCharged`): the public report is on disk
  before the charge is durable; a crash or a failing operator report in between
  leaves an answer nobody has paid for.
- `approval_without_charge` (`ConsumedApprovalPaid`): an approved release below
  the threshold consumes its approval and charges nothing.
- `rate_limit_race` (`RateLimitHolds`): the audit log is counted before the
  transaction, so concurrent releases of one caller and window for different
  purposes pass it together.
- `one_run_per_execution` (`OneRunPerExecution`): a worker claims a row with an
  UPDATE that asks neither for the state nor for the owner it had read, so two
  workers that do not steal run one execution.

The type invariants of `KeyManagement` and `AuditArchive` are in no run: they
are proved, for every value of the constants.

Each property of a passing run also has a mutant: a mapped definition changed
as a plausible bug would change it, under which TLC finds the property violated.

## 5. What is proved

Every state and action property that a run checks on a small instance, and the
refinement of the budget, is proved for every value of the constants: any number
of jobs, processes, connections, keys and faults, any rules and windows. Three
things stay with TLC, at the end of this section. Each proof module has one
inductive invariant, since no property is inductive alone; TLC checked the
invariants on the runs' constants before they were proved. The assumptions are
those the modules declare (`ASSUME`), which say no more than what a constant is;
two theorems have a hypothesis of their own, named below.

### Privacy budget

| Theorem (`PrivacyBudget_proofs`) | For every policy, every set of queries |
|---|---|
| `WithinLimitHolds` | no scope pays for more than its rule allows |
| `ChargedOnceHolds` | no query is paid for twice, with or without approval |
| `OverlapNeedsApprovalHolds` | two unapproved releases of a bucket share no second and keep the gap |
| `SignalSymmetricHolds` | which of two was released first makes no difference |

The abstract budget grows one admitted charge at a time (`NextAdmits`); the first
two are the counting and the fingerprint of that charge. The third translates the
code's window relations into seconds, missing and inverted bounds included. The last
assumes `WindowsInOrder`: a window with both bounds starts no later than it ends.
The code never rejects the others, but their jobs select no row
(`a-psi/moduleA_psi/scripts/prep_inputs.py:117-120` keeps a row from start to before
end), and the order does matter for them; the queries of `budget_policy` are in
order.

| Theorem | Module | For every value of the constants that satisfies `PolicyAssumption` and `ReleaseAssumption` |
|---|---|---|
| `TypeCorrect` | `PrivacyBudgetRelease_proofs` | `Spec => []TypeOK` |
| `ChargedOnceHolds` | `PrivacyBudgetCharge_proofs` | no two charging ledger lines have one fingerprint |
| `BudgetWithinLimitHolds` | `PrivacyBudgetCharge_proofs` | no scope is charged beyond its limit in the ledger file |
| `StoreMatchesLedgerHolds` | `PrivacyBudgetApproval_proofs` | each counted row, and each reported charge, has a ledger line of its own |
| `ConsumeFollowsApprovalHolds` | `PrivacyBudgetApproval_proofs` | a consume line follows one approval of its request and nothing else |
| `FlaggedWasApprovedHolds` | `PrivacyBudgetApproval_proofs` | a charge too close to another was approved |
| `ClosedRequestsStayClosedHolds` | `PrivacyBudgetApproval_proofs` | no step reopens a rejected, expired or consumed request |
| `KeepsBudgetHolds` | `PrivacyBudgetApproval_proofs` | `Spec` implements `PrivacyBudget` |

Types alone are not inductive: `Commit` writes `wEvents[verdict[p].event]`, so
the proof needs `TypeInv == TypeOK /\ LockInv /\ PendingInv`: the lock is held
by exactly the process between `replay...` and `commit`, and what it is about
to write exists.

The two theorems about charges rest on `Inv`, which adds to these

- `StoreInv`: a row that names a ledger line agrees with it, every counted row
  that is committed names one, and while no release holds the lock the working
  table is the committed one;
- `ReplayInv`: each charging line before the cursor, and every charging line
  once the replay is over, is named by a row - hence no decision overlooks a
  charge whose transaction never committed;
- `WriteInv`: the only counted row that names no line is the one the lock holder
  is about to write, and once its line is appended that line is the last one;
- `ChargeInv`: from the decision to the append, the charge decided still fits
  (`MayCharge`), because the lock keeps every other writer of the ledger out.

`Decide` establishes `MayCharge` from `ReplayInv` by counting: two charging lines
are never named by one row, so a scope has at least as many counted rows as charging
lines (a pigeonhole fact about finite sets). `AppendLedger` turns it into
`ChargedOnce` and `BudgetWithinLimit`; every other step leaves the ledger alone.
Neither theorem bounds faults, the clock or the number of processes.

What approvals do, and the refinement, rest on `IInv`, which adds to `Inv`

- `RowInv`, `VerdictInv`, `DoneInv`: two rows never name one line (a replay does
  not import what COMMIT links), a run reports what its row says, and a finished
  charge is in the committed table;
- `HistoryInv`: any prefix of the decisions file is in order (an approval or a
  rejection is the first line of its request, a consumption comes after an
  approval and nothing else), and so is the line the lock holder is about to
  add; this is what survives a command that dies before COMMIT;
- `RequestInv`, `ReadInv`: the lock holder's working rows leave a closed request as
  it is, an approved row has its approval in the file or being written, and after
  the replay the working rows reflect every line of the file;
- `AnswerInv`: what the policy answered at the decision is still its answer when
  the line is appended, and a flagged charge has its approval.

A step of the release maps to a step of `PrivacyBudget` exactly when it appends
a charging line; `AnswerInv` says that the abstract guard holds there.

### Query workflow

| Theorem (`QueryWorkflow_proofs`) | For any jobs, submissions, workers and cancellers |
|---|---|
| `TypeCorrect` | `Spec => []TypeOK` |
| `AdmittedOnceHolds` | one of several enqueues of a job is admitted |
| `CompletedRanHolds` | what is recorded as completed had a pipeline that exited 0 |
| `CancelledWasAskedHolds` | what is recorded as cancelled was asked to be |
| `CancelledInQueueNeverRunsHolds` | a row settled before a worker owned it never has a pipeline |
| `CancellationKeptHolds` | a cancellation is lost in the two places the property names only |
| `PayloadKeptHolds` | stale copies written back do not lose the payload of a queued execution |
| `TerminalStaysInQueue` | with all work going through the queue, a terminal mark stays |
| `OnlyOvertakeReopensHolds` | whatever is submitted, only `claim_execution` takes a terminal mark off |

`RowOK`: a final state is marked terminal, and a recorded state happened. `TaskOK`,
`SeenOK`: a process is at a row that exists, and the copy of it that it will decide
on or write back was true when read and is missing neither a cancellation nor the
payload, unless the row was taken over in between (`crossed`, `Taken`). `HolderOK`:
whoever runs or has run a pipeline owned the row after its enqueue, and what it is
about to record is justified. `AdmittedOnce`, `CancellationKept` and `PayloadKept`
are inductive on top of these. `TerminalStaysInQueue` assumes `QueueOnly`: nobody
submits an execution that claims its own row, neither on the command line nor in the
console. That is the setting of `query_workflow_queue`; `OnlyOvertakeReopensHolds`
says what is left without it.

### SSE services

| Theorem (`SSEService_proofs`) | For any connections, commands, keys, databases, crashes and failing writes |
|---|---|
| `TypeCorrect` | `Spec => []TypeOK` |
| `WaitsForServedHolds` | a waiting connection waits for one that was served |
| `OneServingHolds` | two serve at once only after one came while another waited |
| `NeverRefusedHolds` | no message the client's check lets through is refused |
| `ReadyHasDatabaseHolds` | what is announced is there, unless a crash or a failure tore that very file |
| `LoadableAgainHolds` | the folder loads again, but for three places of a crash or a failure |
| `SerialStateExactHolds` | without overlap, late cleanups overwrite nothing newer |
| `DatabaseWithoutGapHolds` | a token reaches all of its keyword until somebody names positions |
| `DeletedAfterStoredHolds` | the database the client drops is stored, or was encrypted after the upload whose echo drops it was sent |

`WaitInv`: until one connection came while another waited, the only one that
waits does so for the one in the dictionary, and only that one serves.
`MessageInv`: the echo of an open connection is the state of its Service object
and no message is in flight before the echo was read, so that what the client
adopts and what the server will check are one value, whatever others store
meanwhile. `FileInv`: a Service object past `not_exists` has a folder under it,
without which its writes would be skipped. `SerialInv`: while no two connections
overlapped, at most one can still change the state (`Current`), it is or will be
the registered one, and its copy of the state is the last upload's; an `Accept`
that finds none open finds none current either, because the event loop wakes
what waits and handles what was received before it looks at a new connection
(`Quiet`). `GapInv`: no database in the client's folder, in flight or on disk
has a gap. `DeliveryInv`: an answer on a connection belongs to the command that
opened it. `MadeInv`: what was sent and what is in the client's folder carry the
numbers of encryptions that took place, in their order, so that a database other
than the one sent is a later one.

The writes of a handler are a fold over the files it names, cut anywhere by a
crash or a failure. `FoldThree` unfolds the fold of the community modules for up
to three files; `HandledTo` and `FileStep` then say once what any handler, whole
or cut, does to the files and the history, and the parts of the invariant use
nothing else of it. That a deletion by token, an update and a new encryption
leave no gap are lemmas on any database (`DeleteByTokenKeeps`, `ReplaceKeeps`,
`SetupIs`). The theorems speak of a service from its creation; the run also
starts from two states that a course of commands reaches, to get further within its
bounds.

### Keyring and audit archive

| Theorem (`KeyManagement_proofs`) | For every value of the constants that satisfies the assumptions of `Keyring` and `KeyManagement` |
|---|---|
| `TypeCorrect` | `Spec => []TypeOK` |
| `KeyringAlwaysConsistent` | the file is whole and each key's active version is its only active one |
| `SavedChangesKept` | no saved change is lost while no command raced |
| `OneSecretPerVersion` | while no command raced, answers for one version by a reference that names its secret carry one secret, in any environments and wherever the vault's current version moves |
| `CurrentKeyringOnRecord` | with no record outstanding or lost, one has the digest of the file |

One inductive invariant serves all of them. `FileOK`: the file is whole and
consistent, since it is only ever replaced. `WritersOK`: what a process is about
to save is consistent, and a KMS thread that writes has the lock. `RequestsOK`:
requests and selections have the shape the handler relies on. `Kept`: while no
command raced, there is at most one writer, it computed from the file as it
still is, and the file includes every saved change and binds every version that
was ever answered or selected to the reference it was answered by.
`Resolutions`: what was resolved by a reference that names its secret (`Pinned`)
is that secret, which neither the program nor the moment changes
(`PinnedSecret`). `Audited`: any record and any digest of the last writer are of
the file as it is; a later writer takes over that duty. That a rotation keeps
the old bindings and that a promotion leaves one active version are lemmas about
`Promote`, `SetStatus` and `Rotated` on any entry.

| Theorem (`AuditArchive_proofs`) | For any jobs, revisions, archivers, publishers and either layout |
|---|---|
| `TypeCorrect` | `Spec => []TypeOK` |
| `LogChains` | the anchor log replays unless two archivers linked at once |
| `FinishedVerifies` | the last record of a job, of an archiver that finished, verifies, unless a write was torn, the chain forked or two copied to one path at once |
| `PublishedChain` | the sinks hold one chain, without condition |
| `UploadedStays` | what was reported as uploaded stays, for the S3 object unless two put at once |

The invariant: `BundlesOK`, an archiver past its start has a bundle; `LinkOK`,
while no two linked at once the log replays and the one linked archiver still
has its last entry; `CopyOK`, while no two copied to one path at once, a copy in
progress is the only one of its path, and a file that an archiver checked, or an
index line names, stays as it was; `AnchoredOK`, the index line of an archiver
is followed by its anchor or the archiver is still to append it; `EntriesOK`,
the entry hash of a line of a replaying prefix lists the archivers of the lines
up to it; `PublishedOK`, what a publisher loaded is a replaying prefix and what
a sink holds comes from one; `PutOK`, what a publisher fetched is what the
object still holds. None of the four properties is inductive without them:
`ArchivedVerifies`, for one, speaks of finished archivers only, while its index
line was written before its anchor.

The proofs assume of hashes that they do not collide and of a process that it
runs once; they bound neither kills nor failing writes.

### What is only model-checked

Liveness: `LockReleased`, `EveryJobSettles` and `EveryRequestSettles` stay with
TLC, since the prover does neither fairness under `ENABLED` nor the leads-to
chains over it. The four runs that must find a violation have nothing to prove:
a counterexample settles them.

## 6. What is not modelled

Of the privacy budget: the debug mode without a transactional store, noise and
rendering, delivery of the result, the names of actors (a requester who tries to
approve or use its own request raises, which `TransitionRaises` and
`DecisionRaises` allow), different costs per release.

Of the query workflow: execution without a metadata database, validation and
building of the command, manifests, the dashboard's in-memory snapshot of a job
and the approval life cycle of operator requests. The dashboard's enqueue
writes its status once where the command line writes it twice; it is the same
process with one step less.

Some behaviours of the workflow are in the model but no property forbids
them, because the code has them and no document rules them out precisely: a
thief that forgets a cancellation accepted between its SELECT and its UPDATE,
and a row that no worker can run any more because an inline execution overwrote
the stored payload (`CancellationKept` and `PayloadKept` say that there is no
other way to lose either); a late "queued" status over a worker's "running"; a
stale cancellation that overwrites a completed row's state, though not its
terminal mark. `hazards` in `PROJECT.json` lists them with their lines. They
are why `EveryJobSettles` and `TerminalStays` are checked for the queue alone.

Of the keyring: HTTP and socket framing, lookup of bearer tokens, the Vault
client, health and metrics. A rotation or a status change saved without its
audit record is in the model (`AuditFails`) and the caller is told that it
failed, although it took effect; `CurrentKeyringAudited` speaks of what holds
when no record was lost. The vault is one for both programs, with or without its
HTTP client, and keeps the secret of a version as it was; the environment of a
program is the same after a restart; a vault entry has one field. Four
behaviours are in the model and no property forbids them: two parties that are
served one version of a key hold different secrets when its reference is to the
environment, which differs between programs, or to the vault without a version,
which follows `current_version` (keyring_lib.py:168, 182); retiring the active
version leaves the key without one, so that the next resolution is refused
(keyring_lib.py:296); a command that races the KMS loses one of the two changes;
the agent reads without a lock and may answer with a version that has just been
retired.

Of the SSE services: several messages on one connection (no command sends two),
the name table of services, the record export commands, other schemes than
PiBas (the server's deletion and update know its dictionary only). Modelled but
not forbidden: a connection that overlapped another one stores the state it
read when it was created over a newer one, although the comment at
services_manager.py:45 says that a service created just to send init or control
messages will not affect the database; a new key makes the uploaded database
unsearchable while the bits still say it is ready; a command that was
interrupted leaves bits that only the next INIT echo corrects; the echo of an
upload removes the encrypted database by its name, and with it one that another
command encrypted since, which the server never had
(client services/service.py:492); a deletion or update by position or address
may cut a token off from the rest of its list. A write of the cleanup that fails
is not modelled, a crash in it is.

Of the audit: building and sealing the chain of one run, restoring a bundle,
signatures, tenant checks, the production gate (outside production mode a
partial rekor publication is reported as such and exits 0). Two behaviours the
model shows and the properties except: a kill between the two appends leaves a
record without its anchor, and its job does not verify until it is archived
again; two pipelines that archive at once may fork the anchor log, and from
then on nothing in the archive verifies, which an operator who follows
docs/OPS_RUNBOOK.md reads as tampering.

*Record recovery* (component 4) is not modelled. Its request handlers share only
the policy object, which a SIGHUP replaces, and a lock per record store. What
most deserves a model is the life cycle in `service.py` and
`manage_record_recovery_service.py`: a starting service unlinks whatever socket
is there, and a stopping one removes socket, ready and pid file by name,
whoever made them. It is next in the plan.

*Persistence structures* (component 6) are used by their tests only; no scheme
and no service of this tree reaches them. Their hazards, a sync that
truncates before it writes and a slice assignment that fails half-way, are next
in the plan.

The other SSE schemes are cryptographic data layout without interleavings. The
bridge and the pipeline are sequential batch programs without state of their own
between runs; the join is the vendored private-join-and-compute. The metadata
database is modelled as the tables its users see. The remaining scripts, which
are most of the repository's lines (dashboards, metadata queries, renderers,
benchmarks, checks, evidence packs), render, collect or test what the others
write and change no state that anything else decides on: the share of all lines
that the map covers is small for that reason.
