------------------------- MODULE PrivacyBudgetRelease -------------------------
(***************************************************************************)
(* Concurrent policy_release.py invocations and approval operators over    *)
(* one privacy-budget store.                                               *)
(*                                                                         *)
(* Two kinds of durable state meet here: the SQLite store (events and      *)
(* approvals, changed only by COMMIT) and append-only JSONL files (ledger, *)
(* approval queue, decisions, audit log), which a write changes at once    *)
(* whether or not the transaction around it commits.  Every transaction    *)
(* starts by replaying the JSONL files into the store.                     *)
(*                                                                         *)
(* A process is one command: a release (Runs) or an approve / reject /     *)
(* expire command (Operators).  pc is the next statement it executes.      *)
(* Rows and lines keep the fields the decisions depend on; the position of *)
(* a line in the ledger stands for its record hash (two lines never hash   *)
(* alike, they carry microsecond timestamps).                              *)
(***************************************************************************)
EXTENDS PrivacyBudgetPolicy

CONSTANTS
  Runs,                \* release invocations
  Operators,           \* approval-management invocations
  NoOne,               \* not a process: the write lock is free
  NoRequest,           \* not a request: no approval is involved
  Jobs,                \* job ids; a job keeps its output directory over its runs
  QueryOf,             \* [Jobs -> query]: what the job's metadata asks for
  Passing,             \* jobs whose intersection reaches --threshold-k
  MaxQueries,          \* --max-queries
  DenyDuplicateQuery,  \* --deny-duplicate-query
  MaxTime,             \* bound: instants at which an approval can lapse
  MaxFaults            \* bound: crashes and failing writes

Procs == Runs \cup Operators
Scopes == {QueryOf[j].scope : j \in Jobs}

ASSUME ReleaseAssumption ==
  /\ Runs \cap Operators = {}
  /\ NoOne \notin Procs
  /\ NoRequest \notin Jobs \X Jobs
  /\ Passing \subseteq Jobs
  /\ MaxQueries \in Nat
  /\ DenyDuplicateQuery \in BOOLEAN
  /\ MaxTime \in Nat
  /\ MaxFaults \in Nat

VARIABLES
  events,     \* committed privacy_budget_consumption_events, in id order
  approvals,  \* committed privacy_budget_approval_events, by request id
  wEvents,    \* the same two tables inside the open write transaction;
  wApprovals, \*   equal to the committed ones while there is none
  lock,       \* the process inside BEGIN IMMEDIATE, or NoOne
  cursor,     \* the line that process replays next
  ledger,     \* the privacy_budget_ledger/v1 file
  queue,      \* the privacy_budget_approval_request/v1 file
  decisions,  \* the privacy_budget_approval_decision/v1 file
  audited,    \* the runs that have a line in the audit log
  report,     \* decision in each job's public report file
  now,        \* the clock approvals expire by
  faults,     \* faults so far
  pc,         \* next statement of each process
  job,        \* the job each run releases
  admitted,   \* the run's rate-limit answer, read before the transaction
  verdict,    \* the run's decision
  decision    \* the approval decision line a process is going to append

store == <<events, approvals>>
work == <<wEvents, wApprovals>>
files == <<ledger, queue, decisions, audited, report>>
local == <<job, admitted, verdict, decision>>
vars == <<store, work, lock, cursor, files, now, faults, pc, local>>

-----------------------------------------------------------------------------
(* Rows, lines and requests.                                                *)

\* request_id hashes the job and the prior release it is too close to.
Requests == Jobs \X Jobs

ApprovalStatus ==
  {"absent", "pending_approval", "approved", "rejected", "expired", "consumed"}

NoExpiry == 0
Expiries == {NoExpiry} \cup 1..MaxTime

Row == [status: ApprovalStatus, expires: Expiries]
AbsentRow == [status |-> "absent", expires |-> NoExpiry]

Decision ==
  [request: Requests, action: {"approve", "reject", "expire", "consume"}, expires: Expiries]
NoDecision == [request |-> NoRequest, action |-> "none", expires |-> NoExpiry]

\* flagged: the record carries an abuse_signal; src: the ledger line whose
\* hash is the row's source_record_sha256, 0 while that column is NULL.
Line == [job: Jobs, consumed: BOOLEAN, flagged: BOOLEAN]
Event == [job: Jobs, consumed: BOOLEAN, flagged: BOOLEAN,
          status: {"reserved", "committed", "failed_after_reserve"}, src: Nat]

Verdict == [allow: BOOLEAN, event: Nat, opens: Requests \cup {NoRequest}]
NoVerdict == [allow |-> FALSE, event |-> 0, opens |-> NoRequest]

Query(r) == QueryOf[job[r]]
Scope(j) == QueryOf[j].scope

-----------------------------------------------------------------------------
(* The consumption table.                                                   *)

\* Rows load_scope_records returns and evaluate_privacy_budget counts.
Counted(e) == e.consumed /\ e.status \in {"reserved", "committed"}

CountedIds(ev, s) == {i \in DOMAIN ev : Counted(ev[i]) /\ Scope(ev[i].job) = s}

Prior(ev, s) == [i \in CountedIds(ev, s) |-> QueryOf[ev[i].job]]

\* ux_privacy_budget_scope_query_consumed; a fingerprint includes the scope.
UniqueConflict(ev, j) ==
  \E i \in DOMAIN ev :
    Counted(ev[i]) /\ Fingerprint(QueryOf[ev[i].job]) = Fingerprint(QueryOf[j])

\* Mutation: the ledger file is not replayed.
ImportNothing(ev, n) == ev

\* insert_event(or_ignore=True) of ledger line n: ignored when the line's hash
\* is already a source record or a consumed row has its fingerprint.
ImportLine(ev, n) ==
  IF \/ \E i \in DOMAIN ev : ev[i].src = n
     \/ ledger[n].consumed /\ UniqueConflict(ev, ledger[n].job)
  THEN ev
  ELSE Append(ev, [job |-> ledger[n].job, consumed |-> ledger[n].consumed,
                   flagged |-> ledger[n].flagged, status |-> "committed", src |-> n])

-----------------------------------------------------------------------------
(* The approval table.                                                      *)

Expired(row) == row.expires # NoExpiry /\ row.expires <= now

CanTransition(row, action) ==
  \/ action \in {"approve", "reject"} /\ row.status = "pending_approval"
  \/ action = "expire" /\ row.status \in {"pending_approval", "approved"}
  \/ action = "consume" /\ row.status = "approved" /\ ~Expired(row)

\* Mutation: the consumed status is misspelt.
StatusAfterMisspelt == [approve |-> "approved", reject |-> "rejected",
                        expire |-> "expired", consume |-> "consume"]

StatusAfter == [approve |-> "approved", reject |-> "rejected",
                expire |-> "expired", consume |-> "consumed"]

Transitioned(row, action, expires) ==
  [status |-> StatusAfter[action],
   expires |-> IF action = "approve" THEN expires ELSE row.expires]

\* Mutation: INSERT OR REPLACE.
InsertOrReplaceRequest(rows, req) ==
  IF req # NoRequest
  THEN [rows EXCEPT ![req] = [status |-> "pending_approval", expires |-> NoExpiry]]
  ELSE rows

\* INSERT OR IGNORE on the request id.
InsertRequest(rows, req) ==
  IF req # NoRequest /\ rows[req].status = "absent"
  THEN [rows EXCEPT ![req].status = "pending_approval"]
  ELSE rows

\* One line of bootstrap_approval_decisions: transitions that raise are skipped.
ReplayDecision(rows, d) ==
  IF /\ rows[d.request].status \notin {"absent", StatusAfter[d.action]}
     /\ CanTransition(rows[d.request], d.action)
  THEN [rows EXCEPT ![d.request] = Transitioned(@, d.action, d.expires)]
  ELSE rows

-----------------------------------------------------------------------------
Init ==
  /\ events = <<>> /\ wEvents = <<>>
  /\ approvals = [req \in Requests |-> AbsentRow]
  /\ wApprovals = [req \in Requests |-> AbsentRow]
  /\ lock = NoOne /\ cursor = 1
  /\ ledger = <<>> /\ queue = <<>> /\ decisions = <<>>
  /\ audited = {}
  /\ report = [j \in Jobs |-> "none"]
  /\ now = 0 /\ faults = 0
  /\ pc = [p \in Procs |-> IF p \in Runs THEN "start" ELSE "begin"]
  /\ job \in [Runs -> Jobs]
  /\ admitted = [r \in Runs |-> FALSE]
  /\ verdict = [r \in Runs |-> NoVerdict]
  /\ decision = [p \in Procs |-> NoDecision]

Goto(p, label) == pc' = [pc EXCEPT ![p] = label]

Ended == {"done", "failed", "crashed"}

-----------------------------------------------------------------------------
(* Before the transaction.                                                  *)

\* count_prior_requests: lines of the caller for exactly this window.
SameCallerWindow(q, p) ==
  q.scope.caller = p.scope.caller /\ q.start = p.start /\ q.end = p.end

PriorRequests(r) == {x \in audited : SameCallerWindow(Query(r), Query(x))}

\* Authentication passes; the rate limit is decided here, outside the lock.
Admit(r) ==
  /\ pc[r] = "start"
  /\ admitted' = [admitted EXCEPT ![r] = Cardinality(PriorRequests(r)) < MaxQueries]
  /\ Goto(r, "begin")
  /\ UNCHANGED <<store, work, lock, cursor, files, now, faults, job, verdict, decision>>

\* Authentication fails: a deny report replaces what the job had on disk.
DenyUnauthenticated(r) ==
  /\ pc[r] = "start"
  /\ report' = [report EXCEPT ![job[r]] = "deny"]
  /\ Goto(r, "auditDenial")
  /\ UNCHANGED <<store, work, lock, cursor, ledger, queue, decisions, audited, now, faults, local>>

AuditDenial(r) ==
  /\ pc[r] = "auditDenial"
  /\ audited' = audited \cup {r}
  /\ Goto(r, "failed")
  /\ UNCHANGED <<store, work, lock, cursor, ledger, queue, decisions, report, now, faults, local>>

WriteLockFree == lock = NoOne

BeginImmediate(p) ==
  /\ pc[p] = "begin"
  /\ WriteLockFree
  /\ lock' = p
  /\ cursor' = 1
  /\ Goto(p, IF p \in Runs THEN "replayLedger" ELSE "replayQueue")
  /\ UNCHANGED <<store, work, files, now, faults, local>>

\* busy_timeout runs out while another process holds the lock.
BusyTimeout(p) ==
  /\ pc[p] = "begin"
  /\ lock # NoOne
  /\ Goto(p, "failed")
  /\ UNCHANGED <<store, work, lock, cursor, files, now, faults, local>>

-----------------------------------------------------------------------------
(* The ways a transaction ends.                                             *)

\* An exception leaves the with block: __exit__ rolls back.
Rollback(p, label) ==
  /\ lock' = NoOne
  /\ wEvents' = events /\ wApprovals' = approvals
  /\ Goto(p, label)
  /\ UNCHANGED store

Publishes(p, ev) ==
  /\ lock' = NoOne
  /\ events' = ev /\ wEvents' = ev
  /\ approvals' = wApprovals /\ UNCHANGED wApprovals

\* Mutation: the failure is recorded, the transaction stays open.
FailWithoutRollback(r) == Goto(r, "failed") /\ UNCHANGED <<store, work, lock>>

\* The except branch of write_report_and_commit: it commits the failure if
\* there is an event to mark, else the exception rolls everything back.
FailAfterReserve(r) ==
  LET e == verdict[r].event IN
  IF e = 0 THEN Rollback(r, "failed")
  ELSE /\ Publishes(r, [wEvents EXCEPT ![e].status = "failed_after_reserve"])
       /\ Goto(r, "failed")

-----------------------------------------------------------------------------
(* The replay every transaction starts with, a line at a time.              *)

ReplayLedger(r) ==
  /\ pc[r] = "replayLedger" /\ lock = r
  /\ IF cursor \in DOMAIN ledger
     THEN /\ wEvents' = ImportLine(wEvents, cursor)
          /\ cursor' = cursor + 1
          /\ UNCHANGED pc
     ELSE /\ cursor' = 1
          /\ Goto(r, "replayQueue")
          /\ UNCHANGED wEvents
  /\ UNCHANGED <<store, wApprovals, lock, files, now, faults, local>>

ReplayQueue(p) ==
  /\ pc[p] = "replayQueue" /\ lock = p
  /\ IF cursor \in DOMAIN queue
     THEN /\ wApprovals' = InsertRequest(wApprovals, queue[cursor])
          /\ cursor' = cursor + 1
          /\ UNCHANGED pc
     ELSE /\ cursor' = 1
          /\ Goto(p, "replayDecisions")
          /\ UNCHANGED wApprovals
  /\ UNCHANGED <<store, wEvents, lock, files, now, faults, local>>

ReplayDecisions(p) ==
  /\ pc[p] = "replayDecisions" /\ lock = p
  /\ IF cursor \in DOMAIN decisions
     THEN /\ wApprovals' = ReplayDecision(wApprovals, decisions[cursor])
          /\ cursor' = cursor + 1
          /\ UNCHANGED pc
     ELSE /\ cursor' = 1
          /\ Goto(p, IF p \in Runs THEN "evaluate" ELSE "transition")
          /\ UNCHANGED wApprovals
  /\ UNCHANGED <<store, wEvents, lock, files, now, faults, local>>

-----------------------------------------------------------------------------
(* The decision.                                                            *)

\* --deny-duplicate-query and the rate limit answer before the budget does.
DeniedEarly(r) ==
  \/ ~admitted[r]
  \/ DenyDuplicateQuery /\ \E x \in audited : job[x] = job[r]

BudgetPrior(r) == Prior(wEvents, Query(r).scope)
BudgetReason(r) == Evaluate(Query(r), BudgetPrior(r))

\* insert_event; consumed is what privacy_budget_ledger_record computes.
InsertEvent(r, consumed, flagged) ==
  wEvents' = Append(wEvents,
    [job |-> job[r], consumed |-> consumed, flagged |-> flagged,
     status |-> IF consumed THEN "reserved" ELSE "committed", src |-> 0])

DenyEarly(r) ==
  /\ pc[r] = "evaluate"
  /\ DeniedEarly(r)
  /\ Goto(r, "publish")
  /\ UNCHANGED <<store, work, lock, cursor, files, now, faults, local>>

\* No approval id given.
Decide(r) ==
  LET reason == BudgetReason(r)
      allow == reason = "ok" /\ job[r] \in Passing
      opens == IF reason \in ApprovalEligible
               THEN <<job[r], wEvents[MatchedId(Query(r), BudgetPrior(r))].job>>
               ELSE NoRequest
  IN
  /\ pc[r] = "evaluate"
  /\ ~DeniedEarly(r)
  /\ allow => ~UniqueConflict(wEvents, job[r])
  /\ wApprovals' = InsertRequest(wApprovals, opens)
  /\ InsertEvent(r, allow, reason \notin {"ok", "missing_scope"})
  /\ verdict' = [verdict EXCEPT
       ![r] = [allow |-> allow, event |-> Len(wEvents) + 1, opens |-> opens]]
  /\ Goto(r, "publish")
  /\ UNCHANGED <<store, lock, cursor, files, now, faults, job, admitted, decision>>

\* Mutation: any request on file will do.
ApprovalPresent(row) == row.status # "absent"

ApprovalGranted(row) == row.status = "approved" /\ ~Expired(row)

\* What --privacy-budget-approval-id must name.
Usable(r, req) ==
  /\ ~DeniedEarly(r)
  /\ BudgetReason(r) = "near_duplicate"
  /\ ApprovalGranted(wApprovals[req])
  /\ Scope(req[1]) = Query(r).scope
  /\ Fingerprint(QueryOf[req[1]]) = Fingerprint(Query(r))
  /\ Fits(Query(r).scope, Cardinality(DOMAIN BudgetPrior(r)) + 1)

\* An approved near duplicate: the threshold still decides, the approval is
\* consumed either way.
DecideApproved(r, req) ==
  LET allow == job[r] \in Passing IN
  /\ pc[r] = "evaluate"
  /\ Usable(r, req)
  /\ allow => ~UniqueConflict(wEvents, job[r])
  /\ InsertEvent(r, allow, TRUE)
  /\ verdict' = [verdict EXCEPT
       ![r] = [allow |-> allow, event |-> Len(wEvents) + 1, opens |-> NoRequest]]
  /\ decision' = [decision EXCEPT
       ![r] = [request |-> req, action |-> "consume", expires |-> wApprovals[req].expires]]
  /\ Goto(r, "publish")
  /\ UNCHANGED <<store, wApprovals, lock, cursor, files, now, faults, job, admitted>>

\* An approval id that is not Usable raises; so does one its own requester
\* uses (the model has no actor names), and so does the unique index when the
\* fingerprint has been charged already.
DecisionRaises(r) ==
  /\ pc[r] = "evaluate"
  /\ Rollback(r, "failed")
  /\ UNCHANGED <<cursor, files, now, faults, local>>

-----------------------------------------------------------------------------
(* write_report_and_commit: the files one after the other, then COMMIT.     *)

Publish(r) ==
  /\ pc[r] = "publish"
  /\ report' = [report EXCEPT ![job[r]] = IF verdict[r].allow THEN "allow" ELSE "deny"]
  /\ Goto(r, IF verdict[r].event = 0 THEN "audit" ELSE "ledger")
  /\ UNCHANGED <<store, work, lock, cursor, ledger, queue, decisions, audited, now, faults, local>>

AppendLedger(r) ==
  LET e == wEvents[verdict[r].event] IN
  /\ pc[r] = "ledger"
  /\ ledger' = Append(ledger, [job |-> e.job, consumed |-> e.consumed, flagged |-> e.flagged])
  /\ Goto(r, IF verdict[r].opens = NoRequest THEN "audit" ELSE "queue")
  /\ UNCHANGED <<store, work, lock, cursor, queue, decisions, audited, report, now, faults, local>>

AppendQueue(r) ==
  /\ pc[r] = "queue"
  /\ queue' = Append(queue, verdict[r].opens)
  /\ Goto(r, "audit")
  /\ UNCHANGED <<store, work, lock, cursor, ledger, decisions, audited, report, now, faults, local>>

AppendAudit(r) ==
  /\ pc[r] = "audit"
  /\ audited' = audited \cup {r}
  /\ Goto(r, IF decision[r] = NoDecision THEN "commit" ELSE "decision")
  /\ UNCHANGED <<store, work, lock, cursor, ledger, queue, decisions, report, now, faults, local>>

AppendDecision(p) ==
  /\ pc[p] = "decision"
  /\ decisions' = Append(decisions, decision[p])
  /\ Goto(p, IF p \in Runs THEN "consume" ELSE "commit")
  /\ UNCHANGED <<store, work, lock, cursor, ledger, queue, audited, report, now, faults, local>>

\* transition_approval_request(action="consume"), which reads the clock again.
Consume(r) ==
  LET req == decision[r].request IN
  /\ pc[r] = "consume"
  /\ IF CanTransition(wApprovals[req], "consume")
     THEN /\ wApprovals' = [wApprovals EXCEPT ![req] = Transitioned(@, "consume", NoExpiry)]
          /\ Goto(r, "commit")
          /\ UNCHANGED <<store, wEvents, lock>>
     ELSE FailAfterReserve(r)
  /\ UNCHANGED <<cursor, files, now, faults, local>>

\* Mutation: the ledger line's hash is not written back.
MarkCommittedUnlinked(r) ==
  IF verdict[r].event = 0 THEN wEvents
  ELSE [wEvents EXCEPT ![verdict[r].event].status = "committed"]

\* The event becomes committed, with the hash of the ledger line just written.
MarkCommitted(r) ==
  IF verdict[r].event = 0 THEN wEvents
  ELSE [wEvents EXCEPT ![verdict[r].event].status = "committed",
                       ![verdict[r].event].src = Len(ledger)]

Commit(p) ==
  /\ pc[p] = "commit"
  /\ Publishes(p, IF p \in Runs THEN MarkCommitted(p) ELSE wEvents)
  /\ Goto(p, "done")
  /\ UNCHANGED <<cursor, files, now, faults, local>>

-----------------------------------------------------------------------------
(* manage_privacy_budget_approval.py and the dashboard's transition route.  *)

Transition(o) ==
  /\ pc[o] = "transition"
  /\ \E req \in Requests, action \in {"approve", "reject", "expire"} :
     \E expires \in IF action = "approve" THEN Expiries ELSE {NoExpiry} :
       /\ CanTransition(wApprovals[req], action)
       /\ wApprovals' = [wApprovals EXCEPT ![req] = Transitioned(@, action, expires)]
       /\ decision' = [decision EXCEPT
            ![o] = [request |-> req, action |-> action, expires |-> expires]]
  /\ Goto(o, "decision")
  /\ UNCHANGED <<store, wEvents, lock, cursor, files, now, faults, job, admitted, verdict>>

\* Unknown request, wrong status, missing reason or self approval.
TransitionRaises(o) ==
  /\ pc[o] = "transition"
  /\ Rollback(o, "failed")
  /\ UNCHANGED <<cursor, files, now, faults, local>>

-----------------------------------------------------------------------------
(* Faults and time.                                                         *)

Fault == faults < MaxFaults /\ faults' = faults + 1

\* A write raises: the operator report's, which comes between the public report
\* and the ledger, or that of the file the process is about to change.
WriteFails(p) ==
  /\ pc[p] \in {"publish", "ledger", "queue", "audit", "decision"}
  /\ Fault
  /\ IF p \in Runs THEN FailAfterReserve(p) ELSE Rollback(p, "failed")
  /\ UNCHANGED <<cursor, files, now, local>>

\* The process dies; the operating system drops its lock, the next reader of
\* the store finds the last commit.
Crash(p) ==
  /\ pc[p] \notin {"start"} \cup Ended
  /\ Fault
  /\ IF lock = p THEN Rollback(p, "crashed")
                 ELSE Goto(p, "crashed") /\ UNCHANGED <<store, work, lock>>
  /\ UNCHANGED <<cursor, files, now, local>>

Tick ==
  /\ now < MaxTime
  /\ now' = now + 1
  /\ UNCHANGED <<store, work, lock, cursor, files, faults, pc, local>>

-----------------------------------------------------------------------------
RunStep(r) ==
  \/ AuditDenial(r) \/ ReplayLedger(r)
  \/ DenyEarly(r) \/ Decide(r) \/ (\E req \in Requests : DecideApproved(r, req))
  \/ DecisionRaises(r)
  \/ Publish(r) \/ AppendLedger(r) \/ AppendQueue(r) \/ AppendAudit(r) \/ Consume(r)

OperatorStep(o) == Transition(o) \/ TransitionRaises(o)

ProcStep(p) ==
  \/ BeginImmediate(p) \/ BusyTimeout(p)
  \/ ReplayQueue(p) \/ ReplayDecisions(p)
  \/ AppendDecision(p) \/ Commit(p)

Next ==
  \/ \E r \in Runs : Admit(r) \/ DenyUnauthenticated(r) \/ RunStep(r)
  \/ \E o \in Operators : OperatorStep(o)
  \/ \E p \in Procs : ProcStep(p) \/ WriteFails(p) \/ Crash(p)
  \/ Tick

Spec == Init /\ [][Next]_vars

\* A release that has begun keeps executing, and so does an operator command
\* that holds the lock.  Nobody is obliged to start a command, nothing is
\* obliged to fail, and the clock may stand still.
Fairness ==
  /\ \A r \in Runs : WF_vars(RunStep(r) \/ ProcStep(r))
  /\ \A o \in Operators : WF_vars(lock = o /\ (OperatorStep(o) \/ ProcStep(o)))

FairSpec == Spec /\ Fairness

-----------------------------------------------------------------------------
Labels == {"start", "auditDenial", "begin", "replayLedger", "replayQueue",
           "replayDecisions", "evaluate", "transition", "publish", "ledger",
           "queue", "audit", "decision", "consume", "commit"} \cup Ended

TypeOK ==
  /\ events \in Seq(Event) /\ wEvents \in Seq(Event)
  /\ approvals \in [Requests -> Row] /\ wApprovals \in [Requests -> Row]
  /\ lock \in Procs \cup {NoOne}
  /\ cursor \in Nat \ {0}
  /\ ledger \in Seq(Line) /\ queue \in Seq(Requests) /\ decisions \in Seq(Decision)
  /\ audited \subseteq Runs
  /\ report \in [Jobs -> {"none", "allow", "deny"}]
  /\ now \in 0..MaxTime /\ faults \in 0..MaxFaults
  /\ pc \in [Procs -> Labels]
  /\ job \in [Runs -> Jobs]
  /\ admitted \in [Runs -> BOOLEAN]
  /\ verdict \in [Runs -> Verdict]
  /\ decision \in [Procs -> Decision \cup {NoDecision}]

\* The ledger lines that charge a budget.
Charges == {n \in DOMAIN ledger : ledger[n].consumed}
ChargesOf(s) == {n \in Charges : Scope(ledger[n].job) = s}

\* No scope is charged more than its limit, however the releases interleave
\* and wherever they die: a charge whose transaction never committed is found
\* again by the replay (bootstrap_from_jsonl_ledger) and counted.
BudgetWithinLimit ==
  \A s \in Scopes : Cost * Cardinality(ChargesOf(s)) <= ScopeLimit(s)

\* No query is charged twice: neither by two commands at once, nor by a rerun
\* after a crash, nor by a second approved release (the unique index).
ChargedOnce ==
  \A m, n \in Charges :
    Fingerprint(QueryOf[ledger[m].job]) = Fingerprint(QueryOf[ledger[n].job]) => m = n

\* A charge the store holds, and one a finished release reported, is in the
\* ledger file: each has a line of its own, for the same job
\* (write_report_and_commit links them by record hash).
HasCharge(e) ==
  /\ e.status = "committed"
  /\ e.src \in Charges
  /\ ledger[e.src].job = e.job

StoreMatchesLedger ==
  /\ \A i \in DOMAIN events : Counted(events[i]) => HasCharge(events[i])
  /\ \A i, k \in DOMAIN events :
       Counted(events[i]) /\ Counted(events[k]) /\ events[i].src = events[k].src => i = k
  /\ \A r \in Runs : pc[r] = "done" /\ verdict[r].allow =>
       \E e \in Range(events) : e.job = job[r] /\ e.consumed /\ HasCharge(e)

\* An approval is used once, and only once granted: in the decisions file a
\* "consume" line comes after an approval of its request and no other decision
\* on it, even when the command that wrote one of them died before COMMIT
\* (bootstrap_approval_decisions).
ConsumeFollowsApproval ==
  \A i \in DOMAIN decisions :
    decisions[i].action = "consume" =>
      {decisions[k].action : k \in {k \in 1..(i - 1) : decisions[k].request = decisions[i].request}}
        = {"approve"}

\* What differs too little from a released query is charged only after an
\* operator approved a request for exactly that query.
FlaggedWasApproved ==
  \A n \in Charges :
    ledger[n].flagged =>
      \E d \in Range(decisions) :
        /\ d.action = "approve"
        /\ Fingerprint(QueryOf[d.request[1]]) = Fingerprint(QueryOf[ledger[n].job])

\* A rejected, expired or consumed request is never reopened, by no command
\* and by no replay (insert_approval_request ignores a known request id).
ClosedRequestsStayClosed ==
  [][\A req \in Requests :
       approvals[req].status \in {"rejected", "expired", "consumed"} =>
         approvals'[req] = approvals[req]]_vars

\* The store is never left locked: whoever began a transaction ends it, by
\* committing, by rolling back, or by dying.
LockReleased == \A p \in Procs : lock = p ~> lock # p

\* The promise of PrivacyBudget, kept by the ledger file: the instant a release
\* is charged is the append of its line.
PB == INSTANCE PrivacyBudget WITH
        charged <- {[job |-> ledger[n].job, approved |-> ledger[n].flagged] : n \in Charges}

KeepsBudget == PB!Spec
=============================================================================
