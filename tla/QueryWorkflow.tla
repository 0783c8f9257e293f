----------------------------- MODULE QueryWorkflow -----------------------------
(***************************************************************************)
(* Query workflow executions: who runs a submitted pipeline, and what is   *)
(* recorded about it.                                                      *)
(*                                                                         *)
(* Submitters are calls of submit_request_payload (a dry run, an enqueue,  *)
(* or an inline execution) and of the dashboard's _start_job_thread;       *)
(* Workers are run_query_workflow_worker.py processes; Cancellers are      *)
(* cancel_query_workflow_execution.py commands.  They share the table of   *)
(* ExecutionStore and, per job, a status sidecar file.                     *)
(*                                                                         *)
(* A process that runs a pipeline has it as a child process.  When the     *)
(* process dies nobody terminates the child: it becomes an orphan, which   *)
(* goes on.  A step of a process is one access to the table or to the      *)
(* sidecar; the receipt and the status written with it are one step.       *)
(***************************************************************************)
EXTENDS Naturals, FiniteSets

CONSTANTS
  Jobs, Digests, NoOne,  \* as in ExecutionStore
  Submitters, Workers, Cancellers,
  Asks,                  \* what a submission may ask for
  Stealing,              \* workers started with --steal-expired
  MaxFaults              \* bound: kills, stalls past a lease, failing launches

Modes == {"dry_run", "enqueue", "execute", "console"}
Ask == [job: Jobs, digest: Digests, mode: Modes, steal: BOOLEAN]

Holders == Workers \cup Submitters  \* processes that can own an execution
Procs == Holders \cup Cancellers

ASSUME WorkflowAssumption ==
  /\ Submitters \cap Workers = {}
  /\ Cancellers \cap (Submitters \cup Workers) = {}
  /\ NoOne \notin Procs \cup Jobs \cup Digests
  /\ Asks \subseteq Ask
  /\ Stealing \subseteq Workers
  /\ MaxFaults \in Nat

VARIABLES
  ask,      \* what each submission asks for
  rows,     \* the table
  status,   \* the status sidecar of each job
  receipt,  \* request digest of the last line in each job's receipts file
  pc,       \* next statement of each process
  task,     \* the job a worker or canceller is at
  seen,     \* what its last SELECT brought back
  outcome,  \* the final state a process is going to record
  child,    \* its pipeline process
  orphans,  \* jobs with a pipeline that outlived the process that started it
  ran,      \* jobs a pipeline of which has exited 0
  asked,    \* jobs somebody's cancellation was accepted for
  crossed,  \* jobs a claim of which met a cancellation: see Cancel and Overtake
  faults    \* faults so far

ES == INSTANCE ExecutionStore WITH Owners <- Holders

Direct == {s \in Submitters : ask[s].mode \in {"execute", "console"}}
Enqueuers == {s \in Submitters : ask[s].mode = "enqueue"}

files == <<status, receipt>>
local == <<task, seen, outcome>>
pipelines == <<child, orphans, ran>>
requests == <<ask, asked, crossed>>
vars == <<rows, files, pc, local, pipelines, requests, faults>>

NoStatus == [state |-> "none", terminal |-> FALSE]
NoRead == [state |-> "absent", terminal |-> FALSE, payload |-> FALSE]

Init ==
  /\ ask \in [Submitters -> Asks]
  /\ ES!StoreInit
  /\ status = [j \in Jobs |-> NoStatus]
  /\ receipt = [j \in Jobs |-> NoOne]
  /\ pc = [p \in Procs |-> IF p \in Workers THEN "idle"
                           ELSE IF p \in Cancellers THEN "start"
                           ELSE IF ask[p].mode = "console" THEN "lookup" ELSE "check"]
  /\ task = [p \in Procs |-> IF p \in Submitters THEN ask[p].job ELSE NoOne]
  /\ seen = [p \in Procs |-> NoRead]
  /\ outcome = [p \in Holders |-> "none"]
  /\ child = [p \in Holders |-> "none"]
  /\ orphans = {} /\ ran = {} /\ asked = {} /\ crossed = {}
  /\ faults = 0

Goto(p, label) == pc' = [pc EXCEPT ![p] = label]
Fault == faults < MaxFaults /\ faults' = faults + 1

\* write_json of the status after append_jsonl of the receipt.
WriteSidecar(j, state, terminal, digest) ==
  /\ status' = [status EXCEPT ![j] = [state |-> state, terminal |-> terminal]]
  /\ receipt' = [receipt EXCEPT ![j] = digest]

\* The process is gone; a child that was running is not.
Gone(p, label) ==
  /\ Goto(p, label)
  /\ task' = [task EXCEPT ![p] = IF p \in Submitters THEN @ ELSE NoOne]
  /\ seen' = [seen EXCEPT ![p] = NoRead]
  /\ IF p \in Holders
     THEN /\ orphans' = orphans \cup (IF child[p] = "running" THEN {task[p]} ELSE {})
          /\ child' = [child EXCEPT ![p] = "none"]
          /\ outcome' = [outcome EXCEPT ![p] = "none"]
     ELSE UNCHANGED <<orphans, child, outcome>>
  /\ UNCHANGED ran

-----------------------------------------------------------------------------
(* Submissions.                                                             *)

\* assert_workflow_sidecar_start_allowed
StartAllowed(s) ==
  LET j == ask[s].job IN
  \/ status[j] = NoStatus
  \/ /\ ask[s].mode # "dry_run"
     /\ status[j] = [state |-> "accepted", terminal |-> TRUE]
     /\ receipt[j] = ask[s].digest

\* submit_request_payload checks the sidecar before it touches the table; the
\* dashboard claims first, and records a failure if the check refuses.
CheckSidecar(s) ==
  /\ pc[s] = "check"
  /\ IF StartAllowed(s)
     THEN /\ Goto(s, IF ask[s].mode \in {"dry_run", "console"} THEN "publish" ELSE "lookup")
          /\ UNCHANGED outcome
     ELSE IF ask[s].mode = "console"
     THEN Goto(s, "finish") /\ outcome' = [outcome EXCEPT ![s] = "failed"]
     ELSE Goto(s, "refused") /\ UNCHANGED outcome
  /\ UNCHANGED <<rows, files, task, seen, pipelines, requests, faults>>

\* The SELECT of enqueue_execution or claim_execution.
Lookup(s) ==
  LET j == ask[s].job IN
  /\ pc[s] = "lookup"
  /\ Goto(s, IF ES!MayInsert(j) THEN "insert"
             ELSE IF s \in Direct /\ ES!MayOvertake(j, ask[s].digest, ask[s].steal)
             THEN "overtake" ELSE "refused")
  /\ UNCHANGED <<rows, files, local, pipelines, requests, faults>>

\* The sidecar is written next; the dashboard (_start_job_thread in
\* serve_operator_dashboard.py) has yet to check it.
Claimed(s) == Goto(s, IF ask[s].mode = "console" THEN "check" ELSE "publish")

\* Mutation: the table has no unique key, a second INSERT wins.
UniqueKeyIgnored(j) == TRUE

UniqueKeyFree(j) == rows[j] = ES!Absent

Insert(s) ==
  LET j == ask[s].job IN
  /\ pc[s] = "insert"
  /\ IF UniqueKeyFree(j)
     THEN /\ IF s \in Enqueuers THEN ES!InsertQueued(j, s, ask[s].digest)
                                ELSE ES!InsertRunning(j, s, ask[s].digest)
          /\ Claimed(s)
     ELSE Goto(s, "refused") /\ UNCHANGED rows
  /\ UNCHANGED <<files, local, pipelines, requests, faults>>

\* claim_execution of a row whose lease has run out: UPDATE ... WHERE id, which
\* does not look at a cancellation.
Overtake(s) ==
  /\ pc[s] = "overtake"
  /\ ES!Overtake(ask[s].job, s)
  /\ crossed' = crossed \cup ({ask[s].job} \cap asked)
  /\ Claimed(s)
  /\ UNCHANGED <<files, local, pipelines, ask, asked, faults>>

FirstState(s) == IF s \in Direct THEN "running"
                 ELSE IF s \in Enqueuers THEN "queued" ELSE "accepted"

\* A dry run and an enqueue write the same status again at the end.
Publish(s) ==
  /\ pc[s] \in {"publish", "publishAgain"}
  /\ WriteSidecar(ask[s].job, FirstState(s), FirstState(s) = "accepted", ask[s].digest)
  /\ Goto(s, IF s \in Direct THEN "beat"
             ELSE IF pc[s] = "publish" THEN "publishAgain" ELSE "done")
  /\ UNCHANGED <<rows, local, pipelines, requests, faults>>

\* The first write fails: the execution is recorded as failed.
PublishFails(s) ==
  /\ pc[s] = "publish"
  /\ Fault
  /\ IF s \in Direct \cup Enqueuers
     THEN Goto(s, "finish") /\ outcome' = [outcome EXCEPT ![s] = "failed"]
     ELSE Goto(s, "refused") /\ UNCHANGED outcome
  /\ UNCHANGED <<rows, files, task, seen, pipelines, requests>>

-----------------------------------------------------------------------------
(* A worker takes the next execution.                                       *)

TakeNext(w) ==
  /\ pc[w] = "idle"
  /\ \E j \in ES!ClaimCandidates(w \in Stealing) :
       /\ task' = [task EXCEPT ![w] = j]
       /\ seen' = [seen EXCEPT ![w] = ES!Read(j)]
  /\ Goto(w, "claim")
  /\ UNCHANGED <<rows, files, outcome, pipelines, requests, faults>>

Claim(w) ==
  /\ pc[w] = "claim"
  /\ ES!ClaimNext(task[w], w, seen[w])
  /\ seen' = [seen EXCEPT ![w] = NoRead]
  /\ Goto(w, "reload")
  /\ UNCHANGED <<files, task, outcome, pipelines, requests, faults>>

\* claim_next_execution returns the row as it is now, whoever owns it.
\* _load_payload raises if the payload is gone, and the worker exits.
Reload(w) ==
  /\ pc[w] = "reload"
  /\ IF ~rows[task[w]].payload THEN Gone(w, "dead")
     ELSE IF rows[task[w]].state = "cancel_requested"
     THEN /\ outcome' = [outcome EXCEPT ![w] = "cancelled"]
          /\ Goto(w, "report")
          /\ UNCHANGED <<task, seen, pipelines>>
     ELSE Goto(w, "announce") /\ UNCHANGED <<local, pipelines>>
  /\ UNCHANGED <<rows, files, requests, faults>>

\* validate_request refuses what the submission accepted: an input is missing.
ReloadInvalid(w) ==
  /\ pc[w] = "reload"
  /\ rows[task[w]].payload
  /\ Fault
  /\ outcome' = [outcome EXCEPT ![w] = "failed"]
  /\ Goto(w, "report")
  /\ UNCHANGED <<rows, files, task, seen, pipelines, requests>>

\* Mutation: the pipeline is started without a heartbeat before it.
AnnounceAndLaunch(w) ==
  /\ pc[w] = "announce"
  /\ WriteSidecar(task[w], "running", FALSE, rows[task[w]].digest)
  /\ Goto(w, "launch")
  /\ UNCHANGED <<rows, local, pipelines, requests, faults>>

Announce(w) ==
  /\ pc[w] = "announce"
  /\ WriteSidecar(task[w], "running", FALSE, rows[task[w]].digest)
  /\ Goto(w, "beat")
  /\ UNCHANGED <<rows, local, pipelines, requests, faults>>

-----------------------------------------------------------------------------
(* Running the pipeline: workers and inline executions.                     *)

\* heartbeat_execution's SELECT.  A worker lets its RuntimeError through and
\* exits; an inline execution, which has no child yet, tries to record a
\* failure.
Beat(p) ==
  /\ pc[p] = "beat"
  /\ IF ES!MayUse(task[p], p) THEN Goto(p, "beatWrite") /\ UNCHANGED <<local, pipelines>>
     ELSE IF p \in Workers THEN Gone(p, "dead")
     ELSE /\ Goto(p, "finish")
          /\ outcome' = [outcome EXCEPT ![p] = "failed"]
          /\ UNCHANGED <<task, seen, pipelines>>
  /\ UNCHANGED <<rows, files, requests, faults>>

BeatWrite(p) ==
  /\ pc[p] = "beatWrite"
  /\ ES!Heartbeat(task[p])
  /\ Goto(p, IF child[p] = "none" THEN "launch" ELSE "watch")
  /\ UNCHANGED <<files, local, pipelines, requests, faults>>

Launch(p) ==
  /\ pc[p] = "launch"
  /\ child' = [child EXCEPT ![p] = "running"]
  /\ Goto(p, "watch")
  /\ UNCHANGED <<rows, files, local, orphans, ran, requests, faults>>

LaunchFails(p) ==
  /\ pc[p] = "launch"
  /\ Fault
  /\ outcome' = [outcome EXCEPT ![p] = "failed"]
  /\ Goto(p, "report")
  /\ UNCHANGED <<rows, files, task, seen, pipelines, requests>>

\* The pipeline ends by itself, for better or worse.
ChildExits(p) ==
  /\ child[p] = "running"
  /\ \/ child' = [child EXCEPT ![p] = "ok"] /\ ran' = ran \cup {task[p]}
     \/ child' = [child EXCEPT ![p] = "bad"] /\ UNCHANGED ran
  /\ UNCHANGED <<rows, files, pc, local, orphans, requests, faults>>

OrphanExits(j) ==
  /\ j \in orphans
  /\ orphans' = orphans \ {j}
  /\ ran' \in {ran, ran \cup {j}}
  /\ UNCHANGED <<rows, files, pc, local, child, requests, faults>>

\* The loop's first look at the row; an inline execution never looks.
CancelSeen(p) == p \in Workers /\ rows[task[p]].state = "cancel_requested"

\* The pipeline is over, or the worker puts an end to it.
Ends(p, final) ==
  /\ outcome' = [outcome EXCEPT ![p] = final]
  /\ child' = [child EXCEPT ![p] = "none"]
  /\ Goto(p, "report")
  /\ UNCHANGED <<rows, files, task, seen, orphans, ran, requests, faults>>

Terminate(w) ==
  /\ pc[w] = "watch"
  /\ CancelSeen(w)
  /\ Ends(w, "cancelled")

\* Mutation: the exit code is not looked at.
FinalIgnoringCode(p) == "completed"

FinalState(p) == IF child[p] = "ok" THEN "completed" ELSE "failed"

Collect(p) ==
  /\ pc[p] = "watch"
  /\ ~CancelSeen(p)
  /\ child[p] \in {"ok", "bad"}
  /\ Ends(p, FinalState(p))

\* Mutation: a timeout is recorded like a cancellation (exit code 130).
TimeOutAsCancel(w) ==
  /\ pc[w] = "watch"
  /\ ~CancelSeen(w)
  /\ child[w] = "running"
  /\ Ends(w, "cancelled")

TimeOut(w) ==
  /\ pc[w] = "watch"
  /\ ~CancelSeen(w)
  /\ child[w] = "running"
  /\ Ends(w, "timed_out")

StillRunning(w) ==
  /\ pc[w] = "watch"
  /\ ~CancelSeen(w)
  /\ child[w] = "running"
  /\ Goto(w, "beat")
  /\ UNCHANGED <<rows, files, local, pipelines, requests, faults>>

\* Manifest, receipt and status, then the table.
Report(p) ==
  /\ pc[p] = "report"
  /\ WriteSidecar(task[p], outcome[p], TRUE,
       IF p \in Workers THEN rows[task[p]].digest ELSE ask[p].digest)
  /\ Goto(p, "finish")
  /\ UNCHANGED <<rows, local, pipelines, requests, faults>>

\* finish_execution
FinishRead(p) ==
  /\ pc[p] = "finish"
  /\ IF ES!MayUse(task[p], p)
     THEN Goto(p, "finishWrite") /\ UNCHANGED <<local, pipelines>>
     ELSE Gone(p, IF p \in Workers THEN "dead" ELSE "refused")
  /\ UNCHANGED <<rows, files, requests, faults>>

FinishWrite(p) ==
  /\ pc[p] = "finishWrite"
  /\ ES!Finish(task[p], outcome[p])
  /\ Gone(p, IF p \in Workers THEN "idle"
             ELSE IF p \in Enqueuers THEN "refused" ELSE "done")
  /\ UNCHANGED <<files, requests, faults>>

-----------------------------------------------------------------------------
(* Cancellation.                                                            *)

CancelRead(c) ==
  /\ pc[c] = "start"
  /\ \E j \in Jobs :
       /\ ES!MayCancel(j)
       /\ task' = [task EXCEPT ![c] = j]
       /\ seen' = [seen EXCEPT ![c] = ES!Read(j)]
  /\ Goto(c, "cancel")
  /\ UNCHANGED <<rows, files, outcome, pipelines, requests, faults>>

\* A worker is between its SELECT of j and its UPDATE.
Claiming(j) == \E w \in Workers : pc[w] = "claim" /\ task[w] = j

Cancel(c) ==
  /\ pc[c] = "cancel"
  /\ ES!RequestCancel(task[c], seen[c])
  /\ asked' = asked \cup {task[c]}
  /\ crossed' = crossed \cup {j \in {task[c]} : Claiming(j)}
  /\ seen' = [seen EXCEPT ![c] = NoRead]
  /\ Goto(c, "reread")
  /\ UNCHANGED <<files, task, outcome, pipelines, ask, faults>>

\* Only a row that still has its payload gets a receipt and a status.
CancelReread(c) ==
  /\ pc[c] = "reread"
  /\ IF rows[task[c]].payload
     THEN /\ seen' = [seen EXCEPT ![c] = ES!Read(task[c])]
          /\ Goto(c, "note")
          /\ UNCHANGED <<task, outcome, pipelines>>
     ELSE Gone(c, "done")
  /\ UNCHANGED <<rows, files, requests, faults>>

CancelNote(c) ==
  /\ pc[c] = "note"
  /\ WriteSidecar(task[c], seen[c].state, seen[c].terminal, rows[task[c]].digest)
  /\ Gone(c, "done")
  /\ UNCHANGED <<rows, requests, faults>>

-----------------------------------------------------------------------------
(* Faults and time.                                                         *)

Over == {"done", "refused", "dead"}

Kill(p) ==
  /\ pc[p] \notin {"idle", "start", "check"} \cup Over
  /\ Fault
  /\ Gone(p, "dead")
  /\ UNCHANGED <<rows, files, requests>>

\* A process supervisor starts the worker again.
Restart(w) ==
  /\ pc[w] = "dead"
  /\ Goto(w, "idle")
  /\ UNCHANGED <<rows, files, local, pipelines, requests, faults>>

\* Somebody renews the lease of j: a worker does all the time it is at j, an
\* inline execution only before it starts its pipeline.
Attended(j) ==
  LET a == rows[j].owner IN
  \/ a \in Workers /\ task[a] = j
  \/ a \in Direct /\ pc[a] \notin {"watch"} \cup Over

ExpireUnattended(j) ==
  /\ rows[j].state \in {"running", "cancel_requested"} /\ ~rows[j].expired
  /\ ~Attended(j)
  /\ ES!Expire(j)
  /\ UNCHANGED <<files, pc, local, pipelines, requests, faults>>

\* The owner is stopped, or the clock jumps, for longer than a lease.
ExpireStalled(j) ==
  /\ rows[j].state \in {"running", "cancel_requested"} /\ ~rows[j].expired
  /\ Attended(j)
  /\ Fault
  /\ ES!Expire(j)
  /\ UNCHANGED <<files, pc, local, pipelines, requests>>

-----------------------------------------------------------------------------
HolderStep(p) ==
  \/ Beat(p) \/ BeatWrite(p) \/ Launch(p) \/ Collect(p)
  \/ Report(p) \/ FinishRead(p) \/ FinishWrite(p)

WorkerStep(w) ==
  \/ TakeNext(w) \/ Claim(w) \/ Reload(w) \/ Announce(w)
  \/ Terminate(w) \/ TimeOut(w) \/ StillRunning(w) \/ HolderStep(w)

SubmitterStep(s) ==
  \/ CheckSidecar(s) \/ Lookup(s) \/ Insert(s) \/ Overtake(s) \/ Publish(s)
  \/ s \in Direct /\ HolderStep(s)
  \/ s \in Enqueuers /\ (FinishRead(s) \/ FinishWrite(s))

CancellerStep(c) == CancelRead(c) \/ Cancel(c) \/ CancelReread(c) \/ CancelNote(c)

Next ==
  \/ \E s \in Submitters : SubmitterStep(s) \/ PublishFails(s)
  \/ \E w \in Workers : WorkerStep(w) \/ ReloadInvalid(w) \/ Restart(w)
  \/ \E p \in Holders : ChildExits(p) \/ LaunchFails(p)
  \/ \E c \in Cancellers : CancellerStep(c)
  \/ \E p \in Procs : Kill(p)
  \/ \E j \in Jobs : OrphanExits(j) \/ ExpireUnattended(j) \/ ExpireStalled(j)

Spec == Init /\ [][Next]_vars

\* Workers run, and are started again when they exit; time passes the lease of
\* a row nobody renews; a pipeline ends or is timed out.  Nobody has to submit
\* or cancel anything, and no fault has to happen.
Fairness ==
  /\ \A w \in Workers : /\ WF_vars(WorkerStep(w)) /\ WF_vars(Restart(w))
                        /\ WF_vars(ChildExits(w))
  /\ \A j \in Jobs : WF_vars(ExpireUnattended(j))

FairSpec == Spec /\ Fairness

-----------------------------------------------------------------------------
Labels == {"idle", "claim", "reload", "announce", "check", "lookup", "insert",
           "overtake", "publish", "publishAgain", "beat", "beatWrite", "launch",
           "watch", "report", "finish", "finishWrite", "start", "cancel",
           "reread", "note"} \cup Over

States == ES!Finals \cup ES!Live

TypeOK ==
  /\ ask \in [Submitters -> Ask]
  /\ rows \in [Jobs -> ES!Row]
  /\ status \in [Jobs -> [state: States \cup {"none", "accepted"}, terminal: BOOLEAN]]
  /\ receipt \in [Jobs -> Digests \cup {NoOne}]
  /\ pc \in [Procs -> Labels]
  /\ task \in [Procs -> Jobs \cup {NoOne}]
  /\ seen \in [Procs -> [state: States \cup {"absent"}, terminal: BOOLEAN, payload: BOOLEAN]]
  /\ outcome \in [Holders -> ES!Finals \cup {"none"}]
  /\ child \in [Holders -> {"none", "running", "ok", "bad"}]
  /\ orphans \subseteq Jobs /\ ran \subseteq Jobs
  /\ asked \subseteq Jobs /\ crossed \subseteq Jobs
  /\ faults \in 0..MaxFaults

\* Of several submissions of one job that all found the table empty, one is
\* admitted (the unique keys on job_id and out_base); the others write nothing.
AdmittedOnce ==
  \A s, t \in Enqueuers :
    /\ pc[s] \in {"publish", "publishAgain", "done"}
    /\ pc[t] \in {"publish", "publishAgain", "done"}
    /\ ask[s].job = ask[t].job
    => s = t

\* Nothing is recorded as completed, in the table or in a sidecar, unless a
\* pipeline of that job has exited 0, whoever of several owners records it.
CompletedRan ==
  \A j \in Jobs :
    rows[j].state = "completed" \/ status[j].state = "completed" => j \in ran

\* Nothing is recorded as cancelled unless somebody's cancellation of it was
\* accepted: neither a lost lease nor a dead worker looks like one.
CancelledWasAsked ==
  \A j \in Jobs :
    \/ rows[j].state \in {"cancelled", "cancel_requested"}
    \/ status[j].state \in {"cancelled", "cancel_requested"}
    => j \in asked

Running(j) == {p \in Holders : child[p] = "running" /\ task[p] = j}

\* An execution cancelled before any worker had claimed it never runs, even if
\* a worker had already selected its row: the claim's UPDATE misses it, and the
\* heartbeat before the launch finds that out.
CancelledInQueueNeverRuns ==
  \A j \in Jobs :
    rows[j].terminal /\ rows[j].owner \in Enqueuers => Running(j) = {} /\ j \notin orphans

\* An accepted cancellation stays on its row until the execution is settled, through
\* heartbeats, lost leases, thefts and restarts, unless it was written between the
\* SELECT and the UPDATE of a claim (query_workflow_execution_store.py:309), or an
\* inline execution overtook the row.
CancellationKept ==
  \A j \in asked : rows[j].terminal \/ rows[j].state = "cancel_requested" \/ j \in crossed

\* claim_execution has had its turn at j.
Taken(j) ==
  \E s \in Direct :
    /\ ask[s].job = j
    /\ pc[s] \notin {"lookup", "insert", "overtake"}
    /\ ask[s].mode = "execute" => pc[s] # "check"

\* Every execution that is not settled keeps the payload a worker needs to run it,
\* whatever stale copies of its metadata are written back, unless an inline execution
\* has taken it: claim_execution writes new metadata
\* (query_workflow_execution_store.py:137).
PayloadKept ==
  \A j \in Jobs : rows[j].state \in ES!Live => rows[j].terminal \/ rows[j].payload \/ Taken(j)

\* Where nobody overtakes with claim_execution, a row marked terminal keeps the
\* mark, whatever stale decisions are written over its state.
TerminalStays == [][\A j \in Jobs : rows[j].terminal => rows'[j].terminal]_vars

\* Whatever is queued is settled in the end: done, cancelled, failed or timed
\* out, by the worker that claimed it or by the one that steals it later.
EveryJobSettles == \A j \in Jobs : rows[j].state = "queued" ~> rows[j].terminal
=============================================================================
