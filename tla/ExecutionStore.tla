---------------------------- MODULE ExecutionStore ----------------------------
(***************************************************************************)
(* The query_workflow_executions table and the statements that the         *)
(* functions of query_workflow_execution_store.py run on it.               *)
(*                                                                         *)
(* Every one of those functions is a SELECT, a decision in Python, an      *)
(* UPDATE or INSERT, and a COMMIT.  The SELECT is outside the write        *)
(* transaction, so the row may change between the two: this module gives   *)
(* the decision (an operator named May..., or ...Candidates) and the write *)
(* (an action on rows) separately, and the processes of QueryWorkflow take *)
(* them in two steps.                                                      *)
(*                                                                         *)
(* A job stands for a (job_id, out_base) pair, which are unique keys of    *)
(* the table.  Of the lease only the fact the code asks about is kept:     *)
(* whether its expiry time has been reached.  payload says whether the     *)
(* metadata column still holds raw_payload.                                *)
(***************************************************************************)
EXTENDS Naturals, FiniteSets

CONSTANTS
  Jobs,     \* job ids, each with its output directory
  Owners,   \* processes that can own a lease
  Digests,  \* request digests
  NoOne     \* no owner, no digest: fields of a row that does not exist

VARIABLE rows

Finals == {"completed", "failed", "cancelled", "timed_out"}
Live == {"queued", "running", "cancel_requested"}

Row == [id: Nat, digest: Digests \cup {NoOne}, state: Finals \cup Live \cup {"absent"},
        terminal: BOOLEAN, owner: Owners \cup {NoOne}, expired: BOOLEAN,
        payload: BOOLEAN]

Absent == [id |-> 0, digest |-> NoOne, state |-> "absent", terminal |-> FALSE,
           owner |-> NoOne, expired |-> FALSE, payload |-> FALSE]

\* What a SELECT brings back, as far as a later statement uses it.
Read(j) == [state |-> rows[j].state, terminal |-> rows[j].terminal,
            payload |-> rows[j].payload]

NextId == 1 + Cardinality({j \in Jobs : rows[j] # Absent})

StoreInit == rows = [j \in Jobs |-> Absent]

-----------------------------------------------------------------------------
(* Decisions, taken on the row as the SELECT finds it.                      *)

MayInsert(j) == rows[j] = Absent

MayOvertake(j, digest, steal) ==
  /\ rows[j] # Absent
  /\ ~rows[j].terminal
  /\ rows[j].digest = digest
  /\ steal
  /\ rows[j].expired

\* heartbeat_execution and finish_execution ask the same of the row.
MayUse(j, a) ==
  /\ rows[j] # Absent
  /\ ~rows[j].terminal
  /\ rows[j].owner = a

MayCancel(j) ==
  /\ rows[j] # Absent
  /\ ~rows[j].terminal

Queued == {j \in Jobs : rows[j].state = "queued" /\ ~rows[j].terminal}

\* Mutation: nobody takes over an execution that was being cancelled.
StealableRunning == {j \in Jobs : /\ rows[j].state = "running"
                                  /\ ~rows[j].terminal
                                  /\ rows[j].expired}

Stealable == {j \in Jobs : /\ rows[j].state \in {"running", "cancel_requested"}
                           /\ ~rows[j].terminal
                           /\ rows[j].expired}

\* The oldest queued row; a row whose lease has run out only if none is queued.
ClaimCandidates(steal) ==
  IF Queued # {} THEN {j \in Queued : \A k \in Queued : rows[j].id <= rows[k].id}
  ELSE IF steal THEN Stealable ELSE {}

-----------------------------------------------------------------------------
(* Writes, each a committed statement that selects its row by id alone,     *)
(* except claim_next_execution's, which also asks for terminal = 0.         *)

Put(j, row) == rows' = [rows EXCEPT ![j] = row]

InsertQueued(j, a, digest) ==
  Put(j, [id |-> NextId, digest |-> digest, state |-> "queued", terminal |-> FALSE,
          owner |-> a, expired |-> TRUE, payload |-> TRUE])

InsertRunning(j, a, digest) ==
  Put(j, [id |-> NextId, digest |-> digest, state |-> "running", terminal |-> FALSE,
          owner |-> a, expired |-> FALSE, payload |-> FALSE])

Overtake(j, a) ==
  Put(j, [rows[j] EXCEPT !.state = "running", !.terminal = FALSE, !.owner = a,
                         !.expired = FALSE, !.payload = FALSE])

\* Mutation: WHERE id alone here too.
ClaimNextUnguarded(j, a, read) ==
  Put(j, [rows[j] EXCEPT !.state = "running", !.terminal = FALSE,
                         !.owner = a, !.expired = FALSE, !.payload = read.payload])

ClaimNext(j, a, read) ==
  IF rows[j].terminal THEN UNCHANGED rows
  ELSE Put(j, [rows[j] EXCEPT
                 !.state = IF read.state = "cancel_requested"
                           THEN "cancel_requested" ELSE "running",
                 !.owner = a, !.expired = FALSE, !.payload = read.payload])

\* Mutation: a state the rest of the code does not know.
RequestCancelMisspelt(j, read) ==
  Put(j, [rows[j] EXCEPT !.state = "canceled", !.payload = read.payload])

\* Mutation: new metadata instead of the row's with three more entries.
RequestCancelFresh(j, read) ==
  IF read.state = "queued"
  THEN Put(j, [rows[j] EXCEPT !.state = "cancelled", !.terminal = TRUE, !.payload = FALSE])
  ELSE Put(j, [rows[j] EXCEPT !.state = "cancel_requested", !.payload = FALSE])

RequestCancel(j, read) ==
  IF read.state = "queued"
  THEN Put(j, [rows[j] EXCEPT !.state = "cancelled", !.terminal = TRUE,
                              !.payload = read.payload])
  ELSE Put(j, [rows[j] EXCEPT !.state = "cancel_requested", !.payload = read.payload])

\* Mutation: a heartbeat says that the execution is running.
HeartbeatRunning(j) == Put(j, [rows[j] EXCEPT !.expired = FALSE, !.state = "running"])

Heartbeat(j) == Put(j, [rows[j] EXCEPT !.expired = FALSE])

Finish(j, final) ==
  Put(j, [rows[j] EXCEPT !.state = final, !.terminal = TRUE, !.payload = FALSE])

\* Time passes the row's lease_expires_at_utc.
Expire(j) == Put(j, [rows[j] EXCEPT !.expired = TRUE])

=============================================================================
